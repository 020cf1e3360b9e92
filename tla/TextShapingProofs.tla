-------------------------- MODULE TextShapingProofs --------------------------
(***************************************************************************)
(* Theorems about TextShaping, for every value of its constants: whatever   *)
(* the caption, the fonts and the table of forms, what ShapeLine returns    *)
(* for a line keeps the styles, takes each letter from the best font,       *)
(* writes each character once and, with one exception, in visual order.     *)
(***************************************************************************)
EXTENDS TextShaping, WordWrapProofs
-----------------------------------------------------------------------------
(* Sequences turned around *)

\* ConcatProperties for a sequence that has a name.
LEMMA ConcatIs ==
  ASSUME NEW S, NEW a, NEW b, NEW c, a \in Seq(S), b \in Seq(S), c = a \o b
  PROVE  /\ c \in Seq(S) /\ Len(c) = Len(a) + Len(b)
         /\ \A i \in 1..Len(a) : c[i] = a[i]
         /\ \A i \in 1..Len(b) : c[Len(a) + i] = b[i]
<1>1. /\ c \in Seq(S) /\ Len(c) = Len(a) + Len(b)
      /\ \A i \in 1..Len(a) + Len(b) : c[i] = IF i <= Len(a) THEN a[i] ELSE b[i - Len(a)]
  BY ConcatProperties
<1>2. Len(a) \in Nat /\ Len(b) \in Nat
  OBVIOUS
<1>3. \A i \in 1..Len(a) : c[i] = a[i]
  BY <1>1, <1>2
<1>4. \A i \in 1..Len(b) : Len(a) + i \in 1..Len(a) + Len(b) /\ ~(Len(a) + i <= Len(a))
                         /\ Len(a) + i - Len(a) = i
  BY <1>2
<1> QED BY <1>1, <1>3, <1>4

\* A sequence turned around.
LEMMA ReverseIs ==
  ASSUME NEW S, NEW s \in Seq(S)
  PROVE  /\ Reverse(s) \in Seq(S) /\ Len(Reverse(s)) = Len(s)
         /\ \A i \in 1..Len(s) : Reverse(s)[i] = s[Len(s) - i + 1]
<1>1. Len(s) \in Nat /\ \A i \in 1..Len(s) : Len(s) - i + 1 \in 1..Len(s)
  OBVIOUS
<1>2. \A i \in 1..Len(s) : s[Len(s) - i + 1] \in S
  BY <1>1
<1>3. Reverse(s) \in [1..Len(s) -> S] /\ \A i \in 1..Len(s) : Reverse(s)[i] = s[Len(s) - i + 1]
  BY <1>2 DEF Reverse
<1> QED BY <1>1, <1>3

\* Turned around twice, a sequence is what it was.
LEMMA ReverseTwice ==
  ASSUME NEW S, NEW s \in Seq(S)
  PROVE  Reverse(Reverse(s)) = s
<1>1. PICK t : t = Reverse(s)
  OBVIOUS
<1>2. t \in Seq(S) /\ Len(t) = Len(s) /\ \A i \in 1..Len(s) : t[i] = s[Len(s) - i + 1]
  BY <1>1, ReverseIs
<1>3. PICK u : u = Reverse(t)
  OBVIOUS
<1>4. u \in Seq(S) /\ Len(u) = Len(t) /\ \A i \in 1..Len(t) : u[i] = t[Len(t) - i + 1]
  BY <1>2, <1>3, ReverseIs
<1>5. \A i \in 1..Len(s) : u[i] = s[i]
  <2> SUFFICES ASSUME NEW i \in 1..Len(s) PROVE u[i] = s[i]
    OBVIOUS
  <2>1. Len(s) - i + 1 \in 1..Len(s) /\ Len(s) - (Len(s) - i + 1) + 1 = i
    OBVIOUS
  <2> QED BY <1>2, <1>4, <2>1
<1>6. u = s
  BY <1>2, <1>4, <1>5, SeqEqual
<1> QED BY <1>1, <1>3, <1>6

\* Two sequences turned around change places.
LEMMA ReverseConcat ==
  ASSUME NEW S, NEW a \in Seq(S), NEW b \in Seq(S)
  PROVE  Reverse(a \o b) = Reverse(b) \o Reverse(a)
<1> DEFINE c == a \o b
           ra == Reverse(a)
           rb == Reverse(b)
           rc == Reverse(c)
           d == rb \o ra
<1>1. /\ c \in Seq(S) /\ Len(c) = Len(a) + Len(b)
      /\ \A i \in 1..Len(a) : c[i] = a[i]
      /\ \A i \in 1..Len(b) : c[Len(a) + i] = b[i]
  <2> HIDE DEF c
  <2>1. c = a \o b
    BY DEF c
  <2> QED BY <2>1, ConcatIs
<1> HIDE DEF c
<1>2. /\ ra \in Seq(S) /\ Len(ra) = Len(a) /\ \A i \in 1..Len(a) : ra[i] = a[Len(a) - i + 1]
      /\ rb \in Seq(S) /\ Len(rb) = Len(b) /\ \A i \in 1..Len(b) : rb[i] = b[Len(b) - i + 1]
      /\ rc \in Seq(S) /\ Len(rc) = Len(c) /\ \A i \in 1..Len(c) : rc[i] = c[Len(c) - i + 1]
  BY <1>1, ReverseIs
<1> HIDE DEF ra, rb, rc
<1>3. /\ d \in Seq(S) /\ Len(d) = Len(rb) + Len(ra)
      /\ \A i \in 1..Len(rb) : d[i] = rb[i]
      /\ \A i \in 1..Len(ra) : d[Len(rb) + i] = ra[i]
  <2> HIDE DEF d
  <2>1. d = rb \o ra
    BY DEF d
  <2>2. ra \in Seq(S) /\ rb \in Seq(S)
    BY <1>2
  <2> QED BY ONLY <2>1, <2>2, ConcatIs
<1> HIDE DEF d
<1>4. Len(a) \in Nat /\ Len(b) \in Nat
  OBVIOUS
<1>5. ASSUME NEW i \in 1..Len(a) + Len(b) PROVE rc[i] = d[i]
  <2>1. rc[i] = c[Len(a) + Len(b) - i + 1]
    BY <1>1, <1>2, <1>4
  <2>2. CASE i <= Len(b)
    <3>1. /\ i \in 1..Len(b) /\ Len(b) - i + 1 \in 1..Len(b)
          /\ Len(a) + Len(b) - i + 1 = Len(a) + (Len(b) - i + 1)
      BY <1>4, <2>2
    <3>2. c[Len(a) + Len(b) - i + 1] = b[Len(b) - i + 1]
      BY ONLY <1>1, <3>1
    <3>3. d[i] = b[Len(b) - i + 1]
      BY ONLY <1>2, <1>3, <3>1
    <3> QED BY <2>1, <3>2, <3>3
  <2>3. CASE ~(i <= Len(b))
    <3> DEFINE j == i - Len(b)
    <3>1. /\ j \in 1..Len(a) /\ Len(a) - j + 1 \in 1..Len(a)
          /\ Len(a) + Len(b) - i + 1 = Len(a) - j + 1 /\ i = Len(b) + j
      BY <1>4, <2>3
    <3> HIDE DEF j
    <3>2. c[Len(a) + Len(b) - i + 1] = a[Len(a) - j + 1]
      BY ONLY <1>1, <3>1
    <3>3. d[i] = ra[j]
      BY ONLY <1>2, <1>3, <3>1
    <3>4. ra[j] = a[Len(a) - j + 1]
      BY ONLY <1>2, <3>1
    <3> QED BY <2>1, <3>2, <3>3, <3>4
  <2> QED BY <2>2, <2>3
<1>6. rc = d
  <2>1. Len(rc) = Len(d) /\ Len(rc) = Len(a) + Len(b)
    BY <1>1, <1>2, <1>3, <1>4
  <2> QED BY <1>2, <1>3, <1>5, <2>1, SeqEqual
<1> QED BY <1>6 DEF rc, d, c, ra, rb

\* Nothing turned around is nothing, and one element stays.
LEMMA ReverseShort ==
  ASSUME NEW S, NEW s \in Seq(S), Len(s) <= 1
  PROVE  Reverse(s) = s
<1>1. PICK t : t = Reverse(s)
  OBVIOUS
<1>2. t \in Seq(S) /\ Len(t) = Len(s) /\ \A i \in 1..Len(s) : t[i] = s[Len(s) - i + 1]
  BY <1>1, ReverseIs
<1>3. \A i \in 1..Len(s) : t[i] = s[i]
  BY <1>2
<1> QED BY <1>1, <1>2, <1>3, SeqEqual

\* A sequence that is empty.
LEMMA EmptyIs ==
  ASSUME NEW S, NEW s \in Seq(S), Len(s) = 0
  PROVE  s = <<>>
BY EmptySeq
-----------------------------------------------------------------------------
(* Where the parts of a flattened sequence are *)

\* The first parts of a sequence of sequences.
Parts(ss, r) == [q \in 1..r |-> ss[q]]

\* Where a part ends.
EndOf(ss, r) == Len(FlattenSeq(Parts(ss, r)))

\* One more part.
LEMMA PartsNext ==
  ASSUME NEW S, NEW ss, NEW r, ss \in Seq(Seq(S)), r \in 1..Len(ss)
  PROVE  /\ Parts(ss, r - 1) \in Seq(Seq(S)) /\ Parts(ss, r) \in Seq(Seq(S))
         /\ FlattenSeq(Parts(ss, r)) = FlattenSeq(Parts(ss, r - 1)) \o ss[r]
         /\ FlattenSeq(Parts(ss, r - 1)) \in Seq(S) /\ ss[r] \in Seq(S)
<1> DEFINE SS == Seq(S)
<1>0. ss \in Seq(SS)
  OBVIOUS
<1>1. ss[r] \in SS /\ ss[r] \in Seq(S)
  OBVIOUS
<1> HIDE DEF SS
<1>2. r \in Nat /\ r - 1 \in Nat /\ r <= Len(ss) /\ \A q \in 1..r : ss[q] \in SS
  BY <1>0
<1>3. Parts(ss, r - 1) \in Seq(SS) /\ Parts(ss, r) \in Seq(SS)
      /\ Len(Parts(ss, r - 1)) = r - 1 /\ Len(Parts(ss, r)) = r
  BY <1>2 DEF Parts
<1>4. PICK p, q : p = Parts(ss, r - 1) /\ q = Append(p, ss[r])
  OBVIOUS
<1>5. q \in Seq(SS) /\ Len(q) = r /\ q[r] = ss[r] /\ \A i \in 1..r - 1 : q[i] = p[i]
  BY <1>1, <1>2, <1>3, <1>4, AppendIs
<1>6. \A i \in 1..r : q[i] = Parts(ss, r)[i]
  <2>1. \A i \in 1..r - 1 : p[i] = ss[i]
    BY <1>4 DEF Parts
  <2>2. \A i \in 1..r : i = r \/ i \in 1..r - 1
    BY <1>2
  <2>3. \A i \in 1..r : Parts(ss, r)[i] = ss[i]
    BY DEF Parts
  <2> QED BY <1>5, <2>1, <2>2, <2>3
<1>7. Parts(ss, r) = q
  BY <1>3, <1>5, <1>6, SeqEqual
<1>8. p \in Seq(Seq(S))
  BY <1>3, <1>4 DEF SS
<1>9. FlattenSeq(Append(p, ss[r])) = FlattenSeq(p) \o ss[r]
  BY <1>1, <1>8, FlattenAppend
<1>10. FlattenSeq(p) \in Seq(S)
  BY <1>8, FlattenType
<1> QED BY <1>1, <1>3, <1>4, <1>7, <1>9, <1>10 DEF SS

\* All parts are the sequence, no parts are nothing.
LEMMA PartsAll ==
  ASSUME NEW S, NEW ss, ss \in Seq(S)
  PROVE  Parts(ss, Len(ss)) = ss /\ Parts(ss, 0) = <<>>
<1>1. \A q \in 1..Len(ss) : ss[q] \in S
  OBVIOUS
<1>2. Parts(ss, Len(ss)) \in Seq(S) /\ Len(Parts(ss, Len(ss))) = Len(ss)
      /\ \A q \in 1..Len(ss) : Parts(ss, Len(ss))[q] = ss[q]
  BY <1>1 DEF Parts
<1>3. Parts(ss, Len(ss)) = ss
  BY <1>2, SeqEqual
<1>4. Parts(ss, 0) = <<>>
  BY DEF Parts
<1> QED BY <1>3, <1>4

\* The ends of the parts.
LEMMA Ends ==
  ASSUME NEW S, NEW ss, ss \in Seq(Seq(S))
  PROVE  /\ EndOf(ss, 0) = 0 /\ EndOf(ss, Len(ss)) = Len(FlattenSeq(ss))
         /\ \A r \in 0..Len(ss) : EndOf(ss, r) \in Nat
         /\ \A r \in 1..Len(ss) : Len(ss[r]) \in Nat /\ EndOf(ss, r) = EndOf(ss, r - 1) + Len(ss[r])
<1> DEFINE SS == Seq(S)
<1>1. ss \in Seq(SS)
  OBVIOUS
<1>2. Parts(ss, Len(ss)) = ss /\ Parts(ss, 0) = <<>>
  <2> HIDE DEF SS
  <2> QED BY <1>1, PartsAll
<1>3. EndOf(ss, 0) = 0
  <2>1. Len(<<>>) = 0
    OBVIOUS
  <2> QED BY ONLY <1>2, <2>1, FlattenEmpty DEF EndOf
<1>4. EndOf(ss, Len(ss)) = Len(FlattenSeq(ss))
  BY ONLY <1>2 DEF EndOf
<1>5. ASSUME NEW r \in 1..Len(ss)
      PROVE  /\ Len(ss[r]) \in Nat /\ EndOf(ss, r - 1) \in Nat
             /\ EndOf(ss, r) = EndOf(ss, r - 1) + Len(ss[r])
  <2>1. PICK a, b, c : a = FlattenSeq(Parts(ss, r - 1)) /\ b = ss[r] /\ c = FlattenSeq(Parts(ss, r))
    OBVIOUS
  <2>2. a \in Seq(S) /\ b \in Seq(S) /\ c = a \o b
    BY <2>1, PartsNext
  <2>3. Len(c) = Len(a) + Len(b) /\ Len(a) \in Nat /\ Len(b) \in Nat
    BY ONLY <2>2, ConcatProperties, LenProperties
  <2> QED BY ONLY <2>1, <2>3 DEF EndOf
<1>6. ASSUME NEW r \in 0..Len(ss) PROVE EndOf(ss, r) \in Nat
  <2>1. CASE r = 0
    BY <1>3, <2>1
  <2>2. CASE r \in 1..Len(ss)
    <3>1. EndOf(ss, r - 1) + Len(ss[r]) \in Nat
      BY <1>5, <2>2
    <3> QED BY ONLY <1>5, <2>2, <3>1
  <2> QED BY <2>1, <2>2
<1> QED BY <1>3, <1>4, <1>5, <1>6

\* The ends come one after the other.
LEMMA EndsOrdered ==
  ASSUME NEW S, NEW ss, ss \in Seq(Seq(S))
  PROVE  \A q, r \in 0..Len(ss) : q <= r => EndOf(ss, q) <= EndOf(ss, r)
<1> DEFINE T == {m \in Nat : \A q, r \in 0..Len(ss) : r = q + m => EndOf(ss, q) <= EndOf(ss, r)}
<1>0. Len(ss) \in Nat
  OBVIOUS
<1>1. 0 \in T
  BY Ends
<1>2. ASSUME NEW m \in Nat, m \in T PROVE m + 1 \in T
  <2> SUFFICES ASSUME NEW q \in 0..Len(ss), NEW r \in 0..Len(ss), r = q + (m + 1)
               PROVE  EndOf(ss, q) <= EndOf(ss, r)
    BY <1>0
  <2>1. r - 1 \in 0..Len(ss) /\ r \in 1..Len(ss) /\ r - 1 = q + m
    BY <1>0
  <2>2. EndOf(ss, q) <= EndOf(ss, r - 1)
    BY <1>2, <2>1
  <2>3. /\ EndOf(ss, q) \in Nat /\ EndOf(ss, r - 1) \in Nat /\ Len(ss[r]) \in Nat
        /\ EndOf(ss, r) = EndOf(ss, r - 1) + Len(ss[r])
    BY <2>1, Ends
  <2> QED BY <2>2, <2>3
<1>3. \A m \in Nat : m \in T
  <2> HIDE DEF T
  <2> QED BY <1>1, <1>2, Induction
<1>4. ASSUME NEW q \in 0..Len(ss), NEW r \in 0..Len(ss), q <= r
      PROVE  EndOf(ss, q) <= EndOf(ss, r)
  <2>1. r - q \in Nat /\ r = q + (r - q)
    BY <1>4, <1>0
  <2> QED BY <1>3, <2>1
<1> QED BY <1>4

\* Where the elements of a part are.
LEMMA FlattenAt ==
  ASSUME NEW S, NEW ss, ss \in Seq(Seq(S))
  PROVE  \A r \in 1..Len(ss) : \A k \in 1..Len(ss[r]) :
           /\ EndOf(ss, r - 1) + k \in 1..Len(FlattenSeq(ss))
           /\ FlattenSeq(ss)[EndOf(ss, r - 1) + k] = ss[r][k]
<1> SUFFICES ASSUME NEW r, r \in 1..Len(ss), NEW k, k \in 1..Len(ss[r])
             PROVE  /\ EndOf(ss, r - 1) + k \in 1..Len(FlattenSeq(ss))
                    /\ FlattenSeq(ss)[EndOf(ss, r - 1) + k] = ss[r][k]
  OBVIOUS
<1> DEFINE e == EndOf(ss, r - 1)
           T == {m \in Nat : r + m <= Len(ss) =>
                   /\ e + k \in 1..EndOf(ss, r + m)
                   /\ FlattenSeq(Parts(ss, r + m))[e + k] = ss[r][k]}
<1>0. /\ Len(ss) \in Nat /\ r \in Nat /\ r - 1 \in 0..Len(ss) /\ Len(ss[r]) \in Nat
      /\ e \in Nat /\ k \in Nat
  <2>1. Len(ss) \in Nat /\ r \in Nat /\ r - 1 \in 0..Len(ss)
    OBVIOUS
  <2>2. Len(ss[r]) \in Nat
    BY Ends
  <2> QED BY <2>1, <2>2, Ends
<1>1. 0 \in T
  <2>1. PICK a, b, c : /\ a = FlattenSeq(Parts(ss, r - 1)) /\ b = ss[r]
                       /\ c = FlattenSeq(Parts(ss, r))
    OBVIOUS
  <2>2. a \in Seq(S) /\ b \in Seq(S) /\ c = a \o b
    BY <2>1, PartsNext
  <2>3. c[Len(a) + k] = b[k] /\ Len(c) = Len(a) + Len(b)
    <3>1. k \in 1..Len(b)
      BY <2>1
    <3> QED BY ONLY <2>2, <3>1, ConcatIs
  <2>4. e = Len(a) /\ EndOf(ss, r) = Len(c)
    BY <2>1 DEF EndOf
  <2>5. r + 0 = r
    BY <1>0
  <2>6. e + k \in 1..EndOf(ss, r)
    <3>1. Len(b) = Len(ss[r])
      BY <2>1
    <3> HIDE DEF e
    <3> QED BY <1>0, <2>3, <2>4, <3>1
  <2>7. FlattenSeq(Parts(ss, r))[e + k] = ss[r][k]
    BY ONLY <2>1, <2>3, <2>4
  <2> QED BY ONLY <2>5, <2>6, <2>7
<1>2. ASSUME NEW m \in Nat, m \in T PROVE m + 1 \in T
  <2> DEFINE x == r + (m + 1)
  <2> SUFFICES ASSUME x <= Len(ss)
               PROVE  /\ e + k \in 1..EndOf(ss, x)
                      /\ FlattenSeq(Parts(ss, x))[e + k] = ss[r][k]
    OBVIOUS
  <2>0. x \in 1..Len(ss) /\ x - 1 = r + m /\ r + m <= Len(ss)
    BY <1>0
  <2>1. PICK a, b, c : /\ a = FlattenSeq(Parts(ss, x - 1)) /\ b = ss[x]
                       /\ c = FlattenSeq(Parts(ss, x))
    OBVIOUS
  <2> HIDE DEF x
  <2>2. a \in Seq(S) /\ b \in Seq(S) /\ c = a \o b
    BY <2>0, <2>1, PartsNext
  <2>3. e + k \in 1..Len(a) /\ a[e + k] = ss[r][k]
    <3>1. Len(a) = EndOf(ss, x - 1)
      BY <2>1 DEF EndOf
    <3>2. /\ e + k \in 1..EndOf(ss, r + m)
          /\ FlattenSeq(Parts(ss, r + m))[e + k] = ss[r][k]
      BY <1>2, <2>0
    <3> QED BY ONLY <2>0, <2>1, <3>1, <3>2
  <2>4. c[e + k] = a[e + k] /\ Len(c) = Len(a) + Len(b) /\ Len(a) \in Nat /\ Len(b) \in Nat
    BY ONLY <2>2, <2>3, ConcatIs, LenProperties
  <2>5. EndOf(ss, x) = Len(c)
    BY <2>1 DEF EndOf
  <2>6. e + k \in 1..Len(c)
    <3> HIDE DEF e
    <3> QED BY <1>0, <2>3, <2>4
  <2> QED BY ONLY <2>1, <2>3, <2>4, <2>5, <2>6
<1>3. \A m \in Nat : m \in T
  <2> HIDE DEF T
  <2> QED BY <1>1, <1>2, Induction
<1>4. Len(ss) - r \in Nat /\ r + (Len(ss) - r) = Len(ss) /\ Len(ss) <= Len(ss)
  BY <1>0
<1>5. /\ e + k \in 1..EndOf(ss, Len(ss))
      /\ FlattenSeq(Parts(ss, Len(ss)))[e + k] = ss[r][k]
  <2>1. PICK m : m = Len(ss) - r
    OBVIOUS
  <2>2. m \in T /\ r + m = Len(ss) /\ r + m <= Len(ss)
    BY <1>3, <1>4, <2>1
  <2> QED BY ONLY <2>2
<1>6. EndOf(ss, Len(ss)) = Len(FlattenSeq(ss))
  BY Ends
<1>7. Parts(ss, Len(ss)) = ss
  <2> DEFINE SS == Seq(S)
  <2>1. ss \in Seq(SS)
    OBVIOUS
  <2> HIDE DEF SS
  <2> QED BY <2>1, PartsAll
<1> QED BY ONLY <1>5, <1>6, <1>7

\* In which part an element is.
LEMMA FlattenFrom ==
  ASSUME NEW S, NEW ss, ss \in Seq(Seq(S)), NEW i, i \in 1..Len(FlattenSeq(ss))
  PROVE  \E r \in 1..Len(ss) : \E k \in 1..Len(ss[r]) :
           i = EndOf(ss, r - 1) + k /\ FlattenSeq(ss)[i] = ss[r][k]
<1> DEFINE T == {m \in Nat : m <= Len(ss) => (i <= EndOf(ss, m) =>
                   \E r \in 1..Len(ss) : EndOf(ss, r - 1) < i /\ i <= EndOf(ss, r))}
<1>0. Len(ss) \in Nat /\ i \in Nat /\ i >= 1 /\ \A m \in 0..Len(ss) : EndOf(ss, m) \in Nat
  BY Ends
<1>1. 0 \in T
  BY <1>0, Ends
<1>2. ASSUME NEW m \in Nat, m \in T PROVE m + 1 \in T
  <2> SUFFICES ASSUME m + 1 <= Len(ss), i <= EndOf(ss, m + 1)
               PROVE  \E r \in 1..Len(ss) : EndOf(ss, r - 1) < i /\ i <= EndOf(ss, r)
    OBVIOUS
  <2>1. CASE i <= EndOf(ss, m)
    BY <1>0, <1>2, <2>1
  <2>2. CASE ~(i <= EndOf(ss, m))
    <3>1. m + 1 \in 1..Len(ss) /\ m + 1 - 1 = m /\ m \in 0..Len(ss)
      BY <1>0
    <3>2. EndOf(ss, m) < i
      BY <1>0, <2>2, <3>1
    <3> QED BY <3>1, <3>2
  <2> QED BY <2>1, <2>2
<1>3. \A m \in Nat : m \in T
  <2> HIDE DEF T
  <2> QED BY <1>1, <1>2, Induction
<1>4. i <= EndOf(ss, Len(ss))
  BY Ends
<1>5. PICK r \in 1..Len(ss) : EndOf(ss, r - 1) < i /\ i <= EndOf(ss, r)
  BY <1>0, <1>3, <1>4
<1> DEFINE k == i - EndOf(ss, r - 1)
<1>6. /\ r - 1 \in 0..Len(ss) /\ Len(ss[r]) \in Nat /\ EndOf(ss, r) = EndOf(ss, r - 1) + Len(ss[r])
  <2>1. r - 1 \in 0..Len(ss)
    BY <1>0
  <2> QED BY <2>1, Ends
<1>7. k \in 1..Len(ss[r]) /\ i = EndOf(ss, r - 1) + k
  <2>1. PICK a, b, n : a = EndOf(ss, r - 1) /\ b = EndOf(ss, r) /\ n = Len(ss[r])
    OBVIOUS
  <2>2. a \in Nat /\ n \in Nat /\ b = a + n /\ a < i /\ i <= b /\ i \in Nat
    BY <1>0, <1>5, <1>6, <2>1
  <2>3. i - a \in 1..n /\ i = a + (i - a)
    BY ONLY <2>2
  <2> QED BY ONLY <2>1, <2>3
<1>8. FlattenSeq(ss)[EndOf(ss, r - 1) + k] = ss[r][k]
  <2>1. PICK q, j : q = r /\ j = k
    OBVIOUS
  <2>2. q \in 1..Len(ss) /\ j \in 1..Len(ss[q])
    BY <1>7, <2>1
  <2>3. \A x \in 1..Len(ss) : \A y \in 1..Len(ss[x]) :
          FlattenSeq(ss)[EndOf(ss, x - 1) + y] = ss[x][y]
    BY FlattenAt
  <2>4. FlattenSeq(ss)[EndOf(ss, q - 1) + j] = ss[q][j]
    BY ONLY <2>2, <2>3
  <2> QED BY ONLY <2>1, <2>4
<1> QED BY ONLY <1>5, <1>7, <1>8

\* If all parts but one are empty, that is what remains.
LEMMA FlattenOnly ==
  ASSUME NEW S, NEW ss, ss \in Seq(Seq(S)), NEW d, d \in 1..Len(ss),
         \A r \in 1..Len(ss) : r # d => ss[r] = <<>>
  PROVE  FlattenSeq(ss) = ss[d]
<1> DEFINE T == {m \in Nat : m <= Len(ss) =>
                   FlattenSeq(Parts(ss, m)) = IF m < d THEN <<>> ELSE ss[d]}
<1>0. Len(ss) \in Nat /\ d \in Nat /\ d >= 1 /\ d <= Len(ss)
  OBVIOUS
<1>01. Parts(ss, Len(ss)) = ss /\ Parts(ss, 0) = <<>>
  <2> DEFINE SS == Seq(S)
  <2>1. ss \in Seq(SS)
    OBVIOUS
  <2> HIDE DEF SS
  <2> QED BY <2>1, PartsAll
<1>1. 0 \in T
  <2>1. FlattenSeq(Parts(ss, 0)) = <<>>
    BY ONLY <1>01, FlattenEmpty
  <2>2. 0 < d
    BY <1>0
  <2> QED BY <2>1, <2>2
<1>2. ASSUME NEW m \in Nat, m \in T PROVE m + 1 \in T
  <2> SUFFICES ASSUME m + 1 <= Len(ss)
               PROVE  FlattenSeq(Parts(ss, m + 1)) = IF m + 1 < d THEN <<>> ELSE ss[d]
    OBVIOUS
  <2>0. m + 1 \in 1..Len(ss) /\ m + 1 - 1 = m
    BY <1>0
  <2>1. PICK a, b, c : /\ a = FlattenSeq(Parts(ss, m)) /\ b = ss[m + 1]
                       /\ c = FlattenSeq(Parts(ss, m + 1))
    OBVIOUS
  <2>2. a \in Seq(S) /\ b \in Seq(S) /\ c = a \o b
    <3>1. PICK x : x = m + 1
      OBVIOUS
    <3>2. x \in 1..Len(ss) /\ x - 1 = m
      BY <2>0, <3>1
    <3>3. /\ FlattenSeq(Parts(ss, x)) = FlattenSeq(Parts(ss, x - 1)) \o ss[x]
          /\ FlattenSeq(Parts(ss, x - 1)) \in Seq(S) /\ ss[x] \in Seq(S)
      BY <3>2, PartsNext
    <3> QED BY ONLY <2>1, <3>1, <3>2, <3>3
  <2>3. a = IF m < d THEN <<>> ELSE ss[d]
    BY <1>0, <1>2, <2>1
  <2>4. a \o <<>> = a /\ <<>> \o b = b
    BY ONLY <2>2, ConcatEmptySeq
  <2>5. CASE m + 1 = d
    <3>1. a = <<>> /\ ~(m + 1 < d)
      BY <2>3, <2>5, <1>0
    <3> QED BY ONLY <2>1, <2>2, <2>4, <2>5, <3>1
  <2>6. CASE m + 1 # d
    <3>1. b = <<>>
      BY <2>0, <2>1, <2>6
    <3>2. c = a
      BY ONLY <2>2, <2>4, <3>1
    <3>3. (m < d) <=> (m + 1 < d)
      BY <1>0, <2>6
    <3> QED BY ONLY <2>1, <2>3, <3>2, <3>3
  <2> QED BY <2>5, <2>6
<1>3. \A m \in Nat : m \in T
  <2> HIDE DEF T
  <2> QED BY <1>1, <1>2, Induction
<1>4. ~(Len(ss) < d)
  BY <1>0
<1>5. FlattenSeq(Parts(ss, Len(ss))) = ss[d]
  BY <1>0, <1>3, <1>4
<1> QED BY ONLY <1>01, <1>5

\* If all parts are empty, nothing remains.
LEMMA FlattenNone ==
  ASSUME NEW S, NEW ss, ss \in Seq(Seq(S)), \A r \in 1..Len(ss) : ss[r] = <<>>
  PROVE  FlattenSeq(ss) = <<>>
<1>1. CASE Len(ss) = 0
  <2>1. ss = <<>>
    <3> DEFINE SS == Seq(S)
    <3>1. ss \in Seq(SS)
      OBVIOUS
    <3> HIDE DEF SS
    <3> QED BY <1>1, <3>1, EmptyIs
  <2> QED BY ONLY <2>1, FlattenEmpty
<1>2. CASE Len(ss) # 0
  <2>1. 1 \in 1..Len(ss)
    BY <1>2
  <2>2. FlattenSeq(ss) = ss[1]
    BY <2>1, FlattenOnly
  <2> QED BY <2>1, <2>2
<1> QED BY <1>1, <1>2

\* A flattened sequence turned around is its parts, each turned around, from the
\* last to the first.
LEMMA FlattenReverse ==
  ASSUME NEW S, NEW ss, ss \in Seq(Seq(S))
  PROVE  Reverse(FlattenSeq(ss)) = FlattenSeq([r \in 1..Len(ss) |-> Reverse(Reverse(ss)[r])])
<1> DEFINE SS == Seq(S)
           R(x) == [r \in 1..Len(x) |-> Reverse(Reverse(x)[r])]
           T == {x \in Seq(SS) : Reverse(FlattenSeq(x)) = FlattenSeq(R(x))}
<1>1. <<>> \in T
  <2>1. R(<<>>) = <<>> /\ Reverse(<<>>) = <<>>
    BY DEF Reverse
  <2>2. Reverse(FlattenSeq(<<>>)) = FlattenSeq(R(<<>>))
    BY ONLY <2>1, FlattenEmpty
  <2> QED BY <2>2
<1>2. ASSUME NEW t \in Seq(SS), NEW x \in SS, t \in T PROVE Append(t, x) \in T
  <2>0. t \in Seq(Seq(S)) /\ x \in Seq(S) /\ FlattenSeq(t) \in Seq(S) /\ Reverse(x) \in Seq(S)
    BY FlattenType, ReverseIs
  <2>1. FlattenSeq(Append(t, x)) = FlattenSeq(t) \o x
    BY <2>0, FlattenAppend
  <2>2. Reverse(FlattenSeq(t) \o x) = Reverse(x) \o Reverse(FlattenSeq(t))
    BY <2>0, ReverseConcat
  <2> DEFINE one == <<Reverse(x)>>
             more == Append(t, x)
  <2>3. one \in Seq(Seq(S)) /\ Len(one) = 1 /\ one[1] = Reverse(x)
    BY <2>0
  <2>4. R(t) \in Seq(Seq(S)) /\ Len(R(t)) = Len(t)
        /\ \A r \in 1..Len(t) : R(t)[r] = Reverse(Reverse(t)[r])
    <3>1. \A r \in 1..Len(t) : Reverse(t)[r] \in SS
      <4>1. Reverse(t) \in Seq(SS) /\ Len(Reverse(t)) = Len(t)
        <5> HIDE DEF SS
        <5> QED BY ReverseIs
      <4> QED BY <4>1
    <3>2. \A r \in 1..Len(t) : Reverse(Reverse(t)[r]) \in Seq(S)
      BY <3>1, ReverseIs
    <3>3. Len(t) \in Nat
      OBVIOUS
    <3> QED BY <3>2, <3>3
  <2>5. R(more) = one \o R(t)
    <3> DEFINE c == one \o R(t)
    <3>1. more \in Seq(SS) /\ Len(more) = Len(t) + 1 /\ more[Len(t) + 1] = x
          /\ \A r \in 1..Len(t) : more[r] = t[r]
      BY AppendProperties
    <3> HIDE DEF more
    <3>2. Len(c) = Len(t) + 1 /\ c \in Seq(Seq(S)) /\ c[1] = Reverse(x)
          /\ \A r \in 1..Len(t) : c[r + 1] = Reverse(Reverse(t)[r])
      <4>1. PICK a, b : a = one /\ b = R(t)
        OBVIOUS
      <4> DEFINE W == Seq(S)
      <4>2. a \in Seq(W) /\ b \in Seq(W) /\ Len(a) = 1 /\ Len(b) = Len(t) /\ a[1] = Reverse(x)
            /\ \A r \in 1..Len(t) : b[r] = Reverse(Reverse(t)[r])
        BY <2>3, <2>4, <4>1
      <4> HIDE DEF W, c, R, one
      <4>3. c = a \o b
        BY <4>1 DEF c
      <4>4. /\ c \in Seq(W) /\ Len(c) = Len(a) + Len(b)
            /\ \A i \in 1..Len(a) : c[i] = a[i]
            /\ \A i \in 1..Len(b) : c[Len(a) + i] = b[i]
        <5>1. a \in Seq(W) /\ b \in Seq(W)
          BY <4>2
        <5> QED BY ONLY <4>3, <5>1, ConcatIs
      <4>5. Len(t) \in Nat
        OBVIOUS
      <4>6. c \in Seq(Seq(S))
        BY <4>4 DEF W
      <4>7. 1 \in 1..Len(a) /\ \A r \in 1..Len(t) : 1 + r = r + 1
        BY <4>2
      <4>8. Len(c) = Len(t) + 1
        BY ONLY <4>2, <4>4, <4>5
      <4>9. c[1] = Reverse(x)
        BY ONLY <4>2, <4>4, <4>7
      <4>10. \A r \in 1..Len(t) : c[r + 1] = Reverse(Reverse(t)[r])
        BY ONLY <4>2, <4>4, <4>7
      <4> QED BY ONLY <4>6, <4>8, <4>9, <4>10
    <3> HIDE DEF c
    <3>3. \A r \in 1..Len(more) : Reverse(more)[r] = more[Len(more) - r + 1]
      BY DEF Reverse
    <3>4. \A r \in 1..Len(t) : Reverse(t)[r] = t[Len(t) - r + 1]
      BY DEF Reverse
    <3>5. ASSUME NEW r \in 1..Len(more) PROVE R(more)[r] = c[r]
      <4>0. R(more)[r] = Reverse(Reverse(more)[r]) /\ Reverse(more)[r] = more[Len(t) + 1 - r + 1]
        BY <3>1, <3>3
      <4>1. CASE r = 1
        <5>1. Len(t) + 1 - r + 1 = Len(t) + 1
          BY <4>1
        <5> QED BY ONLY <3>1, <3>2, <4>0, <4>1, <5>1
      <4>2. CASE r # 1
        <5>1. r - 1 \in 1..Len(t) /\ (r - 1) + 1 = r
              /\ Len(t) + 1 - r + 1 = Len(t) - (r - 1) + 1 /\ Len(t) - (r - 1) + 1 \in 1..Len(t)
          BY <3>1, <4>2
        <5>2. more[Len(t) + 1 - r + 1] = t[Len(t) - (r - 1) + 1]
          BY ONLY <3>1, <5>1
        <5>3. Reverse(t)[r - 1] = t[Len(t) - (r - 1) + 1]
          BY ONLY <3>4, <5>1
        <5>4. c[r] = Reverse(Reverse(t)[r - 1])
          BY ONLY <3>2, <5>1
        <5> QED BY ONLY <4>0, <5>2, <5>3, <5>4
      <4> QED BY <4>1, <4>2
    <3>6. Len(R(more)) = Len(c) /\ DOMAIN c = 1..Len(c) /\ DOMAIN R(more) = 1..Len(more)
      BY <3>1, <3>2
    <3>7. R(more) = c
      <4>1. R(more) = [r \in 1..Len(more) |-> c[r]]
        BY <3>5
      <4>2. c = [r \in 1..Len(c) |-> c[r]]
        BY <3>2
      <4>3. Len(c) = Len(more)
        BY <3>1, <3>2
      <4> QED BY ONLY <4>1, <4>2, <4>3
    <3> QED BY <3>7 DEF c
  <2>6. FlattenSeq(one \o R(t)) = FlattenSeq(one) \o FlattenSeq(R(t))
    <3> HIDE DEF one, R
    <3> QED BY <2>3, <2>4, FlattenConcat
  <2>7. FlattenSeq(one) = Reverse(x)
    BY <2>0, FlattenOne
  <2>8. Reverse(FlattenSeq(t)) = FlattenSeq(R(t))
    BY <1>2
  <2>9. Reverse(FlattenSeq(more)) = FlattenSeq(R(more))
    BY ONLY <2>1, <2>2, <2>5, <2>6, <2>7, <2>8
  <2>10. more \in Seq(SS)
    BY AppendProperties
  <2> QED BY <2>9, <2>10
<1>3. \A x \in Seq(SS) : x \in T
  <2> HIDE DEF T, SS
  <2> QED BY <1>1, <1>2, InductionOnSequences
<1>4. ss \in Seq(SS)
  OBVIOUS
<1> QED BY <1>3, <1>4
-----------------------------------------------------------------------------
(* Stretches *)

\* A stretch of places.
Stretch == [first: Nat, last: Nat]

\* A stretch that goes on to a place.
Longer(sp, i) == [sp EXCEPT ![Len(sp)].last = i]

\* The recursion of Stretches, one place on.
StretchStep(sp, values, i) ==
  IF i > 1 /\ values[i] = values[i - 1] THEN Longer(sp, i)
  ELSE Append(sp, [first |-> i, last |-> i])

\* A stretch that ends later.
LEMMA LongerStretch ==
  ASSUME NEW e, e \in Stretch, NEW i, i \in Nat
  PROVE  /\ [e EXCEPT !.last = i] \in Stretch /\ [e EXCEPT !.last = i].first = e.first
         /\ [e EXCEPT !.last = i].last = i
BY DEF Stretch

\* The last stretch goes on, the others stay.
LEMMA LongerIs ==
  ASSUME NEW sp, sp \in Seq(Stretch), NEW i, i \in Nat
  PROVE  /\ Longer(sp, i) \in Seq(Stretch) /\ Len(Longer(sp, i)) = Len(sp)
         /\ \A s \in 1..Len(sp) : Longer(sp, i)[s].first = sp[s].first
         /\ \A s \in 1..Len(sp) : Longer(sp, i)[s].last = IF s = Len(sp) THEN i ELSE sp[s].last
<1>2. DOMAIN sp = 1..Len(sp) /\ Len(sp) \in Nat
  OBVIOUS
<1>3. Longer(sp, i) = [s \in 1..Len(sp) |-> IF s = Len(sp) THEN [sp[s] EXCEPT !.last = i] ELSE sp[s]]
  BY <1>2 DEF Longer
<1>4. ASSUME NEW s, s \in 1..Len(sp)
      PROVE  /\ Longer(sp, i)[s] \in Stretch /\ Longer(sp, i)[s].first = sp[s].first
             /\ Longer(sp, i)[s].last = IF s = Len(sp) THEN i ELSE sp[s].last
  <2>1. PICK e : e = sp[s]
    OBVIOUS
  <2>2. e \in Stretch
    BY <1>4, <2>1, ElementOfSeq
  <2>3. [e EXCEPT !.last = i] \in Stretch /\ [e EXCEPT !.last = i].first = e.first
        /\ [e EXCEPT !.last = i].last = i
    BY <2>2, LongerStretch
  <2>4. Longer(sp, i)[s] = IF s = Len(sp) THEN [e EXCEPT !.last = i] ELSE e
    BY ONLY <1>3, <1>4, <2>1
  <2> QED BY ONLY <2>1, <2>2, <2>3, <2>4
<1>6. Longer(sp, i) \in Seq(Stretch) /\ Len(Longer(sp, i)) = Len(sp)
  <2>1. PICK t : t = Longer(sp, i)
    OBVIOUS
  <2>2. \A s \in 1..Len(sp) : t[s] \in Stretch
    BY <1>4, <2>1
  <2>3. t = [s \in 1..Len(sp) |-> t[s]]
    BY <1>3, <2>1
  <2>4. t \in [1..Len(sp) -> Stretch]
    BY ONLY <2>2, <2>3
  <2> QED BY <1>2, <2>1, <2>4
<1> QED BY <1>4, <1>6

\* The step leaves a sequence of stretches.
LEMMA StretchStepType ==
  ASSUME NEW sp, sp \in Seq(Stretch), NEW values, NEW i \in Nat
  PROVE  StretchStep(sp, values, i) \in Seq(Stretch)
<1>1. [first |-> i, last |-> i] \in Stretch
  BY DEF Stretch
<1>2. Append(sp, [first |-> i, last |-> i]) \in Seq(Stretch)
  BY <1>1, AppendProperties
<1> QED BY <1>2, LongerIs DEF StretchStep

\* The recursion of Stretches has a solution, and Stretches is its end.
LEMMA StretchesAre ==
  ASSUME NEW values, Len(values) \in Nat
  PROVE  \E f \in [0..Len(values) -> Seq(Stretch)] :
           /\ f[0] = <<>>
           /\ \A i \in 1..Len(values) : f[i] = StretchStep(f[i - 1], values, i)
           /\ Stretches(values) = f[Len(values)]
<1>1. PICK n : n = Len(values) /\ n \in Nat
  OBVIOUS
<1> DEFINE V == Seq(Stretch)
           G == [i \in 1..n |-> [v \in V |-> StretchStep(v, values, i)]]
<1>2. PICK f \in [0..n -> V] : f[0] = <<>> /\ \A i \in 1..n : f[i] = G[i][f[i - 1]]
  <2>1. G \in [1..n -> [V -> V]]
    BY <1>1, StretchStepType
  <2>2. PICK W, c, m, H : W = V /\ c = <<>> /\ m = n /\ H = G
    OBVIOUS
  <2>3. c \in W /\ m \in Nat /\ H \in [1..m -> [W -> W]]
    BY <1>1, <2>1, <2>2
  <2> HIDE DEF V, G
  <2>4. \E f \in [0..m -> W] : f[0] = c /\ \A i \in 1..m : f[i] = H[i][f[i - 1]]
    BY ONLY <2>3, Recursion
  <2> QED BY <2>2, <2>4
<1> DEFINE Body(g) == [i \in 0..n |->
             IF i = 0 THEN <<>>
             ELSE IF i > 1 /\ values[i] = values[i - 1]
                  THEN [g[i - 1] EXCEPT ![Len(g[i - 1])].last = i]
                  ELSE Append(g[i - 1], [first |-> i, last |-> i])]
           h == CHOOSE g : g = Body(g)
<1>3. \A i \in 1..n : i - 1 \in 0..n /\ i \in 0..n /\ f[i - 1] \in V
  BY <1>1
<1>4. \A i \in 1..n : f[i] = StretchStep(f[i - 1], values, i)
  BY <1>2, <1>3
<1>5. ASSUME NEW g, NEW i \in 1..n
      PROVE  Body(g)[i] = StretchStep(g[i - 1], values, i)
  BY <1>1 DEF StretchStep, Longer
<1>6. \A g : Body(g)[0] = <<>>
  BY <1>1
<1>7. 0..n = {0} \cup (1..n)
  BY <1>1
<1>8. f = Body(f)
  <2>1. \A i \in 0..n : f[i] = Body(f)[i]
    <3> HIDE DEF Body
    <3> QED BY <1>2, <1>4, <1>5, <1>6, <1>7
  <2> QED BY <2>1
<1>9. h = Body(h)
  <2> HIDE DEF Body
  <2> QED BY <1>8
<1>10. Stretches(values) = h[n]
  BY <1>1 DEF Stretches
<1>11. \A i \in 0..n : f[i] = h[i]
  <2>1. f[0] = h[0]
    <3> HIDE DEF Body, h
    <3> QED BY <1>2, <1>6, <1>9
  <2>2. ASSUME NEW i \in 1..n, f[i - 1] = h[i - 1] PROVE f[i] = h[i]
    <3>1. h[i] = StretchStep(h[i - 1], values, i)
      <4>1. Body(h)[i] = StretchStep(h[i - 1], values, i)
        <5> HIDE DEF Body, h
        <5> QED BY <1>5
      <4> HIDE DEF Body, h
      <4> QED BY ONLY <4>1, <1>9
    <3> HIDE DEF Body, h
    <3> QED BY <1>4, <2>2, <3>1
  <2> HIDE DEF h
  <2>3. PICK hh : hh = h
    OBVIOUS
  <2>4. PICK ff : ff = f
    OBVIOUS
  <2>5. ff[0] = hh[0] /\ \A i \in 1..n : ff[i - 1] = hh[i - 1] => ff[i] = hh[i]
    BY <2>1, <2>2, <2>3, <2>4
  <2>6. \A i \in 0..n : ff[i] = hh[i]
    <3>1. n \in Nat
      BY <1>1
    <3> HIDE DEF V, G, Body
    <3> QED BY ONLY <2>5, <3>1, RecursionsAgreeFromZero
  <2> QED BY <2>3, <2>4, <2>6
<1>12. Stretches(values) = f[n]
  <2>1. n \in 0..n
    BY <1>1
  <2> HIDE DEF h
  <2> QED BY <1>10, <1>11, <2>1
<1> QED BY <1>1, <1>2, <1>4, <1>12

\* The stretches follow one another from 1 to n, ...
Cover(sp, n) ==
  /\ sp \in Seq(Stretch)
  /\ \A s \in 1..Len(sp) : /\ sp[s].first = IF s = 1 THEN 1 ELSE sp[s - 1].last + 1
                           /\ sp[s].first <= sp[s].last /\ sp[s].last <= n
  /\ Len(sp) = 0 => n = 0
  /\ Len(sp) > 0 => sp[Len(sp)].last = n

\* In each stretch the values are the same, and they change between two.
Uniform(sp, values) ==
  /\ \A s \in 1..Len(sp) : \A i \in sp[s].first..sp[s].last : values[i] = values[sp[s].first]
  /\ \A s \in 1..Len(sp) - 1 : values[sp[s].last] # values[sp[s + 1].first]

\* The fields of a stretch.
LEMMA StretchIs ==
  ASSUME NEW sp, sp \in Seq(Stretch)
  PROVE  \A s \in 1..Len(sp) : sp[s].first \in Nat /\ sp[s].last \in Nat
<1> SUFFICES ASSUME NEW s, s \in 1..Len(sp) PROVE sp[s].first \in Nat /\ sp[s].last \in Nat
  OBVIOUS
<1>1. PICK e : e = sp[s]
  OBVIOUS
<1>2. e \in Stretch
  BY <1>1, ElementOfSeq
<1> QED BY ONLY <1>1, <1>2 DEF Stretch

\* One place on, they do.
LEMMA CoverNext ==
  ASSUME NEW sp, NEW values, NEW i, i \in Nat, i # 0, Cover(sp, i - 1), Uniform(sp, values)
  PROVE  Cover(StretchStep(sp, values, i), i) /\ Uniform(StretchStep(sp, values, i), values)
<1>1. PICK n : n = Len(sp) /\ n \in Nat
  BY DEF Cover
<1>2. PICK t : t = StretchStep(sp, values, i)
  OBVIOUS
<1>3. sp \in Seq(Stretch) /\ t \in Seq(Stretch)
  BY <1>2, StretchStepType DEF Cover
<1>4. /\ \A s \in 1..n : /\ sp[s].first = IF s = 1 THEN 1 ELSE sp[s - 1].last + 1
                         /\ sp[s].first <= sp[s].last /\ sp[s].last <= i - 1
      /\ n = 0 => i - 1 = 0
      /\ n > 0 => sp[n].last = i - 1
  BY <1>1 DEF Cover
<1>5. \A s \in 1..n : sp[s].first \in Nat /\ sp[s].last \in Nat
  BY <1>1, <1>3, StretchIs
<1>6. /\ \A s \in 1..n : \A j \in sp[s].first..sp[s].last : values[j] = values[sp[s].first]
      /\ \A s \in 1..n - 1 : values[sp[s].last] # values[sp[s + 1].first]
  BY <1>1 DEF Uniform
<1>7. CASE i > 1 /\ values[i] = values[i - 1]
  <2>0. n > 0 /\ n \in 1..n
    BY <1>1, <1>4, <1>7
  <2>1. /\ Len(t) = n
        /\ \A s \in 1..n : t[s].first = sp[s].first
        /\ \A s \in 1..n : t[s].last = IF s = n THEN i ELSE sp[s].last
    <3>1. t = Longer(sp, i)
      BY <1>2, <1>7 DEF StretchStep
    <3> QED BY <1>1, <1>3, <3>1, LongerIs
  <2>2. ASSUME NEW s \in 1..n
        PROVE  /\ t[s].first = IF s = 1 THEN 1 ELSE t[s - 1].last + 1
               /\ t[s].first <= t[s].last /\ t[s].last <= i
    <3>1. CASE s = 1
      BY <1>4, <1>5, <2>0, <2>1, <3>1
    <3>2. CASE s # 1
      <4>1. s - 1 \in 1..n /\ s - 1 # n
        BY <1>1, <3>2
      <4>2. t[s - 1].last = sp[s - 1].last
        BY <2>1, <4>1
      <4>3. t[s].first = t[s - 1].last + 1
        BY <1>4, <2>1, <3>2, <4>2
      <4>4. t[s].first <= t[s].last
        BY <1>4, <1>5, <2>0, <2>1, <4>3
      <4>5. t[s].last <= i
        BY <1>4, <1>5, <2>0, <2>1
      <4> QED BY ONLY <3>2, <4>3, <4>4, <4>5
    <3> QED BY <3>1, <3>2
  <2>3. t[n].last = i
    BY <2>0, <2>1
  <2>4. Cover(t, i)
    BY <1>3, <2>0, <2>1, <2>2, <2>3 DEF Cover
  <2>5. ASSUME NEW s \in 1..n, NEW j \in t[s].first..t[s].last PROVE values[j] = values[t[s].first]
    <3>1. CASE s # n
      BY <1>6, <2>1, <3>1
    <3>2. CASE s = n
      <4>1. j \in sp[n].first..i /\ sp[n].last = i - 1 /\ sp[n].first \in Nat
        BY <1>4, <1>5, <2>0, <2>1, <3>2
      <4>2. CASE j = i
        <5>1. i - 1 \in sp[n].first..sp[n].last
          BY <1>4, <1>5, <2>0, <4>1
        <5>2. values[i - 1] = values[sp[n].first]
          BY <1>6, <2>0, <5>1
        <5> QED BY <1>7, <2>1, <3>2, <4>2, <5>2
      <4>3. CASE j # i
        <5>1. j \in sp[n].first..sp[n].last
          BY <4>1, <4>3
        <5> QED BY <1>6, <2>1, <3>2, <5>1
      <4> QED BY <4>2, <4>3
    <3> QED BY <3>1, <3>2
  <2>6. \A s \in 1..n - 1 : values[t[s].last] # values[t[s + 1].first]
    <3> SUFFICES ASSUME NEW s \in 1..n - 1 PROVE values[t[s].last] # values[t[s + 1].first]
      OBVIOUS
    <3>1. s \in 1..n /\ s + 1 \in 1..n /\ s # n
      BY <1>1
    <3> QED BY <1>6, <2>1, <3>1
  <2> QED BY <1>2, <2>1, <2>4, <2>5, <2>6 DEF Uniform
<1>8. CASE ~(i > 1 /\ values[i] = values[i - 1])
  <2> DEFINE new == [first |-> i, last |-> i]
  <2>0. new \in Stretch /\ new.first = i /\ new.last = i
    BY DEF Stretch
  <2> HIDE DEF new
  <2>1. /\ Len(t) = n + 1 /\ t[n + 1] = new
        /\ \A s \in 1..n : t[s] = sp[s]
    <3>1. t = Append(sp, new)
      BY <1>2, <1>8 DEF StretchStep, new
    <3> QED BY <1>1, <1>3, <2>0, <3>1, AppendIs
  <2>2. ASSUME NEW s \in 1..n + 1
        PROVE  /\ t[s].first = IF s = 1 THEN 1 ELSE t[s - 1].last + 1
               /\ t[s].first <= t[s].last /\ t[s].last <= i
    <3>1. CASE s = n + 1
      <4>1. CASE n = 0
        BY <1>4, <2>0, <2>1, <3>1, <4>1
      <4>2. CASE n # 0
        <5>1. n \in 1..n /\ s - 1 = n /\ s # 1
          BY <1>1, <3>1, <4>2
        <5>2. t[s - 1].last = i - 1
          BY <1>1, <1>4, <2>1, <4>2, <5>1
        <5> QED BY <2>0, <2>1, <3>1, <5>1, <5>2
      <4> QED BY <4>1, <4>2
    <3>2. CASE s # n + 1
      <4>1. s \in 1..n /\ (s # 1 => s - 1 \in 1..n)
        BY <1>1, <3>2
      <4>2. s # 1 => t[s - 1] = sp[s - 1]
        BY <2>1, <4>1
      <4> QED BY <1>4, <1>5, <2>1, <4>1, <4>2
    <3> QED BY <3>1, <3>2
  <2>3. t[n + 1].last = i
    BY <2>0, <2>1
  <2>4. Cover(t, i)
    <3>1. n + 1 # 0 /\ n + 1 > 0
      BY <1>1
    <3> QED BY ONLY <1>3, <2>1, <2>2, <2>3, <3>1 DEF Cover
  <2>5. ASSUME NEW s \in 1..n + 1, NEW j \in t[s].first..t[s].last
        PROVE  values[j] = values[t[s].first]
    <3>1. CASE s = n + 1
      <4>1. j = i
        BY <2>0, <2>1, <3>1
      <4> QED BY <2>0, <2>1, <3>1, <4>1
    <3>2. CASE s \in 1..n
      BY <1>6, <2>1, <3>2
    <3> QED BY <1>1, <3>1, <3>2
  <2>6. ASSUME NEW s \in 1..n PROVE values[t[s].last] # values[t[s + 1].first]
    <3>1. CASE s = n
      <4>1. t[s].last = i - 1 /\ t[s + 1].first = i /\ i > 1
        BY <1>1, <1>4, <1>5, <2>0, <2>1, <3>1
      <4> QED BY <1>8, <4>1
    <3>2. CASE s # n
      <4>1. s \in 1..n - 1 /\ s + 1 \in 1..n
        BY <1>1, <3>2
      <4> QED BY <1>6, <2>1, <4>1
    <3> QED BY <3>1, <3>2
  <2>7. n + 1 - 1 = n
    BY <1>1
  <2>8. Uniform(t, values)
    <3>1. Len(t) = n + 1
      BY <2>1
    <3>2. Len(t) - 1 = n
      BY ONLY <1>1, <3>1
    <3> QED BY ONLY <2>5, <2>6, <3>1, <3>2 DEF Uniform
  <2> QED BY ONLY <1>2, <2>4, <2>8
<1> QED BY <1>7, <1>8

\* What Stretches returns.
LEMMA StretchesCover ==
  ASSUME NEW values, Len(values) \in Nat
  PROVE  Cover(Stretches(values), Len(values)) /\ Uniform(Stretches(values), values)
<1>1. PICK n : n = Len(values) /\ n \in Nat
  OBVIOUS
<1>2. PICK f : /\ f \in [0..n -> Seq(Stretch)] /\ f[0] = <<>>
               /\ \A i \in 1..n : f[i] = StretchStep(f[i - 1], values, i)
               /\ Stretches(values) = f[n]
  BY <1>1, StretchesAre
<1> DEFINE T == {i \in Nat : i <= n => Cover(f[i], i) /\ Uniform(f[i], values)}
<1>3. 0 \in T
  <2>1. Cover(<<>>, 0)
    BY DEF Cover
  <2>2. Uniform(<<>>, values)
    BY DEF Uniform
  <2> QED BY <1>2, <2>1, <2>2
<1>4. ASSUME NEW i \in Nat, i \in T PROVE i + 1 \in T
  <2> SUFFICES ASSUME i + 1 <= n PROVE Cover(f[i + 1], i + 1) /\ Uniform(f[i + 1], values)
    OBVIOUS
  <2>1. PICK j : j = i + 1
    OBVIOUS
  <2>2. j \in 1..n /\ j \in Nat /\ j # 0 /\ j - 1 = i /\ i <= n
    BY <1>1, <2>1
  <2>3. Cover(f[j - 1], j - 1) /\ Uniform(f[j - 1], values)
    BY <1>4, <2>2
  <2>4. PICK sp : sp = f[j - 1]
    OBVIOUS
  <2>5. Cover(sp, j - 1) /\ Uniform(sp, values)
    BY ONLY <2>3, <2>4
  <2>6. Cover(StretchStep(sp, values, j), j) /\ Uniform(StretchStep(sp, values, j), values)
    BY <2>2, <2>5, CoverNext
  <2>7. f[j] = StretchStep(sp, values, j)
    BY <1>2, <2>2, <2>4
  <2> QED BY ONLY <2>1, <2>6, <2>7
<1>5. \A i \in Nat : i \in T
  <2> HIDE DEF T
  <2> QED BY <1>3, <1>4, Induction
<1>6. n <= n
  BY <1>1
<1> QED BY <1>1, <1>2, <1>5, <1>6
-----------------------------------------------------------------------------
(* Letters *)

\* The least of a set of numbers.
LEMMA MinIs ==
  ASSUME NEW T, T \subseteq Nat, T # {}
  PROVE  Min(T) \in T /\ \A x \in T : Min(T) <= x
BY LeastNumber DEF Min

\* What is least is the least.
LEMMA MinOf ==
  ASSUME NEW T, T \subseteq Nat, NEW x, x \in T, \A y \in T : x <= y
  PROVE  Min(T) = x
<1>1. Min(T) \in T /\ \A y \in T : Min(T) <= y
  BY MinIs
<1>2. x \in Nat /\ Min(T) \in Nat /\ x <= Min(T) /\ Min(T) <= x
  BY <1>1
<1> QED BY ONLY <1>2

\* The elements at some places, one after the other.
Gathered(e, C, n) == FlattenSeq([k \in 1..n |-> IF k \in C THEN <<e[k]>> ELSE <<>>])

\* All of them and no others.
GatheredWell(S, e, C, n) ==
  /\ Gathered(e, C, n) \in Seq(S)
  /\ \A i \in 1..Len(Gathered(e, C, n)) :
       \E k \in 1..n : k \in C /\ Gathered(e, C, n)[i] = e[k]
  /\ \A k \in 1..n : k \in C =>
       \E i \in 1..Len(Gathered(e, C, n)) : Gathered(e, C, n)[i] = e[k]

\* So Gathered gathers them.
LEMMA GatheredIs ==
  ASSUME NEW S, NEW n, n \in Nat, NEW e, NEW C, \A k \in 1..n : e[k] \in S
  PROVE  GatheredWell(S, e, C, n)
<1> DEFINE ss == [k \in 1..n |-> IF k \in C THEN <<e[k]>> ELSE <<>>]
<1>1. ss \in Seq(Seq(S)) /\ Len(ss) = n
  <2>1. \A k \in 1..n : <<e[k]>> \in Seq(S) /\ <<>> \in Seq(S)
    OBVIOUS
  <2>2. \A k \in 1..n : ss[k] \in Seq(S)
    BY <2>1
  <2> QED BY <2>2
<1>2. ASSUME NEW k, k \in 1..n
      PROVE  /\ k \in C => ss[k] = <<e[k]>>
             /\ k \notin C => ss[k] = <<>>
  BY <1>2
<1> HIDE DEF ss
<1>3. FlattenSeq(ss) \in Seq(S) /\ Gathered(e, C, n) = FlattenSeq(ss)
  BY <1>1, FlattenType DEF Gathered, ss
<1>4. ASSUME NEW i, i \in 1..Len(FlattenSeq(ss))
      PROVE  \E k \in 1..n : k \in C /\ FlattenSeq(ss)[i] = e[k]
  <2>1. PICK r \in 1..Len(ss) : \E k \in 1..Len(ss[r]) : FlattenSeq(ss)[i] = ss[r][k]
    BY <1>1, <1>4, FlattenFrom
  <2>2. PICK k \in 1..Len(ss[r]) : FlattenSeq(ss)[i] = ss[r][k]
    BY <2>1
  <2>3. r \in 1..n
    BY <1>1, <2>1
  <2>4. PICK s : s = ss[r]
    OBVIOUS
  <2>5. r \in C
    <3>1. SUFFICES ASSUME r \notin C PROVE FALSE
      OBVIOUS
    <3>2. s = <<>>
      BY ONLY <1>2, <2>3, <2>4, <3>1
    <3>3. Len(s) = 0
      BY ONLY <3>2
    <3> QED BY <2>2, <2>4, <3>3
  <2>6. s = <<e[r]>>
    BY ONLY <1>2, <2>3, <2>4, <2>5
  <2>7. Len(s) = 1 /\ s[1] = e[r]
    BY ONLY <2>6
  <2>8. k = 1
    BY <2>2, <2>4, <2>7
  <2> QED BY ONLY <2>2, <2>3, <2>4, <2>5, <2>7, <2>8
<1>5. ASSUME NEW k, k \in 1..n, k \in C
      PROVE  \E i \in 1..Len(FlattenSeq(ss)) : FlattenSeq(ss)[i] = e[k]
  <2>1. PICK s : s = ss[k]
    OBVIOUS
  <2>2. s = <<e[k]>>
    BY ONLY <1>2, <1>5, <2>1
  <2>3. Len(s) = 1 /\ s[1] = e[k] /\ 1 \in 1..Len(s)
    BY ONLY <2>2
  <2>4. k \in 1..Len(ss)
    BY <1>1, <1>5
  <2>5. \A r \in 1..Len(ss) : \A j \in 1..Len(ss[r]) :
          /\ EndOf(ss, r - 1) + j \in 1..Len(FlattenSeq(ss))
          /\ FlattenSeq(ss)[EndOf(ss, r - 1) + j] = ss[r][j]
    BY <1>1, FlattenAt
  <2> QED BY ONLY <2>1, <2>3, <2>4, <2>5
<1> QED BY ONLY <1>3, <1>4, <1>5 DEF GatheredWell

\* A form, and what it stands for.
LEMMA BaseIs ==
  ASSUME NEW cp, cp \in Forms
  PROVE  \E e \in DOMAIN FormEntries :
           FormEntries[e].cp = cp /\ Base(cp) = FormEntries[e].base
<1>1. \E e \in DOMAIN FormEntries : FormEntries[e].cp = cp
  BY DEF Forms
<1> QED BY <1>1 DEF Base

\* The letters of the text: those of captions and of the table, and the space.
Cps == Letters \cup {"space"}

\* An entry of the table.
LEMMA EntryIs ==
  ASSUME NEW e, e \in DOMAIN FormEntries
  PROVE  /\ FormEntries[e].cp \in Letters /\ FormEntries[e].cp \in Forms
         /\ FormEntries[e].base \in Seq(Letters)
         /\ \A k \in 1..Len(FormEntries[e].base) :
              /\ FormEntries[e].base[k] \in Letters \ Forms
              /\ FormEntries[e].base[k] \notin Latin \cup Digits
         /\ \E k \in 1..Len(FormEntries[e].base) : FormEntries[e].base[k] # Tatweel
<1> DEFINE E == [cp: Letters, base: Seq(Letters \ Forms)]
<1>1. FormEntries \in Seq(E) /\ FormEntries[e].cp \in Forms
  BY ShapingAssumption DEF Forms
<1>2. FormEntries[e] \in E
  <2> HIDE DEF E
  <2>1. e \in 1..Len(FormEntries)
    BY <1>1
  <2> QED BY ONLY <1>1, <2>1, ElementOfSeq
<1>3. FormEntries[e].cp \in Letters /\ FormEntries[e].base \in Seq(Letters \ Forms)
  BY <1>2
<1>4. PICK b : b = FormEntries[e].base
  OBVIOUS
<1>5. b \in Seq(Letters \ Forms) /\ ToSet(b) \cap (Latin \cup Digits) = {}
      /\ ToSet(b) \ {Tatweel} # {}
  BY <1>3, <1>4, ShapingAssumption
<1>6. \A k \in 1..Len(b) : b[k] \in Letters \ Forms /\ b[k] \in ToSet(b)
  BY <1>5 DEF ToSet
<1>7. \E k \in 1..Len(b) : b[k] # Tatweel
  BY <1>5 DEF ToSet
<1>8. b \in Seq(Letters)
  BY <1>5
<1> QED BY <1>1, <1>3, <1>4, <1>5, <1>6, <1>7, <1>8

\* What a form stands for.
LEMMA FormIs ==
  ASSUME NEW cp, cp \in Forms
  PROVE  /\ cp \in Letters /\ cp # "space" /\ cp \notin Latin \cup Digits
         /\ Base(cp) \in Seq(Letters) /\ Len(Base(cp)) \in Nat
         /\ \A k \in 1..Len(Base(cp)) :
              Base(cp)[k] \in Letters \ Forms /\ Base(cp)[k] \notin Latin \cup Digits
         /\ \E k \in 1..Len(Base(cp)) : Base(cp)[k] # Tatweel
<1>1. PICK e \in DOMAIN FormEntries : FormEntries[e].cp = cp /\ Base(cp) = FormEntries[e].base
  BY BaseIs
<1>2. PICK b : b = FormEntries[e].base
  OBVIOUS
<1>3. /\ FormEntries[e].cp \in Letters /\ b \in Seq(Letters)
      /\ \A k \in 1..Len(b) : b[k] \in Letters \ Forms /\ b[k] \notin Latin \cup Digits
      /\ \E k \in 1..Len(b) : b[k] # Tatweel
  BY <1>2, EntryIs
<1>4. cp # "space" /\ cp \notin Latin \cup Digits
  BY <1>1, <1>3, ShapingAssumption
<1>5. Len(b) \in Nat
  BY <1>3
<1> QED BY ONLY <1>1, <1>2, <1>3, <1>4, <1>5

\* A base without its tatweels.
LEMMA WithoutIs ==
  ASSUME NEW S, NEW b, b \in Seq(S)
  PROVE  /\ WithoutTatweel(b) \in Seq(S)
         /\ \A i \in 1..Len(WithoutTatweel(b)) :
              \E k \in 1..Len(b) : b[k] # Tatweel /\ WithoutTatweel(b)[i] = b[k]
         /\ \A k \in 1..Len(b) : b[k] # Tatweel =>
              \E i \in 1..Len(WithoutTatweel(b)) : WithoutTatweel(b)[i] = b[k]
<1> DEFINE C == {k \in 1..Len(b) : b[k] # Tatweel}
<1>1. PICK n : n = Len(b) /\ n \in Nat /\ DOMAIN b = 1..n
  OBVIOUS
<1>2. WithoutTatweel(b) = Gathered(b, C, n)
  <2>1. \A k \in 1..n : (IF b[k] = Tatweel THEN <<>> ELSE <<b[k]>>)
                          = IF k \in C THEN <<b[k]>> ELSE <<>>
    BY <1>1
  <2> HIDE DEF C
  <2>2. [k \in DOMAIN b |-> IF b[k] = Tatweel THEN <<>> ELSE <<b[k]>>]
          = [k \in 1..n |-> IF k \in C THEN <<b[k]>> ELSE <<>>]
    BY ONLY <1>1, <2>1
  <2> QED BY <2>2 DEF Gathered, WithoutTatweel
<1>3. \A k \in 1..n : b[k] \in S
  BY <1>1
<1>4. /\ Gathered(b, C, n) \in Seq(S)
      /\ \A i \in 1..Len(Gathered(b, C, n)) : \E k \in 1..n : k \in C /\ Gathered(b, C, n)[i] = b[k]
      /\ \A k \in 1..n : k \in C =>
           \E i \in 1..Len(Gathered(b, C, n)) : Gathered(b, C, n)[i] = b[k]
  <2> HIDE DEF C
  <2>1. n \in Nat
    BY <1>1
  <2>2. PICK e, D : e = b /\ D = C
    OBVIOUS
  <2>3. \A k \in 1..n : e[k] \in S
    BY ONLY <1>3, <2>2
  <2>4. GatheredWell(S, e, D, n)
    BY ONLY <2>1, <2>3, GatheredIs
  <2> QED BY ONLY <2>2, <2>4 DEF GatheredWell
<1>5. \A k \in 1..n : k \in C <=> b[k] # Tatweel
  BY <1>1
<1> HIDE DEF C
<1> QED BY ONLY <1>1, <1>2, <1>4, <1>5
-----------------------------------------------------------------------------
(* Normalization *)

\* Fonts have letters.
LEMMA FontsUsable ==
  ASSUME NEW fonts, fonts \in Fonts
  PROVE  fonts.primary \subseteq Letters /\ fonts.fallback \subseteq Letters
BY ShapingAssumption

\* What a letter may be replaced by.
ReplacedBy(cp, face, w) ==
  \/ w = <<cp>> /\ (HasGlyph(face, cp) \/ cp \notin Forms)
  \/ /\ cp \in Forms /\ ~HasGlyph(face, cp) /\ Len(Base(cp)) > 1
     /\ \/ w = Base(cp) /\ HasGlyph(face, Tatweel)
        \/ w = WithoutTatweel(Base(cp)) /\ ~HasGlyph(face, Tatweel)
  \/ /\ cp \in Forms /\ ~HasGlyph(face, cp) /\ Len(Base(cp)) = 1
     /\ \/ w = Base(cp) /\ HasGlyph(face, Base(cp)[1])
        \/ /\ ~HasGlyph(face, Base(cp)[1])
           /\ \E e \in Siblings(cp, Base(cp), face) : w = <<FormEntries[e].cp>>
        \/ /\ ~HasGlyph(face, Base(cp)[1]) /\ Siblings(cp, Base(cp), face) = {}
           /\ w = <<cp>>

\* One letter is not nothing.
LEMMA OneIsNotEmpty ==
  ASSUME NEW x
  PROVE  <<x>> # <<>> /\ Len(<<x>>) = 1 /\ <<x>>[1] = x /\ (\A S : x \in S => <<x>> \in Seq(S))
OBVIOUS

\* A sequence with an element is not empty.
LEMMA HasElement ==
  ASSUME NEW S, NEW s, s \in Seq(S), NEW i, i \in 1..Len(s)
  PROVE  s # <<>> /\ Len(s) \in Nat /\ Len(s) > 0
OBVIOUS

\* NormalizeForFace, case by case.
LEMMA NormalizedIs ==
  ASSUME NEW cp, NEW face, face \subseteq Letters
  PROVE  ReplacedBy(cp, face, NormalizeForFace(cp, face))
<1>1. CASE HasGlyph(face, cp) \/ cp \notin Forms
  <2>1. NormalizeForFace(cp, face) = <<cp>>
    BY ONLY <1>1 DEF NormalizeForFace
  <2> QED BY ONLY <1>1, <2>1 DEF ReplacedBy
<1>2. CASE ~HasGlyph(face, cp) /\ cp \in Forms
  <2>1. PICK b : b = Base(cp)
    OBVIOUS
  <2>2. /\ b \in Seq(Letters) /\ Len(b) \in Nat
        /\ \A k \in 1..Len(b) : b[k] \in Letters \ Forms
        /\ \E k \in 1..Len(b) : b[k] # Tatweel
    BY <1>2, <2>1, FormIs
  <2>3. NormalizeForFace(cp, face) = KeptIfNone(cp, Resolve(b, Siblings(cp, b, face), face))
    BY ONLY <1>2, <2>1 DEF NormalizeForFace
  <2>4. b # <<>>
    BY ONLY <2>2, HasElement
  <2>5. CASE Len(b) > 1
    <3>1. CASE HasGlyph(face, Tatweel)
      <4>1. NormalizeForFace(cp, face) = b
        BY ONLY <2>3, <2>4, <2>5, <3>1 DEF KeptIfNone, Resolve
      <4> QED BY ONLY <1>2, <2>1, <2>5, <3>1, <4>1 DEF ReplacedBy
    <3>2. CASE ~HasGlyph(face, Tatweel)
      <4>1. WithoutTatweel(b) # <<>>
        <5>1. PICK w : w = WithoutTatweel(b)
          OBVIOUS
        <5>2. w \in Seq(Letters) /\ \E i \in 1..Len(w) : TRUE
          BY <2>2, <5>1, WithoutIs
        <5> QED BY ONLY <5>1, <5>2, HasElement
      <4>2. NormalizeForFace(cp, face) = WithoutTatweel(b)
        BY ONLY <2>3, <2>5, <3>2, <4>1 DEF KeptIfNone, Resolve
      <4> QED BY ONLY <1>2, <2>1, <2>5, <3>2, <4>2 DEF ReplacedBy
    <3> QED BY <3>1, <3>2
  <2>6. CASE ~(Len(b) > 1)
    <3>1. Len(b) = 1
      <4>1. Len(b) \in Nat /\ Len(b) > 0
        BY ONLY <2>2, HasElement
      <4>2. \A n \in Nat : n > 0 /\ ~(n > 1) => n = 1
        OBVIOUS
      <4> QED BY ONLY <2>6, <4>1, <4>2
    <3>2. CASE HasGlyph(face, b[1])
      <4>1. NormalizeForFace(cp, face) = b
        BY ONLY <2>3, <2>4, <2>6, <3>2 DEF KeptIfNone, Resolve
      <4> QED BY ONLY <1>2, <2>1, <3>1, <3>2, <4>1 DEF ReplacedBy
    <3>3. CASE ~HasGlyph(face, b[1]) /\ Siblings(cp, b, face) # {}
      <4>1. PICK q : q = Siblings(cp, b, face)
        OBVIOUS
      <4>2. Min(q) \in q
        <5>1. q \subseteq Nat /\ q # {}
          <6>1. DOMAIN FormEntries \subseteq Nat
            BY ShapingAssumption
          <6> QED BY <3>3, <4>1, <6>1 DEF Siblings
        <5> QED BY ONLY <5>1, MinIs
      <4>3. NormalizeForFace(cp, face) = <<FormEntries[Min(q)].cp>>
        <5>1. <<FormEntries[Min(q)].cp>> # <<>>
          BY OneIsNotEmpty
        <5> QED BY ONLY <2>3, <2>6, <3>3, <4>1, <5>1 DEF KeptIfNone, Resolve
      <4> QED BY ONLY <1>2, <2>1, <3>1, <3>3, <4>1, <4>2, <4>3 DEF ReplacedBy
    <3>4. CASE ~HasGlyph(face, b[1]) /\ Siblings(cp, b, face) = {}
      <4>1. NormalizeForFace(cp, face) = <<cp>>
        BY ONLY <2>3, <2>6, <3>4 DEF KeptIfNone, Resolve
      <4> QED BY ONLY <1>2, <2>1, <3>1, <3>4, <4>1 DEF ReplacedBy
    <3> QED BY <3>2, <3>3, <3>4
  <2> QED BY <2>5, <2>6
<1> QED BY <1>1, <1>2

\* The ways to write a letter.
LEMMA SpellingIs ==
  ASSUME NEW cp, NEW w, w \in Spellings(cp)
  PROVE  \/ w = <<cp>>
         \/ /\ cp \in Forms
            /\ \/ w = Base(cp) \/ w = WithoutTatweel(Base(cp))
               \/ \E e \in DOMAIN FormEntries :
                    FormEntries[e].base = Base(cp) /\ w = <<FormEntries[e].cp>>
<1>1. CASE w = <<cp>>
  BY <1>1
<1>2. CASE cp \in Forms /\ w \in FormSpellings(Base(cp))
  <2>1. CASE w \in {<<e.cp>> : e \in {f \in ToSet(FormEntries) : f.base = Base(cp)}}
    <3>1. PICK e \in ToSet(FormEntries) : e.base = Base(cp) /\ w = <<e.cp>>
      BY <2>1
    <3>2. PICK k \in DOMAIN FormEntries : FormEntries[k] = e
      BY <3>1 DEF ToSet
    <3> QED BY <1>2, <3>1, <3>2
  <2>2. w \in {Base(cp), WithoutTatweel(Base(cp))}
          \/ w \in {<<e.cp>> : e \in {f \in ToSet(FormEntries) : f.base = Base(cp)}}
    BY ONLY <1>2 DEF FormSpellings
  <2> QED BY <1>2, <2>1, <2>2
<1> QED BY <1>1, <1>2 DEF Spellings

\* A replacement is one of them.
LEMMA ReplacedInSpelling ==
  ASSUME NEW cp, NEW face, NEW w, ReplacedBy(cp, face, w)
  PROVE  w \in Spellings(cp)
<1>1. CASE w = <<cp>>
  BY <1>1 DEF Spellings
<1>2. CASE cp \in Forms /\ w \in {Base(cp), WithoutTatweel(Base(cp))}
  BY <1>2 DEF Spellings, FormSpellings
<1>3. CASE cp \in Forms /\ \E e \in Siblings(cp, Base(cp), face) : w = <<FormEntries[e].cp>>
  <2>1. PICK e \in DOMAIN FormEntries : FormEntries[e].base = Base(cp) /\ w = <<FormEntries[e].cp>>
    BY <1>3 DEF Siblings
  <2>2. FormEntries[e] \in ToSet(FormEntries)
    BY DEF ToSet
  <2>3. w \in {<<f.cp>> : f \in {g \in ToSet(FormEntries) : g.base = Base(cp)}}
    BY <2>1, <2>2
  <2> QED BY <1>3, <2>3 DEF Spellings, FormSpellings
<1> QED BY <1>1, <1>2, <1>3 DEF ReplacedBy

\* Letters written with one of the two fonts.
LEMMA SpellingType ==
  ASSUME NEW cp, cp \in Cps, NEW w, w \in Spellings(cp)
  PROVE  w \in Seq(Cps) /\ \E k \in 1..Len(w) : TRUE
<1>1. CASE w = <<cp>>
  BY <1>1
<1>2. CASE cp \in Forms /\ w = Base(cp)
  <2>1. w \in Seq(Letters) /\ \E k \in 1..Len(w) : TRUE
    BY <1>2, FormIs
  <2> QED BY <2>1 DEF Cps
<1>3. CASE cp \in Forms /\ w = WithoutTatweel(Base(cp))
  <2>1. Base(cp) \in Seq(Letters) /\ \E k \in 1..Len(Base(cp)) : Base(cp)[k] # Tatweel
    BY <1>3, FormIs
  <2>2. w \in Seq(Letters) /\ \E k \in 1..Len(w) : TRUE
    BY <1>3, <2>1, WithoutIs
  <2> QED BY <2>2 DEF Cps
<1>4. CASE \E e \in DOMAIN FormEntries : w = <<FormEntries[e].cp>>
  <2>1. PICK x : x \in Cps /\ w = <<x>>
    BY <1>4, EntryIs DEF Cps
  <2> QED BY ONLY <2>1, OneIsNotEmpty
<1> QED BY <1>1, <1>2, <1>3, <1>4, SpellingIs

\* Covers, by the numbers of the letters.
LEMMA CoversIs ==
  ASSUME NEW S, NEW w, w \in Seq(S), NEW face
  PROVE  Covers(face, w) <=> \A k \in 1..Len(w) : HasGlyph(face, w[k])
<1>1. DOMAIN w = 1..Len(w)
  OBVIOUS
<1> QED BY ONLY <1>1 DEF Covers

\* A font covers one letter if it has a glyph for it.
LEMMA CoversOne ==
  ASSUME NEW x, NEW face
  PROVE  Covers(face, <<x>>) <=> HasGlyph(face, x)
<1>1. PICK w : w = <<x>>
  OBVIOUS
<1>2. w \in Seq({x}) /\ Len(w) = 1 /\ w[1] = x
  BY <1>1
<1>3. Covers(face, w) <=> \A k \in 1..Len(w) : HasGlyph(face, w[k])
  BY ONLY <1>2, CoversIs
<1>4. (\A k \in 1..1 : HasGlyph(face, w[k])) <=> HasGlyph(face, w[1])
  OBVIOUS
<1> QED BY ONLY <1>1, <1>2, <1>3, <1>4

\* A font covers a base without its tatweels if it has the other letters.
LEMMA CoversWithout ==
  ASSUME NEW S, NEW b, b \in Seq(S), NEW face
  PROVE  Covers(face, WithoutTatweel(b)) <=>
           \A k \in 1..Len(b) : b[k] # Tatweel => HasGlyph(face, b[k])
<1>1. PICK w : w = WithoutTatweel(b)
  OBVIOUS
<1>2. /\ w \in Seq(S)
      /\ \A i \in 1..Len(w) : \E k \in 1..Len(b) : b[k] # Tatweel /\ w[i] = b[k]
      /\ \A k \in 1..Len(b) : b[k] # Tatweel => \E i \in 1..Len(w) : w[i] = b[k]
  BY ONLY <1>1, b \in Seq(S), WithoutIs
<1>3. Covers(face, w) <=> \A k \in 1..Len(w) : HasGlyph(face, w[k])
  BY <1>2, CoversIs
<1> QED BY ONLY <1>1, <1>2, <1>3

\* A font that writes a ligature has its letters.
LEMMA LigatureLetters ==
  ASSUME NEW e, e \in DOMAIN FormEntries, Len(FormEntries[e].base) > 1, NEW w,
         w = <<FormEntries[e].cp>>, NEW face, Writes(face, w)
  PROVE  \A k \in 1..Len(FormEntries[e].base) :
           FormEntries[e].base[k] # Tatweel => HasGlyph(face, FormEntries[e].base[k])
<1>1. PICK cp, b : cp = FormEntries[e].cp /\ b = FormEntries[e].base
  OBVIOUS
<1>2. b \in Seq(Letters) /\ cp \in Forms
  BY <1>1, EntryIs
<1>3. Base(cp) = b
  <2>1. PICK f \in DOMAIN FormEntries : FormEntries[f].cp = cp /\ Base(cp) = FormEntries[f].base
    BY <1>2, BaseIs
  <2>2. e = f
    BY <1>1, <2>1, ShapingAssumption
  <2> QED BY <1>1, <2>1, <2>2
<1>4. DOMAIN w = {1} /\ w[1] = cp
  BY <1>1
<1>5. Covers(face, WithoutTatweel(b))
  <2>1. w[1] \in Forms /\ Len(Base(w[1])) > 1 => Covers(face, WithoutTatweel(Base(w[1])))
    BY <1>4 DEF Writes
  <2>2. w[1] \in Forms /\ Len(Base(w[1])) > 1
    BY <1>1, <1>2, <1>3, <1>4
  <2> QED BY ONLY <1>3, <1>4, <2>1, <2>2
<1>6. Covers(face, WithoutTatweel(b)) <=>
        \A k \in 1..Len(b) : b[k] # Tatweel => HasGlyph(face, b[k])
  BY ONLY <1>2, CoversWithout
<1> QED BY ONLY <1>1, <1>5, <1>6

\* NormalizeForFace finds letters that the font has if there are any.
LEMMA NormalizedBest ==
  ASSUME NEW cp, cp \in Cps, NEW face, face \subseteq Letters,
         NEW w, w \in Spellings(cp), Writes(face, w)
  PROVE  Covers(face, NormalizeForFace(cp, face))
<1>0. Covers(face, w)
  BY DEF Writes
<1>1. PICK v : v = NormalizeForFace(cp, face)
  OBVIOUS
<1>2. ReplacedBy(cp, face, v)
  BY <1>1, NormalizedIs
<1>3. CASE cp \notin Forms
  <2>1. w = <<cp>>
    BY <1>3, SpellingIs
  <2>2. v = <<cp>>
    BY ONLY <1>2, <1>3 DEF ReplacedBy
  <2> QED BY ONLY <1>1, <2>1, <2>2, <1>0
<1>4. CASE cp \in Forms /\ HasGlyph(face, cp)
  <2>1. v = <<cp>>
    BY ONLY <1>2, <1>4 DEF ReplacedBy
  <2> QED BY ONLY <1>1, <1>4, <2>1, CoversOne
<1>5. CASE cp \in Forms /\ ~HasGlyph(face, cp)
  <2> DEFINE b == Base(cp)
  <2>1. /\ b \in Seq(Letters) /\ Len(b) \in Nat
        /\ \A k \in 1..Len(b) : b[k] \in Letters \ Forms
        /\ \E k \in 1..Len(b) : b[k] # Tatweel
    BY <1>5, FormIs
  <2>2. \/ w = b \/ w = WithoutTatweel(b)
        \/ \E e \in DOMAIN FormEntries :
             FormEntries[e].base = b /\ FormEntries[e].cp \in face /\ FormEntries[e].cp # cp
               /\ w = <<FormEntries[e].cp>>
    <3>1. CASE w = <<cp>>
      <4>1. HasGlyph(face, cp)
        BY ONLY <3>1, CoversOne, <1>0
      <4> QED BY <1>5, <4>1
    <3>2. ASSUME NEW e \in DOMAIN FormEntries, FormEntries[e].base = b, w = <<FormEntries[e].cp>>
          PROVE  FormEntries[e].cp \in face /\ FormEntries[e].cp # cp
      <4>1. HasGlyph(face, FormEntries[e].cp)
        BY ONLY <3>2, CoversOne, <1>0
      <4>2. FormEntries[e].cp \in Letters
        BY EntryIs
      <4>3. "space" \notin Letters
        BY ShapingAssumption
      <4> QED BY <1>5, <4>1, <4>2, <4>3 DEF HasGlyph
    <3> QED BY <3>1, <3>2, SpellingIs
  <2>3. CASE Len(b) > 1
    <3>1. \A k \in 1..Len(b) : b[k] # Tatweel => HasGlyph(face, b[k])
      <4>1. CASE w = b
        <5>1. Covers(face, b) <=> \A k \in 1..Len(b) : HasGlyph(face, b[k])
          BY <2>1, CoversIs
        <5> QED BY ONLY <4>1, <5>1, <1>0
      <4>2. CASE w = WithoutTatweel(b)
        <5>1. Covers(face, WithoutTatweel(b)) <=>
                \A k \in 1..Len(b) : b[k] # Tatweel => HasGlyph(face, b[k])
          BY <2>1, CoversWithout
        <5> QED BY ONLY <4>2, <5>1, <1>0
      <4>3. CASE \E e \in DOMAIN FormEntries :
                   FormEntries[e].base = b /\ w = <<FormEntries[e].cp>>
        <5>1. PICK e \in DOMAIN FormEntries : FormEntries[e].base = b /\ w = <<FormEntries[e].cp>>
          BY <4>3
        <5>2. Len(FormEntries[e].base) > 1
          BY ONLY <2>3, <5>1
        <5>3. \A k \in 1..Len(FormEntries[e].base) :
                FormEntries[e].base[k] # Tatweel => HasGlyph(face, FormEntries[e].base[k])
          BY ONLY <5>1, <5>2, Writes(face, w), LigatureLetters
        <5> QED BY ONLY <5>1, <5>3
      <4> QED BY ONLY <2>2, <4>1, <4>2, <4>3
    <3>2. CASE HasGlyph(face, Tatweel)
      <4>1. v = b
        BY ONLY <1>2, <1>5, <2>3, <3>2, ~(1 > 1) DEF ReplacedBy
      <4>2. \A k \in 1..Len(b) : HasGlyph(face, b[k])
        BY ONLY <3>1, <3>2
      <4>3. Covers(face, b) <=> \A k \in 1..Len(b) : HasGlyph(face, b[k])
        BY <2>1, CoversIs
      <4> QED BY ONLY <1>1, <4>1, <4>2, <4>3
    <3>3. CASE ~HasGlyph(face, Tatweel)
      <4>1. v = WithoutTatweel(b)
        BY ONLY <1>2, <1>5, <2>3, <3>3, ~(1 > 1) DEF ReplacedBy
      <4>2. Covers(face, WithoutTatweel(b))
        BY <2>1, <3>1, CoversWithout
      <4> QED BY ONLY <1>1, <4>1, <4>2
    <3> QED BY <3>2, <3>3
  <2>4. CASE ~(Len(b) > 1)
    <3>1. Len(b) = 1
      <4>1. Len(b) \in Nat /\ Len(b) > 0
        BY ONLY <2>1, HasElement
      <4>2. \A n \in Nat : n > 0 /\ ~(n > 1) => n = 1
        OBVIOUS
      <4> QED BY ONLY <2>4, <4>1, <4>2
    <3>2. b[1] # Tatweel /\ 1 \in 1..Len(b)
      BY <2>1, <3>1
    <3>3. Covers(face, b) <=> HasGlyph(face, b[1])
      <4>1. Covers(face, b) <=> \A k \in 1..Len(b) : HasGlyph(face, b[k])
        BY <2>1, CoversIs
      <4>2. \A k \in 1..1 : k = 1
        OBVIOUS
      <4> QED BY ONLY <3>1, <3>2, <4>1, <4>2
    <3>4. CASE HasGlyph(face, b[1])
      <4>1. v = b
        <5>1. ~(1 > 1)
          OBVIOUS
        <5> QED BY ONLY <1>2, <1>5, <3>1, <3>4, <5>1 DEF ReplacedBy
      <4> QED BY ONLY <1>1, <3>3, <3>4, <4>1
    <3>5. CASE ~HasGlyph(face, b[1])
      <4>1. w # b
        BY ONLY <3>3, <3>5, <1>0
      <4>2. w # WithoutTatweel(b)
        <5>1. Covers(face, WithoutTatweel(b)) <=>
                \A k \in 1..Len(b) : b[k] # Tatweel => HasGlyph(face, b[k])
          BY <2>1, CoversWithout
        <5> QED BY ONLY <3>2, <3>5, <5>1, <1>0
      <4>3. Siblings(cp, b, face) # {}
        BY ONLY <2>2, <4>1, <4>2 DEF Siblings
      <4>4. PICK e \in Siblings(cp, b, face) : v = <<FormEntries[e].cp>>
        <5>1. ~(1 > 1)
          OBVIOUS
        <5> QED BY ONLY <1>2, <1>5, <3>1, <3>5, <4>3, <5>1 DEF ReplacedBy
      <4>5. HasGlyph(face, FormEntries[e].cp)
        BY ONLY <4>4 DEF Siblings, HasGlyph
      <4> QED BY ONLY <1>1, <4>4, <4>5, CoversOne
    <3> QED BY <3>4, <3>5
  <2> QED BY <2>3, <2>4
<1> QED BY <1>3, <1>4, <1>5

\* A letter of a replacement that its font lacks: the letter itself, or one of
\* several that it stands for.
LEMMA LackedLetter ==
  ASSUME NEW cp, NEW face, NEW w, ReplacedBy(cp, face, w), NEW k, k \in 1..Len(w),
         ~HasGlyph(face, w[k])
  PROVE  \/ w[k] = cp
         \/ /\ cp \in Forms /\ Len(Base(cp)) > 1 /\ w[k] \in Letters \ Forms /\ w[k] # Tatweel
            /\ \E j \in 1..Len(Base(cp)) : Base(cp)[j] = w[k]
<1>1. CASE w = <<cp>>
  BY <1>1
<1>2. ASSUME cp \in Forms, w = Base(cp), HasGlyph(face, Tatweel), Len(Base(cp)) > 1
      PROVE  /\ w[k] \in Letters \ Forms /\ w[k] # Tatweel
             /\ \E j \in 1..Len(Base(cp)) : Base(cp)[j] = w[k]
  <2>1. \A j \in 1..Len(Base(cp)) : Base(cp)[j] \in Letters \ Forms
    BY <1>2, FormIs
  <2> QED BY <1>2, <2>1
<1>3. ASSUME cp \in Forms, w = WithoutTatweel(Base(cp)), Len(Base(cp)) > 1
      PROVE  /\ w[k] \in Letters \ Forms /\ w[k] # Tatweel
             /\ \E j \in 1..Len(Base(cp)) : Base(cp)[j] = w[k]
  <2>1. PICK b : b = Base(cp)
    OBVIOUS
  <2>2. b \in Seq(Letters) /\ \A j \in 1..Len(b) : b[j] \in Letters \ Forms
    BY <1>3, <2>1, FormIs
  <2>3. PICK v : v = WithoutTatweel(b)
    OBVIOUS
  <2>4. \A i \in 1..Len(v) : \E j \in 1..Len(b) : b[j] # Tatweel /\ v[i] = b[j]
    BY ONLY <2>2, <2>3, WithoutIs
  <2>5. v = w
    BY ONLY <1>3, <2>1, <2>3
  <2> QED BY <2>1, <2>2, <2>4, <2>5
<1>4. ASSUME cp \in Forms, w = Base(cp), HasGlyph(face, Base(cp)[1]), Len(Base(cp)) = 1
      PROVE  FALSE
  <2>1. k \in 1..1
    BY ONLY <1>4, k \in 1..Len(w)
  <2>2. k = 1
    BY ONLY <2>1
  <2> QED BY <1>4, <2>2
<1>5. ASSUME \E e \in Siblings(cp, Base(cp), face) : w = <<FormEntries[e].cp>>
      PROVE  FALSE
  <2>1. PICK x : w = <<x>> /\ x \in face
    BY <1>5 DEF Siblings
  <2>2. w[k] = x
    BY <2>1
  <2> QED BY <2>1, <2>2 DEF HasGlyph
<1> QED BY <1>1, <1>2, <1>3, <1>4, <1>5 DEF ReplacedBy
-----------------------------------------------------------------------------
(* The text that is shaped *)

\* A letter of the text.
Letter == [cp: Cps, at: Nat]

\* A line whose characters have letters.
Known(runs) ==
  /\ runs \in Seq(Run)
  /\ \A r \in 1..Len(runs) : \A k \in 1..Len(runs[r].text) : Cp(runs[r].text[k]) \in Cps

\* The letters of one character.
LEMMA ForIs ==
  ASSUME NEW at, at \in Nat, NEW w, w \in Seq(Cps)
  PROVE  /\ For(at, w) \in Seq(Letter) /\ Len(For(at, w)) = Len(w)
         /\ \A k \in 1..Len(w) : For(at, w)[k].cp = w[k] /\ For(at, w)[k].at = at
<1>1. DOMAIN w = 1..Len(w) /\ Len(w) \in Nat /\ \A k \in 1..Len(w) : w[k] \in Cps
  OBVIOUS
<1>2. ASSUME NEW k, k \in 1..Len(w)
      PROVE  /\ [cp |-> w[k], at |-> at] \in Letter
             /\ [cp |-> w[k], at |-> at].cp = w[k] /\ [cp |-> w[k], at |-> at].at = at
  <2>1. PICK x : x = w[k] /\ x \in Cps
    BY <1>1, <1>2
  <2>2. [cp |-> x, at |-> at] \in Letter
    BY <2>1 DEF Letter
  <2> QED BY ONLY <2>1, <2>2
<1>3. For(at, w) = [k \in 1..Len(w) |-> [cp |-> w[k], at |-> at]]
  BY ONLY <1>1 DEF For
<1>4. For(at, w) \in [1..Len(w) -> Letter]
  BY ONLY <1>2, <1>3
<1>5. For(at, w) \in Seq(Letter) /\ Len(For(at, w)) = Len(w)
  BY <1>1, <1>4
<1>6. \A k \in 1..Len(w) : For(at, w)[k].cp = w[k] /\ For(at, w)[k].at = at
  BY ONLY <1>2, <1>3
<1> QED BY <1>5, <1>6

\* A replacement is a sequence of letters.
LEMMA NormalizedLetters ==
  ASSUME NEW cp, cp \in Cps, NEW face, face \subseteq Letters
  PROVE  /\ NormalizeForFace(cp, face) \in Seq(Cps)
         /\ NormalizeForFace(cp, face) \in Spellings(cp)
         /\ \E k \in 1..Len(NormalizeForFace(cp, face)) : TRUE
<1>1. NormalizeForFace(cp, face) \in Spellings(cp)
  BY NormalizedIs, ReplacedInSpelling
<1> QED BY <1>1, SpellingType

\* A letter of the text comes from a character.
ComesFrom(letter, c, face) ==
  /\ letter.at = c.at
  /\ \E m \in 1..Len(NormalizeForFace(Cp(c), face)) : letter.cp = NormalizeForFace(Cp(c), face)[m]

\* The letters of the characters of a text, one sequence for each.
ForEach(text, face) ==
  [i \in 1..Len(text) |-> For(text[i].at, NormalizeForFace(Cp(text[i]), face))]

\* They are sequences of letters.
LEMMA ForEachIs ==
  ASSUME NEW text, text \in Seq(Char), \A k \in 1..Len(text) : Cp(text[k]) \in Cps,
         NEW face, face \subseteq Letters
  PROVE  /\ ForEach(text, face) \in Seq(Seq(Letter)) /\ Len(ForEach(text, face)) = Len(text)
         /\ \A k \in 1..Len(text) : \A m \in 1..Len(ForEach(text, face)[k]) :
              ComesFrom(ForEach(text, face)[k][m], text[k], face)
         /\ Normalized(text, face) = FlattenSeq(ForEach(text, face))
<1>1. Len(text) \in Nat /\ DOMAIN text = 1..Len(text)
  OBVIOUS
<1>2. ASSUME NEW k, k \in 1..Len(text)
      PROVE  /\ ForEach(text, face)[k] \in Seq(Letter)
             /\ \A m \in 1..Len(ForEach(text, face)[k]) :
                  ComesFrom(ForEach(text, face)[k][m], text[k], face)
  <2>1. PICK c : c = text[k]
    OBVIOUS
  <2>2. c \in Char
    BY <1>2, <2>1, ElementOfSeq
  <2>3. c.at \in Nat
    BY <2>2 DEF Char
  <2>4. Cp(c) \in Cps
    BY <1>2, <2>1
  <2>5. PICK w : w = NormalizeForFace(Cp(c), face)
    OBVIOUS
  <2>6. w \in Seq(Cps)
    BY <2>4, <2>5, NormalizedLetters
  <2>7. /\ For(c.at, w) \in Seq(Letter) /\ Len(For(c.at, w)) = Len(w)
        /\ \A m \in 1..Len(w) : For(c.at, w)[m].cp = w[m] /\ For(c.at, w)[m].at = c.at
    BY ONLY <2>3, <2>6, ForIs
  <2>8. ForEach(text, face)[k] = For(c.at, w)
    BY ONLY <1>2, <2>1, <2>5 DEF ForEach
  <2> QED BY ONLY <2>1, <2>5, <2>7, <2>8 DEF ComesFrom
<1>3. ForEach(text, face) \in Seq(Seq(Letter)) /\ Len(ForEach(text, face)) = Len(text)
  <2>1. PICK n : n = Len(text) /\ n \in Nat
    BY <1>1
  <2>2. PICK f : f = ForEach(text, face)
    OBVIOUS
  <2>3. f = [k \in 1..n |-> f[k]]
    BY ONLY <2>1, <2>2 DEF ForEach
  <2> DEFINE L == Seq(Letter)
  <2>4. \A k \in 1..n : f[k] \in L
    BY <1>2, <2>1, <2>2
  <2> HIDE DEF L
  <2>5. f \in [1..n -> L]
    BY ONLY <2>3, <2>4
  <2>6. f \in Seq(L) /\ Len(f) = n
    BY ONLY <2>1, <2>5
  <2> QED BY ONLY <2>1, <2>2, <2>6 DEF L
<1>4. Normalized(text, face) = FlattenSeq(ForEach(text, face))
  BY ONLY <1>1 DEF Normalized, ForEach
<1> QED BY <1>2, <1>3, <1>4

\* The letters of a text.
LEMMA NormalizedType ==
  ASSUME NEW text, text \in Seq(Char), \A k \in 1..Len(text) : Cp(text[k]) \in Cps,
         NEW face, face \subseteq Letters
  PROVE  /\ Normalized(text, face) \in Seq(Letter)
         /\ \A i \in 1..Len(Normalized(text, face)) :
              \E k \in 1..Len(text) : ComesFrom(Normalized(text, face)[i], text[k], face)
<1>1. PICK ss : ss = ForEach(text, face)
  OBVIOUS
<1>2. /\ ss \in Seq(Seq(Letter)) /\ Len(ss) = Len(text)
      /\ \A k \in 1..Len(text) : \A m \in 1..Len(ss[k]) : ComesFrom(ss[k][m], text[k], face)
      /\ Normalized(text, face) = FlattenSeq(ss)
  BY <1>1, ForEachIs
<1>3. FlattenSeq(ss) \in Seq(Letter)
  BY ONLY <1>2, FlattenType
<1>4. ASSUME NEW i, i \in 1..Len(FlattenSeq(ss))
      PROVE  \E k \in 1..Len(text) : ComesFrom(FlattenSeq(ss)[i], text[k], face)
  <2>1. \E r \in 1..Len(ss) : \E k \in 1..Len(ss[r]) :
          i = EndOf(ss, r - 1) + k /\ FlattenSeq(ss)[i] = ss[r][k]
    BY ONLY <1>2, <1>4, FlattenFrom
  <2> QED BY ONLY <1>2, <2>1
<1> QED BY ONLY <1>2, <1>3, <1>4

\* The text of a line, a sequence for each run.
Pieces(runs, face) == [r \in 1..Len(runs) |-> Normalized(runs[r].text, face)]

\* They are sequences of letters, and Boundaries are their ends.
LEMMA PiecesAre ==
  ASSUME NEW runs, Known(runs), NEW face, face \subseteq Letters
  PROVE  /\ Pieces(runs, face) \in Seq(Seq(Letter)) /\ Len(Pieces(runs, face)) = Len(runs)
         /\ \A r \in 1..Len(runs) : Pieces(runs, face)[r] = Normalized(runs[r].text, face)
         /\ \A r \in 1..Len(runs) : \A m \in 1..Len(Pieces(runs, face)[r]) :
              \E k \in 1..Len(runs[r].text) :
                ComesFrom(Pieces(runs, face)[r][m], runs[r].text[k], face)
         /\ FullText(runs, face) = FlattenSeq(Pieces(runs, face))
         /\ \A r \in 1..Len(runs) : Boundaries(runs, face)[r] = EndOf(Pieces(runs, face), r)
<1>1. PICK n : n = Len(runs) /\ n \in Nat /\ DOMAIN runs = 1..n
  BY DEF Known
<1>2. PICK f : f = Pieces(runs, face)
  OBVIOUS
<1>3. f = [r \in 1..n |-> Normalized(runs[r].text, face)]
  BY ONLY <1>1, <1>2 DEF Pieces
<1>4. ASSUME NEW r, r \in 1..n
      PROVE  /\ f[r] \in Seq(Letter)
             /\ \A m \in 1..Len(f[r]) : \E k \in 1..Len(runs[r].text) :
                  ComesFrom(f[r][m], runs[r].text[k], face)
  <2>1. PICK t : t = runs[r].text
    OBVIOUS
  <2>2. t \in Seq(Char)
    <3>1. runs[r] \in Run
      <4>1. runs \in Seq(Run)
        BY DEF Known
      <4> QED BY ONLY <1>1, <1>4, <4>1, ElementOfSeq
    <3> QED BY <2>1, <3>1, RunParts
  <2>3. \A k \in 1..Len(t) : Cp(t[k]) \in Cps
    BY <1>1, <1>4, <2>1 DEF Known
  <2>4. /\ Normalized(t, face) \in Seq(Letter)
        /\ \A i \in 1..Len(Normalized(t, face)) :
             \E k \in 1..Len(t) : ComesFrom(Normalized(t, face)[i], t[k], face)
    BY <2>2, <2>3, NormalizedType
  <2>5. f[r] = Normalized(t, face)
    BY ONLY <1>3, <1>4, <2>1
  <2> QED BY ONLY <2>1, <2>4, <2>5
<1>5. f \in Seq(Seq(Letter)) /\ Len(f) = n
  <2> DEFINE L == Seq(Letter)
  <2>1. \A k \in 1..n : f[k] \in L
    BY <1>4
  <2>2. f = [k \in 1..n |-> f[k]]
    BY ONLY <1>3
  <2> HIDE DEF L
  <2>3. f \in [1..n -> L]
    BY ONLY <2>1, <2>2
  <2>4. f \in Seq(L) /\ Len(f) = n
    BY ONLY <1>1, <2>3
  <2> QED BY ONLY <2>4 DEF L
<1>6. FullText(runs, face) = FlattenSeq(f)
  BY ONLY <1>1, <1>3 DEF FullText
<1>7. ASSUME NEW r, r \in 1..n PROVE Boundaries(runs, face)[r] = EndOf(f, r)
  <2>1. \A q \in 1..r : q \in 1..n
    BY <1>1, <1>7
  <2>2. [q \in 1..r |-> Normalized(runs[q].text, face)] = Parts(f, r)
    BY ONLY <1>3, <2>1 DEF Parts
  <2> QED BY ONLY <1>1, <1>7, <2>2 DEF Boundaries, EndOf
<1>8. \A r \in 1..n : f[r] = Normalized(runs[r].text, face)
  BY ONLY <1>3
<1> QED BY ONLY <1>1, <1>2, <1>4, <1>5, <1>6, <1>7, <1>8

\* Every letter comes from a character, and has the style of its run.
LEMMA TextIs ==
  ASSUME NEW runs, Known(runs), NEW face, face \subseteq Letters
  PROVE  /\ FullText(runs, face) \in Seq(Letter)
         /\ \A i \in 1..Len(FullText(runs, face)) : \E r \in 1..Len(runs) :
              /\ \E k \in 1..Len(runs[r].text) :
                   ComesFrom(FullText(runs, face)[i], runs[r].text[k], face)
              /\ StyleAt({q \in DOMAIN runs : i <= Boundaries(runs, face)[q]}, runs)
                   = runs[r].style
<1>1. PICK n : n = Len(runs) /\ n \in Nat /\ DOMAIN runs = 1..n
  BY DEF Known
<1>2. PICK f : f = Pieces(runs, face)
  OBVIOUS
<1>3. /\ f \in Seq(Seq(Letter)) /\ Len(f) = n
      /\ \A r \in 1..n : \A m \in 1..Len(f[r]) :
           \E k \in 1..Len(runs[r].text) : ComesFrom(f[r][m], runs[r].text[k], face)
      /\ FullText(runs, face) = FlattenSeq(f)
      /\ \A r \in 1..n : Boundaries(runs, face)[r] = EndOf(f, r)
  BY <1>1, <1>2, PiecesAre
<1>4. FlattenSeq(f) \in Seq(Letter)
  BY ONLY <1>3, FlattenType
<1>5. ASSUME NEW i, i \in 1..Len(FlattenSeq(f))
      PROVE  \E r \in 1..n :
               /\ \E k \in 1..Len(runs[r].text) :
                    ComesFrom(FlattenSeq(f)[i], runs[r].text[k], face)
               /\ StyleAt({q \in DOMAIN runs : i <= Boundaries(runs, face)[q]}, runs)
                    = runs[r].style
  <2>1. PICK r \in 1..Len(f) : \E m \in 1..Len(f[r]) :
          i = EndOf(f, r - 1) + m /\ FlattenSeq(f)[i] = f[r][m]
    BY ONLY <1>3, <1>5, FlattenFrom
  <2>2. PICK m \in 1..Len(f[r]) : i = EndOf(f, r - 1) + m /\ FlattenSeq(f)[i] = f[r][m]
    BY <2>1
  <2>3. r \in 1..n
    BY ONLY <1>3, <2>1
  <2>4. \E k \in 1..Len(runs[r].text) : ComesFrom(FlattenSeq(f)[i], runs[r].text[k], face)
    BY ONLY <1>3, <2>2, <2>3
  <2>5. /\ \A q \in 0..n : EndOf(f, q) \in Nat
        /\ Len(f[r]) \in Nat /\ EndOf(f, r) = EndOf(f, r - 1) + Len(f[r])
    BY ONLY <1>3, <2>3, Ends
  <2>6. \A p, q \in 0..n : p <= q => EndOf(f, p) <= EndOf(f, q)
    BY ONLY <1>3, EndsOrdered
  <2> DEFINE T == {q \in DOMAIN runs : i <= Boundaries(runs, face)[q]}
  <2>7. r - 1 \in 0..n /\ EndOf(f, r - 1) < i /\ i <= EndOf(f, r) /\ i \in Nat
    <3>1. r - 1 \in 0..n
      BY <1>1, <2>3
    <3>2. PICK a, b, l : a = EndOf(f, r - 1) /\ b = EndOf(f, r) /\ l = Len(f[r])
      OBVIOUS
    <3>3. a \in Nat /\ l \in Nat /\ b = a + l /\ m \in 1..l /\ i = a + m
      BY ONLY <2>2, <2>5, <3>1, <3>2
    <3>4. a < i /\ i <= b /\ i \in Nat
      BY ONLY <3>3
    <3> QED BY ONLY <3>1, <3>2, <3>4
  <2>8. r \in T
    BY ONLY <1>1, <1>3, <2>3, <2>7
  <2>9. ASSUME NEW q, q \in T PROVE r <= q
    <3>1. q \in 1..n /\ i <= EndOf(f, q)
      BY ONLY <1>1, <1>3, <2>9
    <3>2. CASE q < r
      <4>1. q \in 0..n /\ q <= r - 1
        BY <1>1, <2>3, <3>1, <3>2
      <4>2. EndOf(f, q) <= EndOf(f, r - 1)
        BY ONLY <2>6, <2>7, <4>1
      <4>3. EndOf(f, q) \in Nat /\ EndOf(f, r - 1) \in Nat
        BY ONLY <2>5, <2>7, <4>1
      <4>4. \A x, y \in Nat : x <= y /\ y < i => ~(i <= x)
        BY <2>7
      <4> QED BY ONLY <2>7, <3>1, <4>2, <4>3, <4>4
    <3> QED BY <1>1, <2>3, <3>1, <3>2
  <2>10. T \subseteq Nat
    BY <1>1
  <2> HIDE DEF T
  <2>11. Min(T) = r /\ T # {}
    BY ONLY <2>8, <2>9, <2>10, MinOf
  <2>12. StyleAt(T, runs) = runs[r].style
    BY ONLY <2>11 DEF StyleAt
  <2> QED BY ONLY <2>3, <2>4, <2>12 DEF T
<1> QED BY ONLY <1>1, <1>3, <1>4, <1>5
-----------------------------------------------------------------------------
(* Levels, and the visual order *)

\* The letters with a direction have one.
LEMMA StrongIs ==
  ASSUME NEW text, text \in Seq(Letter)
  PROVE  Strong(text) \subseteq 1..Len(text)
         /\ \A i \in Strong(text) : Class(text[i].cp) \in {"L", "R"}
BY DEF Strong

\* A text has a direction.
LEMMA BaseDirectionIs ==
  ASSUME NEW text, text \in Seq(Letter)
  PROVE  BaseDirection(text) \in {"L", "R"}
<1>1. CASE Strong(text) = {}
  BY <1>1 DEF BaseDirection
<1>2. CASE Strong(text) # {}
  <2>1. Strong(text) \subseteq Nat
    BY StrongIs
  <2>2. Min(Strong(text)) \in Strong(text)
    BY <1>2, <2>1, MinIs
  <2>3. Class(text[Min(Strong(text))].cp) \in {"L", "R"}
    BY <2>2, StrongIs
  <2> QED BY ONLY <1>2, <2>3 DEF BaseDirection
<1> QED BY <1>1, <1>2

\* A letter has a class; only one that is written from the right is "R".
LEMMA ClassIs == \A cp : Class(cp) \in {"W", "L", "N", "R"}
BY DEF Class

\* A text has a level for each letter, which is 1 for an Arabic one.
LEMMA LevelsAre ==
  ASSUME NEW text, text \in Seq(Letter)
  PROVE  /\ Levels(text) \in Seq({0, 1, 2}) /\ Len(Levels(text)) = Len(text)
         /\ \A i \in 1..Len(text) : Class(text[i].cp) = "R" => Levels(text)[i] = 1
<1>1. PICK n : n = Len(text) /\ n \in Nat /\ DOMAIN text = 1..n
  OBVIOUS
<1>2. PICK base : base = BaseDirection(text) /\ base \in {"L", "R"}
  BY BaseDirectionIs
<1>3. PICK c : c = Classes(text, base)
  OBVIOUS
<1>4. c = [i \in 1..n |-> IF Class(text[i].cp) = "N" /\ StrongBefore(text, i, base) = "L" THEN "L"
                          ELSE Class(text[i].cp)]
  BY ONLY <1>1, <1>3 DEF Classes
<1>5. DOMAIN c = 1..n /\ \A i \in 1..n : c[i] \in {"W", "L", "N", "R"}
                                       /\ (Class(text[i].cp) = "R" => c[i] = "R")
  <2>1. DOMAIN c = 1..n
    BY ONLY <1>4
  <2>2. ASSUME NEW i, i \in 1..n
        PROVE  c[i] \in {"W", "L", "N", "R"} /\ (Class(text[i].cp) = "R" => c[i] = "R")
    <3>1. c[i] = IF Class(text[i].cp) = "N" /\ StrongBefore(text, i, base) = "L" THEN "L"
                 ELSE Class(text[i].cp)
      BY ONLY <1>4, <2>2
    <3>2. Class(text[i].cp) \in {"W", "L", "N", "R"}
      BY ClassIs
    <3> QED BY ONLY <3>1, <3>2
  <2> QED BY <2>1, <2>2
<1>6. ASSUME NEW i, i \in 1..n
      PROVE  /\ Direction(c, i, base) \in {"L", "N", "R"}
             /\ c[i] = "R" => Direction(c, i, base) = "R"
  <2>1. \A class : Side(class) \in {"L", "R"}
    BY DEF Side
  <2> DEFINE sided == {j \in DOMAIN c : c[j] # "W"}
             before == {j \in sided : j < i}
             after == {j \in sided : j > i}
             left == IF before = {} THEN base ELSE Side(c[Max(before)])
             right == IF after = {} THEN base ELSE Side(c[Min(after)])
  <2>2. left \in {"L", "R"}
    BY <1>2, <2>1
  <2>3. Direction(c, i, base) = IF c[i] # "W" THEN c[i] ELSE IF left = right THEN left ELSE base
    BY DEF Direction
  <2> HIDE DEF left, right
  <2> QED BY ONLY <1>2, <1>5, <1>6, <2>2, <2>3
<1>7. PICK l : l = Levels(text)
  OBVIOUS
<1>8. l = [i \in 1..n |-> Level(Direction(c, i, base), base)]
  BY ONLY <1>2, <1>3, <1>5, <1>7 DEF Levels, LevelsOf
<1>9. ASSUME NEW i, i \in 1..n
      PROVE  l[i] \in {0, 1, 2} /\ (Class(text[i].cp) = "R" => l[i] = 1)
  <2>1. l[i] = Level(Direction(c, i, base), base)
    BY ONLY <1>8, <1>9
  <2>2. Level("R", base) = 1
    BY DEF Level
  <2>3. \A d \in {"L", "N", "R"} : Level(d, base) \in {0, 1, 2}
    BY DEF Level
  <2> QED BY ONLY <1>5, <1>6, <1>9, <2>1, <2>2, <2>3
<1>10. l \in [1..n -> {0, 1, 2}]
  BY ONLY <1>8, <1>9
<1>11. l \in Seq({0, 1, 2}) /\ Len(l) = n
  BY ONLY <1>1, <1>10
<1> QED BY ONLY <1>1, <1>7, <1>9, <1>11

\* What is greatest among numbers is the greatest.
LEMMA MaxOf ==
  ASSUME NEW T, T \subseteq Nat, NEW x, x \in T, \A y \in T : y <= x
  PROVE  Max(T) = x
<1>1. \E z \in T : \A y \in T : z >= y
  <2>1. \A y \in T : x >= y
    <3>1. \A a, b \in Nat : a <= b => b >= a
      OBVIOUS
    <3> QED BY <3>1
  <2> QED BY <2>1
<1>2. Max(T) \in T /\ \A y \in T : Max(T) >= y
  BY <1>1 DEF Max
<1>3. x \in Nat /\ Max(T) \in Nat /\ Max(T) >= x /\ Max(T) <= x
  BY <1>2
<1> QED BY ONLY <1>3

\* Numbers up to a bound have a greatest.
LEMMA MaxUpTo ==
  ASSUME NEW m, m \in Nat, NEW T, T \subseteq 0..m, T # {}
  PROVE  Max(T) \in T /\ \A x \in T : x <= Max(T)
<1> DEFINE D == {m - x : x \in T}
<1>1. D \subseteq Nat /\ D # {}
  <2>1. \A x \in T : m - x \in Nat
    OBVIOUS
  <2> QED BY <2>1
<1>2. PICK d \in D : \A u \in D : d <= u
  BY <1>1, LeastNumber
<1>3. PICK x \in T : d = m - x
  BY <1>2
<1>4. ASSUME NEW y, y \in T PROVE y <= x
  <2>1. m - x <= m - y
    BY <1>2, <1>3, <1>4
  <2>2. x \in 0..m /\ y \in 0..m
    BY <1>3, <1>4
  <2> QED BY <2>1, <2>2
<1>5. T \subseteq Nat
  OBVIOUS
<1>6. Max(T) = x
  BY ONLY <1>3, <1>4, <1>5, MaxOf
<1> QED BY ONLY <1>3, <1>4, <1>6

\* The bounds of the stretch around a place that Turned turns.
FirstOf(low, v) == Max({0} \cup {u \in low : u < v}) + 1
LastOf(low, n, v) == Min({n + 1} \cup {u \in low : u > v}) - 1

\* Where Turned looks.
Mirror(low, n, v) == IF v \in low THEN v ELSE FirstOf(low, v) + LastOf(low, n, v) - v

\* Some of the places up to n.
UpTo(low, n) == n \in Nat /\ low \subseteq 1..n

\* The stretch from f to l has a place in it, nothing low, and is as long as can be.
Around(low, n, f, l, v) ==
  /\ UpTo(low, n)
  /\ f \in 1..n /\ l \in 1..n /\ f <= v /\ v <= l
  /\ \A u \in f..l : u \notin low
  /\ f - 1 = 0 \/ f - 1 \in low
  /\ l + 1 = n + 1 \/ l + 1 \in low

\* There is one.
LEMMA AroundIs ==
  ASSUME NEW n, NEW low, UpTo(low, n)
  PROVE  \A v \in 1..n : v \notin low => Around(low, n, FirstOf(low, v), LastOf(low, n, v), v)
<1> SUFFICES ASSUME NEW v, v \in 1..n, v \notin low
             PROVE  Around(low, n, FirstOf(low, v), LastOf(low, n, v), v)
  OBVIOUS
<1>01. n \in Nat /\ low \subseteq 1..n
  BY DEF UpTo
<1> DEFINE B == {0} \cup {u \in low : u < v}
           A == {n + 1} \cup {u \in low : u > v}
<1>0. \A u \in low : u \in 1..n /\ u \in 0..n /\ u \in Nat
  BY <1>01
<1>1. B \subseteq 0..n /\ B # {}
  <2>1. 0 \in 0..n /\ 0 \in B
    BY <1>01
  <2>2. \A x \in B : x = 0 \/ x \in low
    OBVIOUS
  <2> HIDE DEF B
  <2> QED BY ONLY <1>0, <2>1, <2>2
<1>2. A \subseteq Nat /\ A # {}
  <2>1. n + 1 \in Nat /\ n + 1 \in A
    BY <1>01
  <2>2. \A x \in A : x = n + 1 \/ x \in low
    OBVIOUS
  <2> HIDE DEF A
  <2> QED BY ONLY <1>0, <2>1, <2>2
<1>3. PICK b : b = Max(B)
  OBVIOUS
<1>4. PICK a : a = Min(A)
  OBVIOUS
<1>5. b \in B /\ \A x \in B : x <= b
  <2> HIDE DEF B
  <2>1. n \in Nat
    BY <1>01
  <2> QED BY ONLY <1>1, <1>3, <2>1, MaxUpTo
<1>6. a \in A /\ \A x \in A : a <= x
  <2> HIDE DEF A
  <2> QED BY <1>2, <1>4, MinIs
<1>7. FirstOf(low, v) = b + 1 /\ LastOf(low, n, v) = a - 1
  BY ONLY <1>3, <1>4 DEF FirstOf, LastOf
<1>8. b \in 0..n /\ a \in 1..n + 1 /\ b < v /\ v < a
  BY <1>01, <1>5, <1>6
<1>9. b + 1 \in 1..n /\ a - 1 \in 1..n /\ b + 1 <= v /\ v <= a - 1
      /\ b + 1 - 1 = b /\ a - 1 + 1 = a
  BY <1>01, <1>8
<1>10. ASSUME NEW u, u \in b + 1..a - 1 PROVE u \notin low
  <2> SUFFICES ASSUME u \in low PROVE FALSE
    OBVIOUS
  <2>1. u \in Nat /\ u # v /\ b < u /\ u < a /\ n \in Nat
    BY <1>01, <1>8, <1>10
  <2>2. CASE u < v
    <3>1. u \in B
      BY <2>2
    <3>2. u <= b
      BY <1>5, <3>1
    <3> QED BY <1>8, <2>1, <3>2
  <2>3. CASE u > v
    <3>1. u \in A
      BY <2>3
    <3>2. a <= u
      BY <1>6, <3>1
    <3> QED BY <1>8, <2>1, <3>2
  <2> QED BY <2>1, <2>2, <2>3
<1>11. (b = 0 \/ b \in low) /\ (a = n + 1 \/ a \in low)
  BY <1>5, <1>6
<1>12. PICK f, l : f = b + 1 /\ l = a - 1
  OBVIOUS
<1>13. Around(low, n, f, l, v)
  <2>1. f - 1 = b /\ l + 1 = a /\ f \in 1..n /\ l \in 1..n /\ f <= v /\ v <= l
    <3>1. f = b + 1 /\ l = a - 1 /\ n \in Nat /\ v \in 1..n
      BY <1>01, <1>12
    <3> QED BY ONLY <1>8, <3>1
  <2>2. \A u \in f..l : u \notin low
    BY ONLY <1>10, <1>12
  <2>3. f - 1 = 0 \/ f - 1 \in low
    BY ONLY <1>11, <2>1
  <2>4. l + 1 = n + 1 \/ l + 1 \in low
    BY ONLY <1>11, <2>1
  <2> QED BY ONLY <2>1, <2>2, <2>3, <2>4, UpTo(low, n) DEF Around
<1> QED BY ONLY <1>7, <1>12, <1>13

\* All places of a stretch have its bounds.
LEMMA AroundOnly ==
  ASSUME NEW n, NEW low, NEW f, NEW l, NEW v, Around(low, n, f, l, v)
  PROVE  \A u \in f..l :
           u \in 1..n /\ u \notin low /\ FirstOf(low, u) = f /\ LastOf(low, n, u) = l
<1> SUFFICES ASSUME NEW u, u \in f..l
             PROVE  u \in 1..n /\ u \notin low /\ FirstOf(low, u) = f /\ LastOf(low, n, u) = l
  OBVIOUS
<1>0. n \in Nat /\ low \subseteq 1..n
  BY DEF Around, UpTo
<1>1. /\ f \in 1..n /\ l \in 1..n /\ \A w \in f..l : w \notin low
      /\ f - 1 = 0 \/ f - 1 \in low
      /\ l + 1 = n + 1 \/ l + 1 \in low
  BY DEF Around
<1>2. u \in 1..n /\ u \notin low /\ f <= u /\ u <= l
  BY <1>0, <1>1
<1> DEFINE B == {0} \cup {w \in low : w < u}
           A == {n + 1} \cup {w \in low : w > u}
<1>3. B \subseteq Nat /\ A \subseteq Nat
  <2>1. \A w \in low : w \in Nat
    BY <1>0
  <2>2. 0 \in Nat /\ n + 1 \in Nat
    BY <1>0
  <2>3. \A x \in B : x = 0 \/ x \in low
    OBVIOUS
  <2>4. \A x \in A : x = n + 1 \/ x \in low
    OBVIOUS
  <2> HIDE DEF A, B
  <2> QED BY ONLY <2>1, <2>2, <2>3, <2>4
<1>4. f - 1 \in B
  BY <1>0, <1>1, <1>2
<1>5. l + 1 \in A
  BY <1>0, <1>1, <1>2
<1>6. ASSUME NEW w, w \in B PROVE w <= f - 1
  <2>1. CASE w = 0
    BY <1>0, <1>1, <2>1
  <2>2. CASE w \in low /\ w < u
    <3>1. w \notin f..l
      BY <1>1, <2>2
    <3> QED BY <1>0, <1>1, <1>2, <2>2, <3>1
  <2> QED BY <1>6, <2>1, <2>2
<1>7. ASSUME NEW w, w \in A PROVE l + 1 <= w
  <2>1. CASE w = n + 1
    BY <1>0, <1>1, <2>1
  <2>2. CASE w \in low /\ w > u
    <3>1. w \notin f..l
      BY <1>1, <2>2
    <3> QED BY <1>0, <1>1, <1>2, <2>2, <3>1
  <2> QED BY <1>7, <2>1, <2>2
<1>8. Max(B) = f - 1
  <2> HIDE DEF B
  <2> QED BY <1>3, <1>4, <1>6, MaxOf
<1>9. Min(A) = l + 1
  <2> HIDE DEF A
  <2> QED BY <1>3, <1>5, <1>7, MinOf
<1>10. f - 1 + 1 = f /\ l + 1 - 1 = l
  BY <1>0, <1>1
<1>11. FirstOf(low, u) = f
  BY ONLY <1>8, <1>10 DEF FirstOf
<1>12. LastOf(low, n, u) = l
  <2>1. PICK m : m = Min(A)
    OBVIOUS
  <2>2. LastOf(low, n, u) = m - 1
    BY ONLY <2>1 DEF LastOf
  <2>3. m = l + 1 /\ l \in Nat
    BY <1>0, <1>1, <1>9, <2>1
  <2>4. m - 1 = l
    BY ONLY <2>3
  <2> QED BY ONLY <2>2, <2>4
<1> QED BY ONLY <1>2, <1>11, <1>12

\* To look in the mirror twice is to look straight on.
LEMMA MirrorIs ==
  ASSUME NEW n, NEW low, UpTo(low, n)
  PROVE  \A v \in 1..n :
           /\ Mirror(low, n, v) \in 1..n /\ Mirror(low, n, Mirror(low, n, v)) = v
           /\ v \in low => Mirror(low, n, v) = v
           /\ v \notin low => Mirror(low, n, v) \notin low
<1> SUFFICES ASSUME NEW v, v \in 1..n
             PROVE  /\ Mirror(low, n, v) \in 1..n /\ Mirror(low, n, Mirror(low, n, v)) = v
                    /\ v \in low => Mirror(low, n, v) = v
                    /\ v \notin low => Mirror(low, n, v) \notin low
  OBVIOUS
<1>0. n \in Nat
  BY DEF UpTo
<1>1. CASE v \in low
  <2>1. Mirror(low, n, v) = v
    BY ONLY <1>1 DEF Mirror
  <2> QED BY <1>1, <2>1
<1>2. CASE v \notin low
  <2>1. PICK f, l : f = FirstOf(low, v) /\ l = LastOf(low, n, v)
    OBVIOUS
  <2>2. Around(low, n, f, l, v)
    BY ONLY <1>2, <2>1, v \in 1..n, UpTo(low, n), AroundIs
  <2>3. f \in 1..n /\ l \in 1..n /\ f <= v /\ v <= l
    BY ONLY <2>2 DEF Around
  <2>4. PICK m : m = f + l - v
    OBVIOUS
  <2>5. m \in f..l /\ m \in 1..n /\ f + l - m = v
    BY ONLY <1>0, <2>3, <2>4, v \in 1..n
  <2>6. Mirror(low, n, v) = m
    BY ONLY <1>2, <2>1, <2>4 DEF Mirror
  <2>7. m \notin low /\ FirstOf(low, m) = f /\ LastOf(low, n, m) = l
    <3>1. m \in f..l
      BY ONLY <2>5
    <3>2. \A u \in f..l :
            u \in 1..n /\ u \notin low /\ FirstOf(low, u) = f /\ LastOf(low, n, u) = l
      BY ONLY <2>2, AroundOnly
    <3> QED BY ONLY <3>1, <3>2
  <2>8. Mirror(low, n, m) = v
    BY ONLY <2>5, <2>7 DEF Mirror
  <2> QED BY ONLY <1>2, <2>1, <2>4, <2>5, <2>6, <2>7, <2>8
<1> QED BY <1>1, <1>2

\* A step to the right is one to the left in the mirror.
LEMMA MirrorNext ==
  ASSUME NEW n, NEW low, UpTo(low, n)
  PROVE  \A v \in 1..n : v + 1 \in 1..n /\ v \notin low /\ v + 1 \notin low =>
           Mirror(low, n, v + 1) = Mirror(low, n, v) - 1
<1> SUFFICES ASSUME NEW v, v \in 1..n, v + 1 \in 1..n, v \notin low, v + 1 \notin low
             PROVE  Mirror(low, n, v + 1) = Mirror(low, n, v) - 1
  OBVIOUS
<1>0. n \in Nat
  BY DEF UpTo
<1>1. PICK f, l : f = FirstOf(low, v) /\ l = LastOf(low, n, v)
  OBVIOUS
<1>2. Around(low, n, f, l, v)
  BY ONLY <1>1, v \in 1..n, v \notin low, UpTo(low, n), AroundIs
<1>3. f \in 1..n /\ l \in 1..n /\ f <= v /\ v <= l /\ (l + 1 = n + 1 \/ l + 1 \in low)
  BY ONLY <1>2 DEF Around
<1>4. PICK u : u = v + 1
  OBVIOUS
<1>5. u \in f..l
  <2>1. CASE v = l
    BY <1>0, <1>3, <2>1
  <2>2. CASE v # l
    BY <1>0, <1>3, <1>4, <2>2
  <2> QED BY <2>1, <2>2
<1>6. FirstOf(low, u) = f /\ LastOf(low, n, u) = l
  <2>1. \A w \in f..l :
          w \in 1..n /\ w \notin low /\ FirstOf(low, w) = f /\ LastOf(low, n, w) = l
    BY ONLY <1>2, AroundOnly
  <2> QED BY ONLY <1>5, <2>1
<1>7. u \notin low
  BY <1>4
<1>8. Mirror(low, n, u) = f + l - u
  BY ONLY <1>6, <1>7 DEF Mirror
<1>9. Mirror(low, n, v) = f + l - v
  BY ONLY <1>1, v \notin low DEF Mirror
<1>10. f + l - u = f + l - v - 1
  BY <1>0, <1>3, <1>4
<1>11. PICK x, y : x = Mirror(low, n, u) /\ y = Mirror(low, n, v)
  OBVIOUS
<1>12. x = y - 1
  <2>1. x = f + l - u /\ y = f + l - v
    BY ONLY <1>8, <1>9, <1>11
  <2>2. f \in Nat /\ l \in Nat /\ v \in Nat /\ u = v + 1
    BY <1>0, <1>3, <1>4
  <2> QED BY ONLY <2>1, <2>2
<1> QED BY ONLY <1>4, <1>11, <1>12

\* The places of low levels.
Low(levels, level) == {v \in 1..Len(levels) : levels[v] < level}

\* A map of places is another one seen in the mirror.
Mirrors(t, map, low, n) ==
  t \in [1..n -> 1..n] /\ \A v \in 1..n : t[v] = map[Mirror(low, n, v)]

\* One turn.
LEMMA TurnedIs ==
  ASSUME NEW n, n \in Nat, NEW levels, Len(levels) = n, NEW level,
         NEW map, map \in [1..n -> 1..n]
  PROVE  Mirrors(Turned(map, levels, level), map, Low(levels, level), n)
<1> DEFINE low == {v \in DOMAIN map : levels[v] < level}
           first(v) == Max({0} \cup {u \in low : u < v}) + 1
           last(v) == Min({Len(map) + 1} \cup {u \in low : u > v}) - 1
<1>1. DOMAIN map = 1..n /\ Len(map) = n
  OBVIOUS
<1>2. low = Low(levels, level)
  BY ONLY <1>1, Len(levels) = n DEF Low
<1>3. PICK t : t = Turned(map, levels, level)
  OBVIOUS
<1>4. t = [v \in DOMAIN map |-> IF v \in low THEN map[v] ELSE map[first(v) + last(v) - v]]
  BY ONLY <1>3 DEF Turned
<1>5. ASSUME NEW v, v \in 1..n PROVE t[v] = map[Mirror(low, n, v)]
  <2>1. first(v) = FirstOf(low, v)
    BY DEF FirstOf
  <2>2. last(v) = LastOf(low, n, v)
    BY ONLY <1>1 DEF LastOf
  <2>3. t[v] = IF v \in low THEN map[v] ELSE map[first(v) + last(v) - v]
    BY ONLY <1>1, <1>4, <1>5
  <2> HIDE DEF first, last, low
  <2> QED BY ONLY <2>1, <2>2, <2>3 DEF Mirror
<1>6. \A v \in 1..n : t[v] \in 1..n
  <2>1. low \subseteq 1..n
    OBVIOUS
  <2> HIDE DEF low
  <2>2. \A v \in 1..n : Mirror(low, n, v) \in 1..n
    <3>1. UpTo(low, n)
      BY <2>1 DEF UpTo
    <3> QED BY ONLY <3>1, MirrorIs
  <2> QED BY <1>5, <2>2
<1>7. t \in [1..n -> 1..n]
  <2>1. t = [v \in 1..n |-> t[v]]
    BY ONLY <1>1, <1>4
  <2> QED BY ONLY <1>6, <2>1
<1> HIDE DEF low
<1> QED BY ONLY <1>2, <1>3, <1>5, <1>7 DEF Mirrors

\* Where the visual order puts a letter.
VisualPlace(levels, i) ==
  Mirror(Low(levels, 1), Len(levels), Mirror(Low(levels, 2), Len(levels), i))

\* It puts each letter at a place of its own.
LEMMA PlacesAre ==
  ASSUME NEW levels, levels \in Seq({0, 1, 2})
  PROVE  /\ \A i \in 1..Len(levels) :
              VisualPlace(levels, i) \in 1..Len(levels) /\ PlaceOf(VisualMap(levels), i) = VisualPlace(levels, i)
         /\ \A i, j \in 1..Len(levels) : VisualPlace(levels, i) = VisualPlace(levels, j) => i = j
<1>1. PICK n : n = Len(levels) /\ n \in Nat /\ DOMAIN levels = 1..n
  OBVIOUS
<1>2. PICK one, two : one = Low(levels, 1) /\ two = Low(levels, 2)
  OBVIOUS
<1>3. one \subseteq 1..n /\ two \subseteq 1..n
  BY <1>1, <1>2 DEF Low
<1>4. \A low, v : low \subseteq 1..n /\ v \in 1..n =>
        Mirror(low, n, v) \in 1..n /\ Mirror(low, n, Mirror(low, n, v)) = v
  <2> SUFFICES ASSUME NEW low, low \subseteq 1..n
               PROVE  \A v \in 1..n :
                        Mirror(low, n, v) \in 1..n /\ Mirror(low, n, Mirror(low, n, v)) = v
    OBVIOUS
  <2>1. UpTo(low, n)
    BY <1>1 DEF UpTo
  <2> QED BY ONLY <2>1, MirrorIs
<1>5. PICK id, t, m : id = [v \in 1..n |-> v] /\ t = Turned(id, levels, 2) /\ m = Turned(t, levels, 1)
  OBVIOUS
<1>6. id \in [1..n -> 1..n] /\ \A v \in 1..n : id[v] = v
  BY ONLY <1>5
<1>7. t \in [1..n -> 1..n] /\ \A v \in 1..n : t[v] = id[Mirror(two, n, v)]
  <2>1. n \in Nat /\ Len(levels) = n /\ id \in [1..n -> 1..n]
    BY <1>1, <1>6
  <2>2. Mirrors(Turned(id, levels, 2), id, Low(levels, 2), n)
    BY ONLY <2>1, TurnedIs
  <2> QED BY ONLY <1>2, <1>5, <2>2 DEF Mirrors
<1>8. m \in [1..n -> 1..n] /\ \A v \in 1..n : m[v] = t[Mirror(one, n, v)]
  <2>1. n \in Nat /\ Len(levels) = n /\ t \in [1..n -> 1..n]
    BY <1>1, <1>7
  <2>2. Mirrors(Turned(t, levels, 1), t, Low(levels, 1), n)
    BY ONLY <2>1, TurnedIs
  <2> QED BY ONLY <1>2, <1>5, <2>2 DEF Mirrors
<1>9. VisualMap(levels) = m
  BY ONLY <1>1, <1>5 DEF VisualMap
<1>10. \A v \in 1..n : m[v] = Mirror(two, n, Mirror(one, n, v))
  <2> SUFFICES ASSUME NEW v, v \in 1..n PROVE m[v] = Mirror(two, n, Mirror(one, n, v))
    OBVIOUS
  <2>1. PICK w : w = Mirror(one, n, v)
    OBVIOUS
  <2>2. w \in 1..n
    BY ONLY <1>3, <1>4, <2>1, v \in 1..n
  <2>3. Mirror(two, n, w) \in 1..n
    BY ONLY <1>3, <1>4, <2>2
  <2> QED BY ONLY <1>6, <1>7, <1>8, <2>1, <2>2, <2>3, v \in 1..n
<1>11. \A i \in 1..n : VisualPlace(levels, i) = Mirror(one, n, Mirror(two, n, i))
  BY ONLY <1>1, <1>2 DEF VisualPlace
<1>12. ASSUME NEW i, i \in 1..n
       PROVE  VisualPlace(levels, i) \in 1..n /\ m[VisualPlace(levels, i)] = i /\ PlaceOf(m, i) = VisualPlace(levels, i)
  <2>1. PICK w, p : w = Mirror(two, n, i) /\ p = Mirror(one, n, w)
    OBVIOUS
  <2>2. w \in 1..n /\ Mirror(two, n, w) = i
    BY ONLY <1>3, <1>4, <1>12, <2>1
  <2>3. p \in 1..n /\ Mirror(one, n, p) = w
    BY ONLY <1>3, <1>4, <2>1, <2>2
  <2>4. p = VisualPlace(levels, i)
    BY ONLY <1>11, <1>12, <2>1
  <2>5. m[p] = i
    BY ONLY <1>10, <2>2, <2>3
  <2>6. PICK q : q = PlaceOf(m, i)
    OBVIOUS
  <2>7. q \in 1..n /\ m[q] = i
    <3>1. DOMAIN m = 1..n
      BY ONLY <1>8
    <3>2. \E v \in DOMAIN m : m[v] = i
      BY ONLY <2>3, <2>5, <3>1
    <3>3. PlaceOf(m, i) \in DOMAIN m /\ m[PlaceOf(m, i)] = i
      BY ONLY <3>2 DEF PlaceOf
    <3> QED BY ONLY <2>6, <3>1, <3>3
  <2>8. Mirror(two, n, Mirror(one, n, q)) = i
    BY ONLY <1>10, <2>7
  <2>9. Mirror(one, n, q) \in 1..n
    BY ONLY <1>3, <1>4, <2>7
  <2>10. Mirror(two, n, i) = Mirror(one, n, q)
    BY ONLY <1>3, <1>4, <2>8, <2>9
  <2>11. Mirror(one, n, w) = q
    BY ONLY <1>3, <1>4, <2>1, <2>7, <2>10
  <2> QED BY ONLY <2>1, <2>3, <2>4, <2>5, <2>6, <2>11
<1>13. \A i, j \in 1..n : VisualPlace(levels, i) = VisualPlace(levels, j) => i = j
  BY ONLY <1>12
<1> QED BY ONLY <1>1, <1>9, <1>12, <1>13
-----------------------------------------------------------------------------
(* The runs of one direction, in visual order *)

\* The fields and the order of the stretches.
LEMMA CoverIs ==
  ASSUME NEW n, n \in Nat, NEW sp, Cover(sp, n)
  PROVE  /\ Len(sp) \in Nat
         /\ \A s \in 1..Len(sp) : /\ sp[s].first \in 1..n /\ sp[s].last \in 1..n
                                  /\ sp[s].first <= sp[s].last
         /\ \A r, q \in 1..Len(sp) : r < q => sp[r].last < sp[q].first
         /\ \A i \in 1..n : \E s \in 1..Len(sp) : sp[s].first <= i /\ i <= sp[s].last
<1>1. sp \in Seq(Stretch)
  BY DEF Cover
<1>2. PICK m : m = Len(sp) /\ m \in Nat
  BY <1>1
<1>3. \A s \in 1..m : sp[s].first \in Nat /\ sp[s].last \in Nat
  BY ONLY <1>1, <1>2, StretchIs
<1>4. /\ \A s \in 1..m : /\ sp[s].first = IF s = 1 THEN 1 ELSE sp[s - 1].last + 1
                         /\ sp[s].first <= sp[s].last /\ sp[s].last <= n
      /\ m = 0 => n = 0
      /\ m > 0 => sp[m].last = n
  BY ONLY <1>2, Cover(sp, n) DEF Cover
<1> DEFINE a(s) == sp[s].first
           b(s) == sp[s].last
<1>5. ASSUME NEW s, s \in 1..m PROVE a(s) \in 1..n /\ b(s) \in 1..n /\ a(s) <= b(s)
  <2>1. a(s) \in Nat /\ b(s) \in Nat /\ a(s) <= b(s) /\ b(s) <= n
    BY ONLY <1>3, <1>4, <1>5
  <2>2. a(s) >= 1
    <3>1. CASE s = 1
      <4>1. a(s) = 1
        BY ONLY <1>4, <1>5, <3>1
      <4> QED BY ONLY <4>1
    <3>2. CASE s # 1
      <4>1. s - 1 \in 1..m
        BY <1>2, <1>5, <3>2
      <4>2. b(s - 1) \in Nat /\ a(s) = b(s - 1) + 1
        BY ONLY <1>3, <1>4, <1>5, <3>2, <4>1
      <4>3. \A x \in Nat : x + 1 >= 1
        OBVIOUS
      <4> QED BY ONLY <4>2, <4>3
    <3> QED BY <3>1, <3>2
  <2> HIDE DEF a, b
  <2> QED BY ONLY <2>1, <2>2, n \in Nat
<1>6. ASSUME NEW r, r \in 1..m, NEW q, q \in 1..m, r < q PROVE b(r) < a(q)
  <2> DEFINE T == {d \in Nat : r + d + 1 <= m => b(r) < a(r + d + 1)}
  <2>1. ASSUME NEW s, s \in 2..m PROVE s - 1 \in 1..m /\ a(s) = b(s - 1) + 1
    <3>1. s - 1 \in 1..m /\ s \in 1..m /\ s # 1
      BY <1>2, <2>1
    <3> QED BY ONLY <1>4, <3>1
  <2>2. 0 \in T
    <3> SUFFICES ASSUME r + 0 + 1 <= m PROVE b(r) < a(r + 0 + 1)
      OBVIOUS
    <3>1. r + 0 + 1 = r + 1 /\ r + 1 \in 2..m /\ r + 1 - 1 = r
      BY <1>2, <1>6
    <3>2. a(r + 1) = b(r) + 1 /\ b(r) \in Nat
      <4>1. PICK s : s = r + 1
        OBVIOUS
      <4>2. s \in 2..m /\ s - 1 = r
        BY <1>2, <1>6, <3>1, <4>1
      <4>3. a(s) = b(r) + 1
        BY ONLY <2>1, <4>2
      <4>4. b(r) \in Nat
        BY ONLY <1>3, <1>6
      <4> QED BY ONLY <4>1, <4>3, <4>4
    <3>3. \A x \in Nat : x < x + 1
      OBVIOUS
    <3> QED BY ONLY <3>1, <3>2, <3>3
  <2>3. ASSUME NEW d \in Nat, d \in T PROVE d + 1 \in T
    <3> SUFFICES ASSUME r + (d + 1) + 1 <= m PROVE b(r) < a(r + (d + 1) + 1)
      OBVIOUS
    <3>1. PICK s : s = r + (d + 1) + 1
      OBVIOUS
    <3>2. s \in 2..m /\ s - 1 = r + d + 1 /\ r + d + 1 <= m /\ s - 1 \in 1..m
      BY <1>2, <1>6, <3>1
    <3>3. b(r) < a(s - 1)
      BY <2>3, <3>2
    <3>4. a(s) = b(s - 1) + 1
      BY ONLY <2>1, <3>2
    <3>5. a(s - 1) <= b(s - 1) /\ a(s - 1) \in Nat /\ b(s - 1) \in Nat /\ b(r) \in Nat
      BY ONLY <1>3, <1>4, <1>6, <3>2
    <3>6. \A x, y, z \in Nat : x < y /\ y <= z => x < z + 1
      OBVIOUS
    <3> QED BY ONLY <3>1, <3>3, <3>4, <3>5, <3>6
  <2>4. \A d \in Nat : d \in T
    <3> HIDE DEF T
    <3> QED BY ONLY <2>2, <2>3, Induction
  <2>5. PICK d : d = q - r - 1
    OBVIOUS
  <2>6. d \in Nat /\ r + d + 1 = q /\ q <= m
    BY <1>2, <1>6, <2>5
  <2>7. r + d + 1 <= m => b(r) < a(r + d + 1)
    BY <2>4, <2>6
  <2> QED BY ONLY <2>6, <2>7
<1>7. ASSUME NEW i, i \in 1..n PROVE \E s \in 1..m : a(s) <= i /\ i <= b(s)
  <2> DEFINE T == {k \in Nat : k \in 1..m /\ i <= b(k)}
  <2>1. m \in T
    <3>1. m > 0 /\ m \in 1..m
      BY <1>2, <1>4, <1>7
    <3>2. b(m) = n
      BY ONLY <1>4, <3>1
    <3>3. i <= n
      BY <1>7
    <3> QED BY ONLY <1>2, <3>1, <3>2, <3>3
  <2>2. PICK k \in T : \A j \in T : k <= j
    <3>1. T \subseteq Nat /\ T # {}
      BY <2>1
    <3> HIDE DEF T
    <3> QED BY ONLY <3>1, LeastNumber
  <2>3. k \in 1..m /\ i <= b(k)
    BY <2>2
  <2>4. a(k) <= i
    <3>1. CASE k = 1
      <4>1. a(k) = 1
        BY ONLY <1>4, <2>3, <3>1
      <4>2. 1 <= i
        BY <1>7
      <4> QED BY ONLY <4>1, <4>2
    <3>2. CASE k # 1
      <4>1. PICK j : j = k - 1
        OBVIOUS
      <4>2. j \in 1..m /\ ~(k <= j)
        BY <1>2, <2>3, <3>2, <4>1
      <4>3. ~(i <= b(j))
        BY <2>2, <4>2
      <4>4. a(k) = b(j) + 1 /\ b(j) \in Nat
        BY ONLY <1>3, <1>4, <2>3, <3>2, <4>1, <4>2
      <4>5. \A x \in Nat : ~(i <= x) => x + 1 <= i
        BY <1>7
      <4> QED BY ONLY <4>3, <4>4, <4>5
    <3> QED BY <3>1, <3>2
  <2> QED BY ONLY <2>3, <2>4
<1> QED BY ONLY <1>2, <1>5, <1>6, <1>7

\* How many keys are smaller.
RankOf(key, m, r) == Cardinality({q \in 1..m : key[q] < key[r]})

\* Keys that differ ...
Keys(key, m) == key \in [1..m -> Nat] /\ \A r, q \in 1..m : key[r] = key[q] => r = q

\* They have ranks from 0 on.
Ranked(key, m) ==
  /\ \A r, q \in 1..m : key[r] < key[q] => RankOf(key, m, r) < RankOf(key, m, q)
  /\ \A r, q \in 1..m : RankOf(key, m, r) = RankOf(key, m, q) => r = q
  /\ \A k \in 1..m : \E r \in 1..m : RankOf(key, m, r) = k - 1
  /\ \A r \in 1..m : RankOf(key, m, r) \in 0..m - 1

\* Keys that differ are ranked.
LEMMA RanksAre ==
  ASSUME NEW m, m \in Nat, NEW key, Keys(key, m)
  PROVE  Ranked(key, m)
<1>0. key \in [1..m -> Nat] /\ \A r, q \in 1..m : key[r] = key[q] => r = q
  BY DEF Keys
<1> DEFINE less(r) == {q \in 1..m : key[q] < key[r]}
           rank(r) == RankOf(key, m, r)
<1>1. IsFiniteSet(1..m) /\ Cardinality(1..m) = m
  <2>1. 1 \in Int /\ m \in Int /\ (IF 1 > m THEN 0 ELSE m - 1 + 1) = m
    OBVIOUS
  <2> QED BY <2>1, FS_Interval
<1>2. ASSUME NEW r, r \in 1..m
      PROVE  less(r) \in SUBSET (1..m) /\ r \notin less(r) /\ IsFiniteSet(less(r))
             /\ rank(r) \in 0..m - 1
  <2>1. less(r) \in SUBSET (1..m)
    OBVIOUS
  <2>2. r \notin less(r)
    BY <1>0, <1>2
  <2>3. IsFiniteSet(less(r)) /\ Cardinality(less(r)) <= Cardinality(1..m)
        /\ (Cardinality(1..m) = Cardinality(less(r)) => 1..m = less(r))
    <3> HIDE DEF less
    <3> QED BY ONLY <1>1, <2>1, FS_Subset
  <2>4. Cardinality(less(r)) \in Nat
    BY <2>3, FS_CardinalityType
  <2>5. Cardinality(less(r)) # m
    BY ONLY <1>1, <1>2, <2>2, <2>3
  <2>6. rank(r) = Cardinality(less(r))
    BY DEF RankOf
  <2>7. \A c \in Nat : c <= m /\ c # m => c \in 0..m - 1
    OBVIOUS
  <2> QED BY ONLY <1>1, <2>1, <2>2, <2>3, <2>4, <2>5, <2>6, <2>7
<1>3. ASSUME NEW r, r \in 1..m, NEW q, q \in 1..m, key[r] < key[q] PROVE rank(r) < rank(q)
  <2>1. key[r] \in Nat /\ key[q] \in Nat /\ \A s \in 1..m : key[s] \in Nat
    BY <1>0, <1>3
  <2>2. less(r) \in SUBSET less(q) /\ r \in less(q)
    BY <1>3, <2>1
  <2>3. less(r) # less(q)
    BY ONLY <1>2, <1>3, <2>2
  <2>4. IsFiniteSet(less(q)) /\ IsFiniteSet(less(r))
    BY ONLY <1>2, <1>3
  <2>5. rank(r) = Cardinality(less(r)) /\ rank(q) = Cardinality(less(q))
    BY DEF RankOf
  <2> HIDE DEF less
  <2>6. Cardinality(less(r)) <= Cardinality(less(q))
        /\ (Cardinality(less(q)) = Cardinality(less(r)) => less(q) = less(r))
    BY ONLY <2>2, <2>4, FS_Subset
  <2>7. Cardinality(less(r)) # Cardinality(less(q))
    BY ONLY <2>3, <2>6
  <2>8. Cardinality(less(r)) \in Nat /\ Cardinality(less(q)) \in Nat
    BY ONLY <2>4, FS_CardinalityType
  <2>9. \A x, y \in Nat : x <= y /\ x # y => x < y
    OBVIOUS
  <2> QED BY ONLY <2>5, <2>6, <2>7, <2>8, <2>9
<1>4. ASSUME NEW r, r \in 1..m, NEW q, q \in 1..m, rank(r) = rank(q) PROVE r = q
  <2>1. key[r] \in Nat /\ key[q] \in Nat
    BY <1>0, <1>4
  <2>2. rank(r) \in Nat /\ rank(q) \in Nat
    <3>1. rank(r) \in 0..m - 1 /\ rank(q) \in 0..m - 1
      BY ONLY <1>2, <1>4
    <3>2. \A x \in 0..m - 1 : x \in Nat
      OBVIOUS
    <3> QED BY ONLY <3>1, <3>2
  <2>3. ~(key[r] < key[q]) /\ ~(key[q] < key[r])
    <3>1. \A x, y \in Nat : x < y => x # y
      OBVIOUS
    <3> QED BY ONLY <1>3, <1>4, <2>2, <3>1
  <2>4. key[r] = key[q]
    BY ONLY <2>1, <2>3
  <2> QED BY ONLY <1>0, <1>4, <2>4
<1>5. \A k \in 1..m : \E r \in 1..m : rank(r) = k - 1
  <2> DEFINE A == 1..m
             B == 0..m - 1
             f == [r \in A |-> rank(r)]
  <2>1. IsFiniteSet(B) /\ Cardinality(B) = m
    <3>1. 0 \in Int /\ m - 1 \in Int /\ (IF 0 > m - 1 THEN 0 ELSE (m - 1) - 0 + 1) = m
      OBVIOUS
    <3> QED BY ONLY <3>1, FS_Interval
  <2>2. f \in Injection(A, B)
    <3>1. f \in [A -> B]
      BY <1>2
    <3>2. \A a, b \in A : f[a] = f[b] => a = b
      BY <1>4
    <3> HIDE DEF f, A, B
    <3> QED BY ONLY <3>1, <3>2 DEF Injection, IsInjective
  <2>3. f \in Surjection(A, B)
    <3>1. Cardinality(A) = Cardinality(B)
      BY <1>1, <2>1
    <3> HIDE DEF f, A, B
    <3> QED BY ONLY <2>1, <2>2, <3>1, FS_Injection
  <2>4. \A t \in B : \E s \in A : f[s] = t
    <3> HIDE DEF f, A, B
    <3> QED BY ONLY <2>3 DEF Surjection
  <2>5. ASSUME NEW k, k \in 1..m PROVE \E r \in 1..m : rank(r) = k - 1
    <3>1. k - 1 \in B
      BY <2>5
    <3>2. PICK s \in A : f[s] = k - 1
      BY ONLY <2>4, <3>1
    <3> QED BY <3>2
  <2> QED BY <2>5
<1> QED BY ONLY <1>2, <1>3, <1>4, <1>5 DEF Ranked

\* The place of the leftmost letter of a run.
Leftmost(run, levels) == Min({VisualPlace(levels, i) : i \in run.first..run.last})

\* The runs of one direction follow one another; in each the levels are even or
\* odd alike.
LEMMA LogRunsAre ==
  ASSUME NEW levels, levels \in Seq({0, 1, 2})
  PROVE  /\ Cover(LogRuns(levels), Len(levels))
         /\ Uniform(LogRuns(levels), [i \in 1..Len(levels) |-> levels[i] % 2])
<1>1. PICK p : p = [i \in 1..Len(levels) |-> levels[i] % 2]
  OBVIOUS
<1>2. DOMAIN levels = 1..Len(levels) /\ Len(levels) \in Nat
  OBVIOUS
<1>3. Len(p) = Len(levels)
  BY ONLY <1>1, <1>2
<1>4. LogRuns(levels) = Stretches(p)
  BY ONLY <1>1, <1>2 DEF LogRuns
<1>5. Cover(Stretches(p), Len(p)) /\ Uniform(Stretches(p), p)
  BY ONLY <1>2, <1>3, StretchesCover
<1> QED BY ONLY <1>1, <1>3, <1>4, <1>5

\* The leftmost place of a run is the place of one of its letters.
LEMMA LeftmostIs ==
  ASSUME NEW levels, levels \in Seq({0, 1, 2}), NEW a, NEW b, a \in 1..Len(levels),
         b \in 1..Len(levels), a <= b, NEW run, run.first = a, run.last = b
  PROVE  /\ \E i \in 1..Len(levels) : a <= i /\ i <= b /\ Leftmost(run, levels) = VisualPlace(levels, i)
         /\ \A i \in 1..Len(levels) : a <= i /\ i <= b => Leftmost(run, levels) <= VisualPlace(levels, i)
         /\ Leftmost(run, levels) \in Nat
         /\ VisRun(run, levels, VisualMap(levels)).visPos = Leftmost(run, levels)
<1>1. PICK n : n = Len(levels) /\ n \in Nat
  OBVIOUS
<1>2. \A i \in a..b : i \in 1..n
  BY <1>1
<1>3. \A i \in 1..n : VisualPlace(levels, i) \in Nat /\ PlaceOf(VisualMap(levels), i) = VisualPlace(levels, i)
  <2>1. \A i \in 1..n : VisualPlace(levels, i) \in 1..n /\ PlaceOf(VisualMap(levels), i) = VisualPlace(levels, i)
    BY <1>1, PlacesAre
  <2>2. \A x \in 1..n : x \in Nat
    OBVIOUS
  <2> QED BY ONLY <2>1, <2>2
<1>4. PICK T : T = {VisualPlace(levels, i) : i \in a..b}
  OBVIOUS
<1>5. T \subseteq Nat
  BY ONLY <1>2, <1>3, <1>4
<1>6. a \in a..b
  BY <1>1
<1>7. T # {}
  BY ONLY <1>4, <1>6
<1>8. Min(T) \in T /\ \A x \in T : Min(T) <= x
  BY ONLY <1>5, <1>7, MinIs
<1>9. Leftmost(run, levels) = Min(T)
  BY ONLY <1>4, run.first = a, run.last = b DEF Leftmost
<1>10. PICK i : i \in a..b /\ Min(T) = VisualPlace(levels, i)
  BY ONLY <1>4, <1>8
<1>11. i \in 1..n /\ a <= i /\ i <= b
  BY <1>1, <1>10
<1>12. \A j \in 1..n : a <= j /\ j <= b => VisualPlace(levels, j) \in T
  <2>1. \A j \in 1..n : a <= j /\ j <= b => j \in a..b
    BY <1>1
  <2> QED BY ONLY <1>4, <2>1
<1>13. VisRun(run, levels, VisualMap(levels)).visPos = Min(T)
  <2>1. T = {PlaceOf(VisualMap(levels), j) : j \in a..b}
    BY ONLY <1>2, <1>3, <1>4
  <2>2. VisRun(run, levels, VisualMap(levels)).visPos
          = Min({PlaceOf(VisualMap(levels), j) : j \in run.first..run.last})
    BY DEF VisRun
  <2> QED BY ONLY <2>1, <2>2, run.first = a, run.last = b
<1> QED BY ONLY <1>1, <1>5, <1>8, <1>9, <1>10, <1>11, <1>12, <1>13

\* In the order o the runs of one direction are split off.
SplitBy(o, levels, m) ==
  /\ o \in [1..m -> 1..m]
  /\ SplitDirectionalRuns(levels)
       = [d \in 1..m |-> VisRun(LogRuns(levels)[o[d]], levels, VisualMap(levels))]
  /\ \A r \in 1..m : \E d \in 1..m : o[d] = r
  /\ \A d, e \in 1..m : d < e => Leftmost(LogRuns(levels)[o[d]], levels)
                                   < Leftmost(LogRuns(levels)[o[e]], levels)

\* That is the order of their leftmost letters.
LEMMA SplitIs ==
  ASSUME NEW levels, levels \in Seq({0, 1, 2})
  PROVE  Len(LogRuns(levels)) \in Nat /\ \E o : SplitBy(o, levels, Len(LogRuns(levels)))
<1>1. PICK n : n = Len(levels) /\ n \in Nat
  OBVIOUS
<1>2. PICK runs, map : runs = LogRuns(levels) /\ map = VisualMap(levels)
  OBVIOUS
<1>3. Cover(runs, n)
  BY <1>1, <1>2, LogRunsAre
<1>4. /\ Len(runs) \in Nat
      /\ \A s \in 1..Len(runs) : /\ runs[s].first \in 1..n /\ runs[s].last \in 1..n
                                 /\ runs[s].first <= runs[s].last
      /\ \A r, q \in 1..Len(runs) : r < q => runs[r].last < runs[q].first
  BY ONLY <1>1, <1>3, CoverIs
<1>5. PICK m : m = Len(runs) /\ m \in Nat
  BY ONLY <1>4
<1>6. DOMAIN runs = 1..m
  BY <1>3, <1>5 DEF Cover
<1> DEFINE L(r) == Leftmost(runs[r], levels)
           key == [r \in 1..m |-> L(r)]
<1>7. \A r \in 1..m :
        /\ \E i \in 1..n : runs[r].first <= i /\ i <= runs[r].last /\ L(r) = VisualPlace(levels, i)
        /\ L(r) \in Nat /\ VisRun(runs[r], levels, map).visPos = L(r)
  <2> SUFFICES ASSUME NEW r, r \in 1..m
               PROVE  /\ \E i \in 1..n : runs[r].first <= i /\ i <= runs[r].last
                                         /\ L(r) = VisualPlace(levels, i)
                      /\ L(r) \in Nat /\ VisRun(runs[r], levels, map).visPos = L(r)
    OBVIOUS
  <2>1. PICK run, a, b : run = runs[r] /\ a = run.first /\ b = run.last
    OBVIOUS
  <2>2. a \in 1..Len(levels) /\ b \in 1..Len(levels) /\ a <= b
    BY ONLY <1>1, <1>4, <1>5, <2>1, r \in 1..m
  <2>3. /\ \E i \in 1..Len(levels) : a <= i /\ i <= b /\ Leftmost(run, levels) = VisualPlace(levels, i)
        /\ Leftmost(run, levels) \in Nat
        /\ VisRun(run, levels, VisualMap(levels)).visPos = Leftmost(run, levels)
    BY ONLY <2>1, <2>2, levels \in Seq({0, 1, 2}), LeftmostIs
  <2> QED BY ONLY <1>1, <1>2, <2>1, <2>3
<1>8. key \in [1..m -> Nat] /\ \A r \in 1..m : key[r] = L(r)
  BY <1>7
<1>9. \A r, q \in 1..m : key[r] = key[q] => r = q
  <2> SUFFICES ASSUME NEW r, NEW q, r \in 1..m, q \in 1..m, key[r] = key[q], r # q PROVE FALSE
    OBVIOUS
  <2>1. PICK i : i \in 1..n /\ runs[r].first <= i /\ i <= runs[r].last /\ L(r) = VisualPlace(levels, i)
    BY ONLY <1>7, r \in 1..m
  <2>2. PICK j : j \in 1..n /\ runs[q].first <= j /\ j <= runs[q].last /\ L(q) = VisualPlace(levels, j)
    BY ONLY <1>7, q \in 1..m
  <2>3. VisualPlace(levels, i) = VisualPlace(levels, j)
    BY ONLY <1>8, <2>1, <2>2, key[r] = key[q], r \in 1..m, q \in 1..m
  <2>4. i = j
    BY ONLY <1>1, <2>1, <2>2, <2>3, levels \in Seq({0, 1, 2}), PlacesAre
  <2>5. r < q \/ q < r
    BY <1>5
  <2>6. runs[r].last < runs[q].first \/ runs[q].last < runs[r].first
    BY ONLY <1>4, <1>5, <2>5, r \in 1..m, q \in 1..m
  <2>7. \A x, y, z \in 1..n : ~(x < y /\ y <= z /\ z <= x)
    OBVIOUS
  <2>8. runs[r].first \in 1..n /\ runs[q].first \in 1..n /\ runs[r].last \in 1..n
        /\ runs[q].last \in 1..n
    BY ONLY <1>4, <1>5, r \in 1..m, q \in 1..m
  <2> QED BY ONLY <2>1, <2>2, <2>4, <2>6, <2>7, <2>8
<1> HIDE DEF L, key
<1>10. /\ \A r, q \in 1..m : key[r] < key[q] => RankOf(key, m, r) < RankOf(key, m, q)
       /\ \A r, q \in 1..m : RankOf(key, m, r) = RankOf(key, m, q) => r = q
       /\ \A k \in 1..m : \E r \in 1..m : RankOf(key, m, r) = k - 1
       /\ \A r \in 1..m : RankOf(key, m, r) \in 0..m - 1
  <2>1. Keys(key, m)
    BY ONLY <1>8, <1>9 DEF Keys
  <2>2. Ranked(key, m)
    BY ONLY <1>5, <2>1, RanksAre
  <2> QED BY ONLY <2>2 DEF Ranked
<1> DEFINE vis == [r \in DOMAIN runs |-> VisRun(runs[r], levels, map)]
           Left(r) == {q \in DOMAIN runs : vis[q].visPos < vis[r].visPos}
           o == [k \in 1..m |-> CHOOSE r \in 1..m : RankOf(key, m, r) = k - 1]
<1>11. \A r \in 1..m : Cardinality(Left(r)) = RankOf(key, m, r)
  <2>1. \A q \in 1..m : vis[q].visPos = key[q]
    BY ONLY <1>6, <1>7, <1>8
  <2>2. \A r \in 1..m : Left(r) = {q \in 1..m : key[q] < key[r]}
    <3> HIDE DEF vis
    <3> QED BY ONLY <1>6, <2>1
  <2> HIDE DEF Left
  <2> QED BY ONLY <2>2 DEF RankOf
<1>12. SplitDirectionalRuns(levels) = [k \in 1..m |-> VisRun(runs[o[k]], levels, map)]
  <2>1. SplitDirectionalRuns(levels)
          = [k \in DOMAIN runs |-> vis[CHOOSE r \in DOMAIN runs : Cardinality(Left(r)) = k - 1]]
    BY ONLY <1>2 DEF SplitDirectionalRuns, VisRuns
  <2> HIDE DEF Left
  <2>2. \A k : (CHOOSE r \in 1..m : Cardinality(Left(r)) = k - 1)
                 = CHOOSE r \in 1..m : RankOf(key, m, r) = k - 1
    BY ONLY <1>11
  <2>3. \A k \in 1..m : o[k] \in 1..m
    BY ONLY <1>10
  <2>4. SplitDirectionalRuns(levels) = [k \in 1..m |-> vis[o[k]]]
    <3> HIDE DEF vis
    <3> QED BY ONLY <1>6, <2>1, <2>2
  <2> HIDE DEF o
  <2>5. \A k \in 1..m : vis[o[k]] = VisRun(runs[o[k]], levels, map)
    BY ONLY <1>6, <2>3
  <2> HIDE DEF vis
  <2> QED BY ONLY <2>4, <2>5
<1>13. \A k \in 1..m : o[k] \in 1..m /\ RankOf(key, m, o[k]) = k - 1
  BY ONLY <1>10
<1>14. o \in [1..m -> 1..m]
  BY ONLY <1>13
<1> HIDE DEF o, vis, Left
<1>15. \A r \in 1..m : \E d \in 1..m : o[d] = r
  <2> SUFFICES ASSUME NEW r, r \in 1..m PROVE \E d \in 1..m : o[d] = r
    OBVIOUS
  <2>1. RankOf(key, m, r) \in 0..m - 1
    BY ONLY <1>10, r \in 1..m
  <2>2. PICK d : d = RankOf(key, m, r) + 1
    OBVIOUS
  <2>3. d \in 1..m /\ d - 1 = RankOf(key, m, r)
    BY ONLY <1>5, <2>1, <2>2
  <2> QED BY ONLY <1>10, <1>13, <2>3, r \in 1..m
<1>16. \A d, e \in 1..m : d < e => L(o[d]) < L(o[e])
  <2> SUFFICES ASSUME NEW d, NEW e, d \in 1..m, e \in 1..m, d < e, ~(L(o[d]) < L(o[e]))
               PROVE  FALSE
    OBVIOUS
  <2>1. o[d] \in 1..m /\ o[e] \in 1..m
    BY ONLY <1>13, d \in 1..m, e \in 1..m
  <2>2. L(o[d]) \in Nat /\ L(o[e]) \in Nat /\ L(o[d]) = key[o[d]] /\ L(o[e]) = key[o[e]]
    BY ONLY <1>7, <1>8, <2>1
  <2>3. key[o[e]] < key[o[d]] \/ key[o[e]] = key[o[d]]
    <3>1. \A x, y \in Nat : ~(x < y) => y < x \/ y = x
      OBVIOUS
    <3> QED BY ONLY <2>2, <3>1, ~(L(o[d]) < L(o[e]))
  <2>4. RankOf(key, m, o[e]) < RankOf(key, m, o[d]) \/ o[e] = o[d]
    BY ONLY <1>9, <1>10, <2>1, <2>3
  <2>5. RankOf(key, m, o[d]) = d - 1 /\ RankOf(key, m, o[e]) = e - 1
    BY ONLY <1>13, d \in 1..m, e \in 1..m
  <2>6. e - 1 < d - 1 \/ e - 1 = d - 1
    BY ONLY <2>4, <2>5
  <2> QED BY ONLY <1>5, <2>6, d \in 1..m, e \in 1..m, d < e
<1>17. SplitBy(o, levels, m)
  <2>1. \A d, e \in 1..m : d < e => Leftmost(runs[o[d]], levels) < Leftmost(runs[o[e]], levels)
    BY ONLY <1>16 DEF L
  <2> QED BY ONLY <1>2, <1>12, <1>14, <1>15, <2>1 DEF SplitBy
<1> QED BY ONLY <1>2, <1>5, <1>17
-----------------------------------------------------------------------------
(* Spans *)

\* A part of a sequence.
LEMMA SubSeqIs ==
  ASSUME NEW S, NEW s, s \in Seq(S), NEW a, NEW b, a \in 1..Len(s), b \in 1..Len(s), a <= b
  PROVE  /\ SubSeq(s, a, b) \in Seq(S) /\ Len(SubSeq(s, a, b)) = b - a + 1
         /\ \A k \in 1..b - a + 1 : SubSeq(s, a, b)[k] = s[a + k - 1]
<1>1. Len(s) \in Nat /\ a \in 1..Len(s) + 1 /\ b \in a - 1..Len(s)
  OBVIOUS
<1>2. /\ SubSeq(s, a, b) \in Seq(S) /\ Len(SubSeq(s, a, b)) = b - a + 1
      /\ \A i \in 1..b - a + 1 : SubSeq(s, a, b)[i] = s[a + i - 1]
  BY ONLY <1>1, s \in Seq(S), SubSeqProperties
<1> QED BY ONLY <1>2

\* The parts of a sequence that stretches name.
Sections(s, sp) == [r \in 1..Len(sp) |-> SubSeq(s, sp[r].first, sp[r].last)]

\* They are parts that make up the sequence.
LEMMA SectionsAre ==
  ASSUME NEW S, NEW s, s \in Seq(S), NEW sp, Cover(sp, Len(s))
  PROVE  /\ Sections(s, sp) \in Seq(Seq(S)) /\ Len(Sections(s, sp)) = Len(sp)
         /\ \A r \in 1..Len(sp) : Sections(s, sp)[r] = SubSeq(s, sp[r].first, sp[r].last)
         /\ FlattenSeq(Sections(s, sp)) = s
<1>1. PICK n : n = Len(s) /\ n \in Nat
  OBVIOUS
<1>2. /\ Len(sp) \in Nat
      /\ \A r \in 1..Len(sp) : /\ sp[r].first \in 1..n /\ sp[r].last \in 1..n
                               /\ sp[r].first <= sp[r].last
  BY ONLY <1>1, Cover(sp, Len(s)), CoverIs
<1>3. PICK m : m = Len(sp) /\ m \in Nat
  BY <1>2
<1>4. PICK ss : ss = Sections(s, sp)
  OBVIOUS
<1>5. ss = [r \in 1..m |-> SubSeq(s, sp[r].first, sp[r].last)]
  BY ONLY <1>3, <1>4 DEF Sections
<1>6. ASSUME NEW r, r \in 1..m
      PROVE  /\ ss[r] \in Seq(S) /\ Len(ss[r]) = sp[r].last - sp[r].first + 1
             /\ \A k \in 1..Len(ss[r]) : ss[r][k] = s[sp[r].first + k - 1]
  <2>1. PICK a, b : a = sp[r].first /\ b = sp[r].last
    OBVIOUS
  <2>2. a \in 1..Len(s) /\ b \in 1..Len(s) /\ a <= b
    BY ONLY <1>1, <1>2, <1>3, <1>6, <2>1
  <2>3. /\ SubSeq(s, a, b) \in Seq(S) /\ Len(SubSeq(s, a, b)) = b - a + 1
        /\ \A k \in 1..b - a + 1 : SubSeq(s, a, b)[k] = s[a + k - 1]
    BY ONLY <2>2, s \in Seq(S), SubSeqIs
  <2>4. ss[r] = SubSeq(s, a, b)
    BY ONLY <1>5, <1>6, <2>1
  <2> QED BY ONLY <2>1, <2>3, <2>4
<1>7. ss \in Seq(Seq(S)) /\ Len(ss) = m
  <2> DEFINE SS == Seq(S)
  <2>1. \A r \in 1..m : ss[r] \in SS
    BY <1>6
  <2> HIDE DEF SS
  <2>2. ss = [r \in 1..m |-> ss[r]]
    BY ONLY <1>5
  <2>3. ss \in [1..m -> SS]
    BY ONLY <2>1, <2>2
  <2>4. ss \in Seq(SS) /\ Len(ss) = m
    BY ONLY <1>3, <2>2, <2>3
  <2> QED BY ONLY <2>4 DEF SS
<1>8. /\ EndOf(ss, 0) = 0 /\ EndOf(ss, m) = Len(FlattenSeq(ss))
      /\ \A r \in 0..m : EndOf(ss, r) \in Nat
      /\ \A r \in 1..m : EndOf(ss, r) = EndOf(ss, r - 1) + Len(ss[r])
  BY ONLY <1>7, Ends
<1>9. /\ \A r \in 1..m : sp[r].first = IF r = 1 THEN 1 ELSE sp[r - 1].last + 1
      /\ m = 0 => n = 0
      /\ m > 0 => sp[m].last = n
  BY ONLY <1>1, <1>3, Cover(sp, Len(s)) DEF Cover
<1> DEFINE T == {r \in Nat : r \in 1..m => EndOf(ss, r) = sp[r].last}
<1>10. ASSUME NEW r, r \in 1..m, r - 1 \in 1..m => EndOf(ss, r - 1) = sp[r - 1].last
       PROVE  EndOf(ss, r) = sp[r].last /\ EndOf(ss, r - 1) + 1 = sp[r].first
  <2>1. PICK a, b, e : a = sp[r].first /\ b = sp[r].last /\ e = EndOf(ss, r - 1)
    OBVIOUS
  <2>2. a \in 1..n /\ b \in 1..n
    BY ONLY <1>2, <1>3, <1>10, <2>1
  <2>3. e + 1 = a /\ e \in Nat
    <3>1. CASE r = 1
      <4>1. r - 1 = 0
        BY ONLY <3>1
      <4>2. e = 0 /\ a = 1
        BY ONLY <1>8, <1>9, <1>10, <2>1, <3>1, <4>1
      <4> QED BY ONLY <4>2
    <3>2. CASE r # 1
      <4>1. r - 1 \in 1..m
        BY <1>3, <1>10, <3>2
      <4>2. PICK c : c = sp[r - 1].last /\ c \in 1..n
        BY ONLY <1>2, <1>3, <4>1
      <4>3. e = c /\ a = c + 1
        BY ONLY <1>9, <1>10, <2>1, <3>2, <4>1, <4>2
      <4> QED BY <1>1, <4>2, <4>3
    <3> QED BY <3>1, <3>2
  <2>4. EndOf(ss, r) = e + (b - a + 1)
    BY ONLY <1>6, <1>8, <1>10, <2>1
  <2>5. \A x, y, z \in Int : x + 1 = y => x + (z - y + 1) = z
    OBVIOUS
  <2>6. e \in Int /\ a \in Int /\ b \in Int
    BY <1>1, <2>2, <2>3
  <2> QED BY ONLY <2>1, <2>3, <2>4, <2>5, <2>6
<1>11. \A r \in Nat : r \in T
  <2>1. 0 \in T
    BY <1>3
  <2>2. ASSUME NEW r, r \in Nat, r \in T PROVE r + 1 \in T
    <3> SUFFICES ASSUME r + 1 \in 1..m PROVE EndOf(ss, r + 1) = sp[r + 1].last
      BY <2>2
    <3>1. PICK q : q = r + 1 /\ q - 1 = r
      BY <2>2
    <3>2. q - 1 \in 1..m => EndOf(ss, q - 1) = sp[q - 1].last
      BY <2>2, <3>1
    <3>3. EndOf(ss, q) = sp[q].last
      BY ONLY <1>10, <3>1, <3>2, r + 1 \in 1..m
    <3> QED BY ONLY <3>1, <3>3
  <2> HIDE DEF T
  <2> QED BY ONLY <2>1, <2>2, Induction
<1>12. \A r \in 1..m : EndOf(ss, r) = sp[r].last /\ EndOf(ss, r - 1) + 1 = sp[r].first
  <2>1. \A r : r \in 1..m => EndOf(ss, r) = sp[r].last
    BY <1>11
  <2> QED BY ONLY <1>10, <2>1
<1> HIDE DEF T
<1>13. FlattenSeq(ss) \in Seq(S)
  BY ONLY <1>7, FlattenType
<1>14. Len(FlattenSeq(ss)) = n
  <2>1. CASE m = 0
    BY ONLY <1>8, <1>9, <2>1
  <2>2. CASE m # 0
    <3>1. m \in 1..m /\ m > 0
      BY <1>3, <2>2
    <3> QED BY ONLY <1>8, <1>9, <1>12, <3>1
  <2> QED BY <2>1, <2>2
<1>15. \A i \in 1..n : FlattenSeq(ss)[i] = s[i]
  <2> SUFFICES ASSUME NEW i, i \in 1..n PROVE FlattenSeq(ss)[i] = s[i]
    OBVIOUS
  <2>1. i \in 1..Len(FlattenSeq(ss))
    BY ONLY <1>14, i \in 1..n
  <2>2. PICK r \in 1..Len(ss) : \E k \in 1..Len(ss[r]) :
          i = EndOf(ss, r - 1) + k /\ FlattenSeq(ss)[i] = ss[r][k]
    BY ONLY <1>7, <2>1, FlattenFrom
  <2>3. PICK k : k \in 1..Len(ss[r]) /\ i = EndOf(ss, r - 1) + k /\ FlattenSeq(ss)[i] = ss[r][k]
    BY ONLY <2>2
  <2>4. r \in 1..m
    BY ONLY <1>7, <2>2
  <2>5. PICK e, a : e = EndOf(ss, r - 1) /\ a = sp[r].first /\ e + 1 = a
    BY ONLY <1>12, <2>4
  <2>6. ss[r][k] = s[a + k - 1]
    BY ONLY <1>6, <2>3, <2>4, <2>5
  <2>7. e \in Nat /\ k \in Int
    <3>1. r - 1 \in 0..m
      BY <1>3, <2>4
    <3>2. e \in Nat
      BY ONLY <1>8, <2>5, <3>1
    <3>3. k \in Int
      BY ONLY <2>3
    <3> QED BY ONLY <3>2, <3>3
  <2>8. a + k - 1 = e + k
    BY ONLY <2>5, <2>7
  <2> QED BY ONLY <2>3, <2>5, <2>6, <2>8
<1>16. FlattenSeq(ss) = s
  BY ONLY <1>1, <1>13, <1>14, <1>15, s \in Seq(S), SeqEqual
<1>17. \A r \in 1..m : ss[r] = SubSeq(s, sp[r].first, sp[r].last)
  BY ONLY <1>5
<1> QED BY ONLY <1>3, <1>4, <1>7, <1>16, <1>17

\* Its fonts notwithstanding, a run is shaped in one direction.
LEMMA ShapedIs ==
  ASSUME NEW S, NEW view, view \in Seq(S), NEW rtl
  PROVE  Shaped(view, rtl) = Turn(rtl, view)
<1>1. PICK n : n = Len(view) /\ n \in Nat /\ DOMAIN view = 1..n
  OBVIOUS
<1>2. PICK sp : sp = Spans(view)
  OBVIOUS
<1>3. Cover(sp, n)
  <2>1. PICK f : f = [v \in DOMAIN view |-> view[v].fallback]
    OBVIOUS
  <2>2. Len(f) = n
    BY ONLY <1>1, <2>1
  <2>3. Len(f) \in Nat
    BY ONLY <1>1, <2>2
  <2>4. sp = Stretches(f)
    BY ONLY <1>2, <2>1 DEF Spans
  <2>5. Cover(Stretches(f), Len(f))
    BY ONLY <2>3, StretchesCover
  <2> QED BY ONLY <2>2, <2>4, <2>5
<1>4. sp \in Seq(Stretch)
  BY ONLY <1>3 DEF Cover
<1>5. PICK m : m = Len(sp) /\ m \in Nat /\ DOMAIN sp = 1..m
  BY <1>4
<1>6. PICK ss : ss = Sections(view, sp)
  OBVIOUS
<1>7. /\ ss \in Seq(Seq(S)) /\ Len(ss) = m
      /\ \A r \in 1..m : ss[r] = SubSeq(view, sp[r].first, sp[r].last)
      /\ FlattenSeq(ss) = view
  BY ONLY <1>1, <1>3, <1>5, <1>6, view \in Seq(S), SectionsAre
<1>8. CASE ~rtl
  <2>1. Turn(rtl, sp) = sp /\ Turn(rtl, view) = view
        /\ \A x : Turn(rtl, x) = x
    BY ONLY <1>8 DEF Turn
  <2>2. ss = [r \in 1..m |-> SubSeq(view, sp[r].first, sp[r].last)]
    BY ONLY <1>5, <1>6 DEF Sections
  <2>3. [s \in DOMAIN sp |-> Turn(rtl, SubSeq(view, sp[s].first, sp[s].last))] = ss
    BY ONLY <1>5, <2>1, <2>2
  <2>4. GlyphsOf(sp, view, rtl) = FlattenSeq(ss)
    BY ONLY <2>3 DEF GlyphsOf
  <2> QED BY ONLY <1>2, <1>7, <2>1, <2>4 DEF Shaped
<1>9. CASE rtl
  <2>1. PICK tp : tp = Reverse(sp)
    OBVIOUS
  <2>2. tp \in Seq(Stretch) /\ Len(tp) = m /\ \A r \in 1..m : tp[r] = sp[m - r + 1]
    BY ONLY <1>4, <1>5, <2>1, ReverseIs
  <2>3. DOMAIN tp = 1..m
    BY <2>2
  <2>4. PICK ts : ts = Reverse(ss)
    OBVIOUS
  <2>5. \A r \in 1..m : ts[r] = ss[m - r + 1]
    <3> DEFINE SS == Seq(S)
    <3>1. ss \in Seq(SS)
      BY ONLY <1>7
    <3> HIDE DEF SS
    <3> QED BY ONLY <1>7, <2>4, <3>1, ReverseIs
  <2>6. \A r \in 1..m : m - r + 1 \in 1..m
    BY <1>5
  <2>7. \A r \in 1..m : ts[r] = SubSeq(view, tp[r].first, tp[r].last)
    BY ONLY <1>7, <2>2, <2>5, <2>6
  <2>8. [s \in DOMAIN tp |-> Turn(rtl, SubSeq(view, tp[s].first, tp[s].last))]
          = [r \in 1..m |-> Reverse(ts[r])]
    <3>1. \A x : Turn(rtl, x) = Reverse(x)
      BY ONLY <1>9 DEF Turn
    <3> QED BY ONLY <2>3, <2>7, <3>1
  <2>9. GlyphsOf(tp, view, rtl) = FlattenSeq([r \in 1..m |-> Reverse(ts[r])])
    BY ONLY <2>8 DEF GlyphsOf
  <2>10. Reverse(FlattenSeq(ss)) = FlattenSeq([r \in 1..m |-> Reverse(ts[r])])
    BY ONLY <1>7, <2>4, FlattenReverse
  <2>11. Turn(rtl, sp) = tp /\ Turn(rtl, view) = Reverse(view)
    BY ONLY <1>9, <2>1 DEF Turn
  <2> QED BY ONLY <1>2, <1>7, <2>9, <2>10, <2>11 DEF Shaped
<1> QED BY ONLY <1>8, <1>9
-----------------------------------------------------------------------------
(* The view of a run *)

\* A letter of a view.
Shape == [cp: Cps, at: Nat, from: Nat, fallback: BOOLEAN]

\* The letter is written with the fallback font.
Falls(cp, fonts) ==
  ~HasGlyph(fonts.primary, cp) /\ Covers(fonts.fallback, NormalizeForFace(cp, fonts.fallback))

\* What it is written with.
Writing(cp, fonts) ==
  IF Falls(cp, fonts) THEN NormalizeForFace(cp, fonts.fallback) ELSE <<cp>>

\* In a view letter i is written w.
WrittenAs(p, w, letter, i, fonts) ==
  /\ w \in Seq(Cps) /\ p \in Seq(Shape) /\ Len(p) = Len(w)
  /\ \A k \in 1..Len(w) : /\ p[k].cp = w[k] /\ p[k].at = letter.at /\ p[k].from = i
                          /\ p[k].fallback = Falls(letter.cp, fonts)

\* That is what PieceOf writes.
LEMMA PieceIs ==
  ASSUME NEW letter, letter \in Letter, NEW i, i \in Nat, NEW fonts, fonts \in Fonts, NEW w,
         w = Writing(letter.cp, fonts), NEW p,
         p = PieceOf(letter, i, NormalizeForFace(letter.cp, fonts.fallback), fonts)
  PROVE  WrittenAs(p, w, letter, i, fonts)
<1>1. PICK cp, b : cp = letter.cp /\ b = Falls(letter.cp, fonts)
  OBVIOUS
<1>2. cp \in Cps /\ letter.at \in Nat
  BY <1>1 DEF Letter
<1>3. fonts.fallback \subseteq Letters
  BY FontsUsable
<1>4. NormalizeForFace(cp, fonts.fallback) \in Seq(Cps)
  BY ONLY <1>2, <1>3, NormalizedLetters
<1>5. w \in Seq(Cps)
  <2>1. <<cp>> \in Seq(Cps)
    BY <1>2
  <2> QED BY ONLY <1>1, <1>4, <2>1, w = Writing(letter.cp, fonts) DEF Writing
<1>6. b \in BOOLEAN
  BY <1>1 DEF Falls
<1>7. p = Piece(w, letter, i, b)
  <2>1. CASE b
    <3>1. w = NormalizeForFace(cp, fonts.fallback) /\ b = TRUE
      BY ONLY <1>1, <1>6, <2>1, w = Writing(letter.cp, fonts) DEF Writing
    <3>2. p = Piece(NormalizeForFace(cp, fonts.fallback), letter, i, TRUE)
      <4>1. ~HasGlyph(fonts.primary, cp) /\ \A k \in DOMAIN NormalizeForFace(cp, fonts.fallback) :
              HasGlyph(fonts.fallback, NormalizeForFace(cp, fonts.fallback)[k])
        BY ONLY <1>1, <2>1 DEF Falls, Covers
      <4> QED BY ONLY <1>1, <4>1,
                      p = PieceOf(letter, i, NormalizeForFace(letter.cp, fonts.fallback), fonts)
                 DEF PieceOf
    <3> QED BY ONLY <3>1, <3>2
  <2>2. CASE ~b
    <3>1. w = <<cp>> /\ b = FALSE
      BY ONLY <1>1, <1>6, <2>2, w = Writing(letter.cp, fonts) DEF Writing
    <3>2. p = Piece(<<cp>>, letter, i, FALSE)
      <4>1. ~(~HasGlyph(fonts.primary, cp) /\ \A k \in DOMAIN NormalizeForFace(cp, fonts.fallback) :
                HasGlyph(fonts.fallback, NormalizeForFace(cp, fonts.fallback)[k]))
        BY ONLY <1>1, <2>2 DEF Falls, Covers
      <4> QED BY ONLY <1>1, <4>1,
                      p = PieceOf(letter, i, NormalizeForFace(letter.cp, fonts.fallback), fonts)
                 DEF PieceOf
    <3> QED BY ONLY <3>1, <3>2
  <2> QED BY ONLY <2>1, <2>2
<1>8. PICK n : n = Len(w) /\ n \in Nat /\ DOMAIN w = 1..n /\ \A k \in 1..n : w[k] \in Cps
  BY ONLY <1>5, ElementOfSeq, LenProperties
<1>9. p = [k \in 1..n |-> [cp |-> w[k], at |-> letter.at, from |-> i, fallback |-> b]]
  BY ONLY <1>7, <1>8 DEF Piece
<1>10. ASSUME NEW x, x \in Cps
       PROVE  [cp |-> x, at |-> letter.at, from |-> i, fallback |-> b] \in Shape
  BY ONLY <1>2, <1>6, <1>10, i \in Nat DEF Shape
<1>11. p \in [1..n -> Shape]
  BY ONLY <1>8, <1>9, <1>10
<1>12. p \in Seq(Shape) /\ Len(p) = n
  BY ONLY <1>8, <1>9, <1>11
<1>13. ASSUME NEW k, k \in 1..n
       PROVE  /\ p[k].cp = w[k] /\ p[k].at = letter.at /\ p[k].from = i /\ p[k].fallback = b
  <2>1. p[k] = [cp |-> w[k], at |-> letter.at, from |-> i, fallback |-> b]
    BY ONLY <1>9, <1>13
  <2> QED BY ONLY <2>1
<1> QED BY ONLY <1>1, <1>5, <1>8, <1>12, <1>13 DEF WrittenAs

\* What the letters of a run are written with, one sequence for each.
ViewParts(text, run, fonts) ==
  [v \in 1..run.last - run.first + 1 |->
    PieceOf(text[run.first + v - 1], run.first + v - 1,
            NormalizeForFace(text[run.first + v - 1].cp, fonts.fallback), fonts)]

\* A letter of the view is one that stands for letter i of the text.
Shows(x, text, i, fonts) ==
  /\ x.at = text[i].at /\ x.from = i /\ x.fallback = Falls(text[i].cp, fonts)
  /\ \E k \in 1..Len(Writing(text[i].cp, fonts)) : x.cp = Writing(text[i].cp, fonts)[k]

\* Runs of letters.
Within(run, n) ==
  run.first \in 1..n /\ run.last \in 1..n /\ run.first <= run.last

\* The view of a run and its letters.
LEMMA ViewIs ==
  ASSUME NEW text, text \in Seq(Letter), NEW fonts, fonts \in Fonts,
         NEW run, Within(run, Len(text)), NEW vs, vs = ViewParts(text, run, fonts)
  PROVE  /\ vs \in Seq(Seq(Shape)) /\ Len(vs) = run.last - run.first + 1
         /\ View(text, run, fonts) = FlattenSeq(vs) /\ View(text, run, fonts) \in Seq(Shape)
         /\ \A v \in 1..run.last - run.first + 1 :
              vs[v] = PieceOf(text[run.first + v - 1], run.first + v - 1,
                        NormalizeForFace(text[run.first + v - 1].cp, fonts.fallback), fonts)
         /\ \A j \in 1..Len(View(text, run, fonts)) : \E i \in 1..Len(text) :
              /\ run.first <= i /\ i <= run.last
              /\ Shows(View(text, run, fonts)[j], text, i, fonts)
<1>1. PICK n, a, b, z : /\ n = Len(text) /\ a = run.first /\ b = run.last /\ z = b - a + 1
                        /\ n \in Nat /\ a \in 1..n /\ b \in 1..n /\ a <= b
  BY DEF Within
<1>2. z \in Nat /\ \A v \in 1..z : a + v - 1 \in 1..n /\ a <= a + v - 1 /\ a + v - 1 <= b
                                  /\ a + v - 1 \in Nat
  <2>1. n \in Int /\ a \in Int /\ b \in Int /\ z = b - a + 1 /\ 1 <= a /\ a <= b /\ b <= n
    BY ONLY <1>1
  <2>2. z \in Nat
    BY ONLY <2>1
  <2>3. ASSUME NEW v, v \in 1..z
        PROVE  a + v - 1 \in 1..n /\ a <= a + v - 1 /\ a + v - 1 <= b /\ a + v - 1 \in Nat
    BY ONLY <2>1, <2>2, <2>3
  <2> QED BY ONLY <2>2, <2>3
<1> DEFINE P(i) == PieceOf(text[i], i, NormalizeForFace(text[i].cp, fonts.fallback), fonts)
<1>3. vs = [v \in 1..z |-> P(a + v - 1)]
  BY ONLY <1>1, vs = ViewParts(text, run, fonts) DEF ViewParts
<1>4. View(text, run, fonts) = FlattenSeq(vs)
  BY ONLY <1>1, <1>3 DEF View
<1>5. ASSUME NEW i, i \in 1..n
      PROVE  P(i) \in Seq(Shape) /\ \A k \in 1..Len(P(i)) : Shows(P(i)[k], text, i, fonts)
  <2>1. PICK letter, w, p : /\ letter = text[i] /\ w = Writing(letter.cp, fonts)
                            /\ p = P(i)
    OBVIOUS
  <2>2. letter \in Letter /\ i \in Nat
    <3>1. i \in 1..Len(text)
      BY ONLY <1>1, <1>5
    <3>2. letter \in Letter
      BY ONLY <2>1, <3>1, text \in Seq(Letter), ElementOfSeq
    <3>3. i \in Nat
      BY ONLY <1>5
    <3> QED BY ONLY <3>2, <3>3
  <2>3. p = PieceOf(letter, i, NormalizeForFace(letter.cp, fonts.fallback), fonts)
    BY ONLY <2>1
  <2>4. WrittenAs(p, w, letter, i, fonts)
    BY ONLY <2>1, <2>2, <2>3, fonts \in Fonts, PieceIs
  <2>5. p \in Seq(Shape) /\ \A k \in 1..Len(p) : Shows(p[k], text, i, fonts)
    BY ONLY <2>1, <2>4 DEF Shows, WrittenAs
  <2> QED BY ONLY <2>1, <2>5
<1>6. \A v \in 1..z : vs[v] = P(a + v - 1)
  BY ONLY <1>3
<1> HIDE DEF P
<1>7. vs \in Seq(Seq(Shape)) /\ Len(vs) = z
  <2> DEFINE SS == Seq(Shape)
  <2>1. \A v \in 1..z : vs[v] \in SS
    BY ONLY <1>2, <1>5, <1>6
  <2> HIDE DEF SS
  <2>2. vs = [v \in 1..z |-> vs[v]]
    BY ONLY <1>3
  <2>3. vs \in [1..z -> SS]
    BY ONLY <2>1, <2>2
  <2>4. vs \in Seq(SS) /\ Len(vs) = z
    BY ONLY <1>2, <2>2, <2>3
  <2> QED BY ONLY <2>4 DEF SS
<1>8. View(text, run, fonts) \in Seq(Shape)
  BY ONLY <1>4, <1>7, FlattenType
<1>9. ASSUME NEW j, j \in 1..Len(FlattenSeq(vs))
      PROVE  \E i \in 1..n : a <= i /\ i <= b /\ Shows(FlattenSeq(vs)[j], text, i, fonts)
  <2>1. PICK v \in 1..Len(vs) : \E k \in 1..Len(vs[v]) : FlattenSeq(vs)[j] = vs[v][k]
    BY ONLY <1>7, <1>9, FlattenFrom
  <2>2. PICK i : i = a + v - 1 /\ i \in 1..n /\ a <= i /\ i <= b /\ vs[v] = P(i)
    BY ONLY <1>2, <1>6, <1>7, <2>1
  <2> QED BY ONLY <1>5, <2>1, <2>2
<1>10. \A v \in 1..z : vs[v] = PieceOf(text[a + v - 1], a + v - 1,
                                NormalizeForFace(text[a + v - 1].cp, fonts.fallback), fonts)
  BY ONLY <1>6 DEF P
<1> QED BY ONLY <1>1, <1>4, <1>7, <1>8, <1>9, <1>10
-----------------------------------------------------------------------------
(* The glyphs of a line *)

Glyph == [cp: Cps, at: Nat, fallback: BOOLEAN, style: Style]

\* Every style is one.
LEMMA StyleAtIs ==
  ASSUME NEW runs, runs \in Seq(Run), NEW T, T \subseteq 1..Len(runs)
  PROVE  StyleAt(T, runs) \in Style
<1>1. CASE T = {}
  <2>1. NoStyle \in Style
    BY MarkupAssumption DEF NoStyle, Style
  <2> QED BY ONLY <1>1, <2>1 DEF StyleAt
<1>2. CASE T # {}
  <2>1. Min(T) \in T
    <3>1. T \subseteq Nat
      OBVIOUS
    <3> QED BY ONLY <1>2, <3>1, MinIs
  <2>2. runs[Min(T)] \in Run
    BY <2>1, ElementOfSeq
  <2>3. runs[Min(T)].style \in Style
    BY ONLY <2>2 DEF Run
  <2> QED BY ONLY <1>2, <2>3 DEF StyleAt
<1> QED BY ONLY <1>1, <1>2

\* The caption runs that do not end before a letter.
After(i, runs, ends) == {r \in DOMAIN runs : i <= ends[r]}

\* Glyphs with their styles.
Wears(gs, shaped, runs, ends) ==
  /\ gs \in Seq(Glyph) /\ Len(gs) = Len(shaped)
  /\ \A g \in 1..Len(shaped) :
       /\ gs[g].cp = shaped[g].cp /\ gs[g].at = shaped[g].at
       /\ gs[g].fallback = shaped[g].fallback
       /\ gs[g].style = StyleAt(After(shaped[g].from, runs, ends), runs)

\* Styled gives them these styles.
LEMMA StyledIs ==
  ASSUME NEW shaped, shaped \in Seq(Shape), NEW runs, runs \in Seq(Run), NEW ends,
         NEW gs, gs = Styled(shaped, runs, ends)
  PROVE  Wears(gs, shaped, runs, ends)
<1>1. PICK n : n = Len(shaped) /\ n \in Nat /\ DOMAIN shaped = 1..n
  BY LenProperties
<1>2. gs = [g \in 1..n |->
             [cp |-> shaped[g].cp, at |-> shaped[g].at, fallback |-> shaped[g].fallback,
              style |-> StyleAt(After(shaped[g].from, runs, ends), runs)]]
  BY ONLY <1>1, gs = Styled(shaped, runs, ends) DEF Styled, After
<1>3. ASSUME NEW g, g \in 1..n
      PROVE  /\ gs[g] \in Glyph /\ gs[g].cp = shaped[g].cp /\ gs[g].at = shaped[g].at
             /\ gs[g].fallback = shaped[g].fallback
             /\ gs[g].style = StyleAt(After(shaped[g].from, runs, ends), runs)
  <2>1. shaped[g] \in Shape
    BY ONLY <1>1, <1>3, shaped \in Seq(Shape), ElementOfSeq
  <2>2. PICK c, a, f, s : /\ c = shaped[g].cp /\ a = shaped[g].at /\ f = shaped[g].fallback
                          /\ s = StyleAt(After(shaped[g].from, runs, ends), runs)
    OBVIOUS
  <2>3. c \in Cps /\ a \in Nat /\ f \in BOOLEAN
    BY ONLY <2>1, <2>2 DEF Shape
  <2>4. s \in Style
    <3>1. After(shaped[g].from, runs, ends) \subseteq 1..Len(runs)
      BY LenProperties DEF After
    <3> QED BY ONLY <2>2, <3>1, runs \in Seq(Run), StyleAtIs
  <2>5. gs[g] = [cp |-> c, at |-> a, fallback |-> f, style |-> s]
    BY ONLY <1>2, <1>3, <2>2
  <2>6. gs[g] \in Glyph
    BY ONLY <2>3, <2>4, <2>5 DEF Glyph
  <2>7. gs[g].cp = c /\ gs[g].at = a /\ gs[g].fallback = f /\ gs[g].style = s
    BY ONLY <2>5
  <2> QED BY ONLY <2>2, <2>6, <2>7
<1>4. gs \in [1..n -> Glyph]
  BY ONLY <1>2, <1>3
<1>5. gs \in Seq(Glyph) /\ Len(gs) = n
  BY ONLY <1>1, <1>2, <1>4
<1> QED BY ONLY <1>1, <1>3, <1>5 DEF Wears

\* A run of one direction, as it is split off.
VisOf(levels, r) == VisRun(LogRuns(levels)[r], levels, VisualMap(levels))

\* Its fields.
LEMMA VisOfIs ==
  ASSUME NEW levels, levels \in Seq({0, 1, 2}), NEW r, r \in 1..Len(LogRuns(levels))
  PROVE  /\ VisOf(levels, r).first = LogRuns(levels)[r].first
         /\ VisOf(levels, r).last = LogRuns(levels)[r].last
         /\ VisOf(levels, r).rtl = (levels[LogRuns(levels)[r].first] % 2 = 1)
         /\ Within(VisOf(levels, r), Len(levels))
<1>1. PICK run, v : run = LogRuns(levels)[r] /\ v = VisOf(levels, r)
  OBVIOUS
<1>2. v.first = run.first /\ v.last = run.last /\ v.rtl = (levels[run.first] % 2 = 1)
  BY ONLY <1>1 DEF VisOf, VisRun
<1>3. run.first \in 1..Len(levels) /\ run.last \in 1..Len(levels) /\ run.first <= run.last
  <2>1. Cover(LogRuns(levels), Len(levels))
    BY LogRunsAre
  <2>2. Len(levels) \in Nat
    BY LenProperties
  <2> QED BY ONLY <1>1, <2>1, <2>2, r \in 1..Len(LogRuns(levels)), CoverIs
<1> QED BY ONLY <1>1, <1>2, <1>3 DEF Within

\* The glyphs of the d-th run of one direction.
DrawnAt(d, o, runs, text, levels, fonts) ==
  Styled(Turn(VisOf(levels, o[d]).rtl, View(text, VisOf(levels, o[d]), fonts)), runs,
         Boundaries(runs, fonts.primary))

\* The glyphs of the runs of one direction, in their order.
Drawn(gs, o, m, runs, text, levels, fonts) ==
  /\ SplitBy(o, levels, m) /\ m = Len(LogRuns(levels)) /\ m \in Nat
  /\ gs \in Seq(Seq(Glyph)) /\ Len(gs) = m
  /\ \A d \in 1..m : gs[d] = DrawnAt(d, o, runs, text, levels, fonts)

\* What a sequence turned around has, it had before.
LEMMA TurnIs ==
  ASSUME NEW S, NEW s, s \in Seq(S), NEW rtl
  PROVE  /\ Turn(rtl, s) \in Seq(S) /\ Len(Turn(rtl, s)) = Len(s)
         /\ \A i \in 1..Len(s) : \E j \in 1..Len(s) : Turn(rtl, s)[i] = s[j]
<1>1. CASE ~rtl
  <2>1. Turn(rtl, s) = s
    BY ONLY <1>1 DEF Turn
  <2> QED BY ONLY <2>1, s \in Seq(S)
<1>2. CASE rtl
  <2>1. Turn(rtl, s) = Reverse(s)
    BY ONLY <1>2 DEF Turn
  <2>2. /\ Reverse(s) \in Seq(S) /\ Len(Reverse(s)) = Len(s)
        /\ \A i \in 1..Len(s) : Reverse(s)[i] = s[Len(s) - i + 1]
    BY ReverseIs
  <2>3. \A i \in 1..Len(s) : Len(s) - i + 1 \in 1..Len(s)
    BY LenProperties
  <2> QED BY ONLY <2>1, <2>2, <2>3
<1> QED BY ONLY <1>1, <1>2

\* The view of a run of one direction.
LEMMA RunViewIs ==
  ASSUME NEW text, text \in Seq(Letter), NEW levels, levels = Levels(text),
         NEW fonts, fonts \in Fonts, NEW r, r \in 1..Len(LogRuns(levels))
  PROVE  /\ Within(VisOf(levels, r), Len(text))
         /\ View(text, VisOf(levels, r), fonts) \in Seq(Shape)
<1>1. levels \in Seq({0, 1, 2}) /\ Len(levels) = Len(text)
  BY LevelsAre
<1>2. Within(VisOf(levels, r), Len(text))
  BY ONLY <1>1, r \in 1..Len(LogRuns(levels)), VisOfIs
<1>3. PICK vs : vs = ViewParts(text, VisOf(levels, r), fonts)
  OBVIOUS
<1>4. View(text, VisOf(levels, r), fonts) \in Seq(Shape)
  BY ONLY <1>2, <1>3, text \in Seq(Letter), fonts \in Fonts, ViewIs
<1> QED BY ONLY <1>2, <1>4

\* A line is drawn from runs of one direction.
LEMMA LineIs ==
  ASSUME NEW runs, Known(runs), NEW fonts, fonts \in Fonts,
         NEW text, text = FullText(runs, fonts.primary), NEW levels, levels = Levels(text)
  PROVE  \E gs, o, m : /\ Drawn(gs, o, m, runs, text, levels, fonts)
                       /\ ShapeLine(runs, fonts) = FlattenSeq(gs)
<1>1. text \in Seq(Letter)
  BY FontsUsable, TextIs
<1>2. levels \in Seq({0, 1, 2}) /\ Len(levels) = Len(text)
  BY <1>1, LevelsAre
<1>3. PICK m : m = Len(LogRuns(levels)) /\ m \in Nat
  BY ONLY <1>2, SplitIs
<1>4. PICK o : SplitBy(o, levels, m)
  BY ONLY <1>2, <1>3, SplitIs
<1>5. PICK ends, split : /\ ends = Boundaries(runs, fonts.primary)
                         /\ split = SplitDirectionalRuns(levels)
  OBVIOUS
<1>6. /\ o \in [1..m -> 1..m] /\ split = [d \in 1..m |-> VisOf(levels, o[d])]
  BY ONLY <1>4, <1>5 DEF SplitBy, VisOf
<1>7. ShapeLine(runs, fonts)
        = FlattenSeq([d \in DOMAIN split |->
            Styled(Shaped(View(text, split[d], fonts), split[d].rtl), runs, ends)])
  BY ONLY <1>5, text = FullText(runs, fonts.primary), levels = Levels(text)
     DEF ShapeLine, ShapeRuns
<1> DEFINE D(d) == DrawnAt(d, o, runs, text, levels, fonts)
<1>8. ASSUME NEW d, d \in 1..m
      PROVE  /\ Styled(Shaped(View(text, split[d], fonts), split[d].rtl), runs, ends) = D(d)
             /\ D(d) \in Seq(Glyph)
  <2>1. PICK r, v, view : r = o[d] /\ v = VisOf(levels, r) /\ view = View(text, v, fonts)
    OBVIOUS
  <2>2. r \in 1..m /\ split[d] = v
    BY ONLY <1>6, <1>8, <2>1
  <2>3. view \in Seq(Shape)
    BY ONLY <1>1, <1>3, <2>1, <2>2, levels = Levels(text), fonts \in Fonts, RunViewIs
  <2>4. Shaped(view, v.rtl) = Turn(v.rtl, view)
    BY ONLY <2>3, ShapedIs
  <2>5. Styled(Turn(v.rtl, view), runs, ends) = D(d)
    BY ONLY <1>5, <2>1 DEF DrawnAt
  <2>6. Turn(v.rtl, view) \in Seq(Shape)
    BY ONLY <2>3, TurnIs
  <2>7. runs \in Seq(Run)
    BY DEF Known
  <2>8. PICK gs : gs = Styled(Turn(v.rtl, view), runs, ends)
    OBVIOUS
  <2>9. gs \in Seq(Glyph)
    BY ONLY <2>6, <2>7, <2>8, StyledIs DEF Wears
  <2> QED BY ONLY <2>1, <2>2, <2>4, <2>5, <2>8, <2>9
<1>9. PICK gs : gs = [d \in 1..m |-> D(d)]
  OBVIOUS
<1>10. gs \in Seq(Seq(Glyph)) /\ Len(gs) = m
  <2> DEFINE SS == Seq(Glyph)
  <2>1. \A d \in 1..m : D(d) \in SS
    BY ONLY <1>8
  <2> HIDE DEF SS, D
  <2>2. gs \in [1..m -> SS]
    BY ONLY <1>9, <2>1
  <2>3. gs \in Seq(SS) /\ Len(gs) = m
    BY ONLY <1>3, <1>9, <2>2
  <2> QED BY ONLY <2>3 DEF SS
<1>11. \A d \in 1..m : gs[d] = DrawnAt(d, o, runs, text, levels, fonts)
  BY ONLY <1>9
<1>12. ShapeLine(runs, fonts) = FlattenSeq(gs)
  <2>1. DOMAIN split = 1..m
    BY ONLY <1>6
  <2>2. [d \in DOMAIN split |->
            Styled(Shaped(View(text, split[d], fonts), split[d].rtl), runs, ends)] = gs
    BY ONLY <1>8, <1>9, <2>1
  <2> QED BY ONLY <1>7, <2>2
<1>13. Drawn(gs, o, m, runs, text, levels, fonts)
  BY ONLY <1>3, <1>4, <1>10, <1>11 DEF Drawn
<1> QED BY ONLY <1>12, <1>13

\* A glyph that stands for letter i of the text.
GlyphFor(g, i, runs, text, fonts) ==
  /\ g.at = text[i].at /\ g.fallback = Falls(text[i].cp, fonts)
  /\ \E k \in 1..Len(Writing(text[i].cp, fonts)) : g.cp = Writing(text[i].cp, fonts)[k]
  /\ g.style = StyleAt(After(i, runs, Boundaries(runs, fonts.primary)), runs)

\* The glyphs of one direction stand for the letters of its run.
LEMMA DrawnAtIs ==
  ASSUME NEW runs, Known(runs), NEW fonts, fonts \in Fonts, NEW text, text \in Seq(Letter),
         NEW levels, levels = Levels(text), NEW o, NEW d, o[d] \in 1..Len(LogRuns(levels)),
         NEW gs, gs = DrawnAt(d, o, runs, text, levels, fonts)
  PROVE  /\ gs \in Seq(Glyph)
         /\ \A g \in 1..Len(gs) : \E i \in 1..Len(text) :
              /\ VisOf(levels, o[d]).first <= i /\ i <= VisOf(levels, o[d]).last
              /\ GlyphFor(gs[g], i, runs, text, fonts)
<1>1. PICK v, view, turned, ends :
        /\ v = VisOf(levels, o[d]) /\ view = View(text, v, fonts) /\ turned = Turn(v.rtl, view)
        /\ ends = Boundaries(runs, fonts.primary)
  OBVIOUS
<1>2. Within(v, Len(text)) /\ view \in Seq(Shape)
  BY ONLY <1>1, text \in Seq(Letter), levels = Levels(text), fonts \in Fonts,
          o[d] \in 1..Len(LogRuns(levels)), RunViewIs
<1>3. \A j \in 1..Len(view) : \E i \in 1..Len(text) :
        v.first <= i /\ i <= v.last /\ Shows(view[j], text, i, fonts)
  <2>1. PICK vs : vs = ViewParts(text, v, fonts)
    OBVIOUS
  <2> QED BY ONLY <1>1, <1>2, <2>1, text \in Seq(Letter), fonts \in Fonts, ViewIs
<1>4. /\ turned \in Seq(Shape) /\ Len(turned) = Len(view)
      /\ \A i \in 1..Len(view) : \E j \in 1..Len(view) : turned[i] = view[j]
  BY ONLY <1>1, <1>2, TurnIs
<1>5. gs = Styled(turned, runs, ends)
  BY ONLY <1>1, gs = DrawnAt(d, o, runs, text, levels, fonts) DEF DrawnAt
<1>6. runs \in Seq(Run)
  BY DEF Known
<1>7. /\ gs \in Seq(Glyph) /\ Len(gs) = Len(turned)
      /\ \A g \in 1..Len(turned) :
           /\ gs[g].cp = turned[g].cp /\ gs[g].at = turned[g].at
           /\ gs[g].fallback = turned[g].fallback
           /\ gs[g].style = StyleAt(After(turned[g].from, runs, ends), runs)
  <2>1. Wears(gs, turned, runs, ends)
    BY ONLY <1>4, <1>5, <1>6, StyledIs
  <2> QED BY ONLY <2>1 DEF Wears
<1>8. \A g \in 1..Len(gs) : \E i \in 1..Len(text) :
        v.first <= i /\ i <= v.last /\ GlyphFor(gs[g], i, runs, text, fonts)
  <2> SUFFICES ASSUME NEW g, g \in 1..Len(gs)
               PROVE  \E i \in 1..Len(text) :
                        v.first <= i /\ i <= v.last /\ GlyphFor(gs[g], i, runs, text, fonts)
    OBVIOUS
  <2>1. g \in 1..Len(view) /\ g \in 1..Len(turned)
    BY ONLY <1>4, <1>7, g \in 1..Len(gs)
  <2>2. PICK j \in 1..Len(view) : turned[g] = view[j]
    BY ONLY <1>4, <2>1
  <2>3. PICK i \in 1..Len(text) : v.first <= i /\ i <= v.last /\ Shows(turned[g], text, i, fonts)
    BY ONLY <1>3, <2>2
  <2>4. GlyphFor(gs[g], i, runs, text, fonts)
    BY ONLY <1>1, <1>7, <2>1, <2>3 DEF GlyphFor, Shows
  <2> QED BY ONLY <2>3, <2>4
<1> QED BY ONLY <1>1, <1>7, <1>8

\* Every glyph of a line stands for a letter of the text.
LEMMA GlyphIs ==
  ASSUME NEW runs, Known(runs), NEW fonts, fonts \in Fonts,
         NEW text, text = FullText(runs, fonts.primary)
  PROVE  /\ ShapeLine(runs, fonts) \in Seq(Glyph)
         /\ \A g \in 1..Len(ShapeLine(runs, fonts)) : \E i \in 1..Len(text) :
              GlyphFor(ShapeLine(runs, fonts)[g], i, runs, text, fonts)
<1>1. PICK levels : levels = Levels(text)
  OBVIOUS
<1>2. text \in Seq(Letter)
  BY FontsUsable, TextIs
<1>3. PICK gs, o, m : Drawn(gs, o, m, runs, text, levels, fonts)
                      /\ ShapeLine(runs, fonts) = FlattenSeq(gs)
  BY ONLY <1>1, Known(runs), fonts \in Fonts, text = FullText(runs, fonts.primary), LineIs
<1>4. /\ o \in [1..m -> 1..m] /\ m = Len(LogRuns(levels)) /\ gs \in Seq(Seq(Glyph))
      /\ Len(gs) = m /\ \A d \in 1..m : gs[d] = DrawnAt(d, o, runs, text, levels, fonts)
  BY ONLY <1>3 DEF Drawn, SplitBy
<1>5. FlattenSeq(gs) \in Seq(Glyph)
  BY ONLY <1>4, FlattenType
<1>6. ASSUME NEW g, g \in 1..Len(FlattenSeq(gs))
      PROVE  \E i \in 1..Len(text) : GlyphFor(FlattenSeq(gs)[g], i, runs, text, fonts)
  <2>1. PICK d \in 1..Len(gs) : \E k \in 1..Len(gs[d]) :
          g = EndOf(gs, d - 1) + k /\ FlattenSeq(gs)[g] = gs[d][k]
    <3>1. gs \in Seq(Seq(Glyph))
      BY ONLY <1>4
    <3> QED BY ONLY <1>6, <3>1, FlattenFrom
  <2>2. PICK e : e = gs[d]
    OBVIOUS
  <2>3. e = DrawnAt(d, o, runs, text, levels, fonts) /\ o[d] \in 1..Len(LogRuns(levels))
    BY ONLY <1>4, <2>1, <2>2
  <2>4. \A k \in 1..Len(e) : \E i \in 1..Len(text) : GlyphFor(e[k], i, runs, text, fonts)
    BY ONLY <1>1, <1>2, <2>3, Known(runs), fonts \in Fonts, DrawnAtIs
  <2> QED BY ONLY <2>1, <2>2, <2>4
<1> QED BY ONLY <1>3, <1>5, <1>6
-----------------------------------------------------------------------------
(* Styles and fonts *)

\* What GlyphsKeepStyle says of a line.
LEMMA StyleIsKept ==
  ASSUME NEW runs, Known(runs), NEW fonts, fonts \in Fonts,
         NEW g, g \in DOMAIN ShapeLine(runs, fonts)
  PROVE  \E r \in DOMAIN runs :
           /\ runs[r].style = ShapeLine(runs, fonts)[g].style
           /\ \E k \in DOMAIN runs[r].text : runs[r].text[k].at = ShapeLine(runs, fonts)[g].at
<1>1. PICK glyphs, text, face :
        glyphs = ShapeLine(runs, fonts) /\ face = fonts.primary /\ text = FullText(runs, face)
  OBVIOUS
<1>2. glyphs \in Seq(Glyph) /\ \A h \in 1..Len(glyphs) : \E i \in 1..Len(text) :
        GlyphFor(glyphs[h], i, runs, text, fonts)
  BY ONLY <1>1, Known(runs), fonts \in Fonts, GlyphIs
<1>3. DOMAIN glyphs = 1..Len(glyphs)
  BY ONLY <1>2, LenProperties
<1>4. PICK i \in 1..Len(text) : GlyphFor(glyphs[g], i, runs, text, fonts)
  BY ONLY <1>1, <1>2, <1>3, g \in DOMAIN ShapeLine(runs, fonts)
<1>5. face \subseteq Letters
  BY <1>1, FontsUsable
<1>6. PICK r \in 1..Len(runs) :
        /\ \E k \in 1..Len(runs[r].text) : ComesFrom(text[i], runs[r].text[k], face)
        /\ StyleAt({q \in DOMAIN runs : i <= Boundaries(runs, face)[q]}, runs) = runs[r].style
  BY ONLY <1>1, <1>4, <1>5, Known(runs), TextIs
<1>7. PICK k \in 1..Len(runs[r].text) : ComesFrom(text[i], runs[r].text[k], face)
  BY ONLY <1>6
<1>8. runs \in Seq(Run) /\ runs[r].text \in Seq(Char)
  <2>1. runs \in Seq(Run)
    BY DEF Known
  <2>2. runs[r] \in Run
    BY ONLY <1>6, <2>1, ElementOfSeq
  <2> QED BY ONLY <2>1, <2>2 DEF Run
<1>9. r \in DOMAIN runs /\ k \in DOMAIN runs[r].text
  BY ONLY <1>6, <1>7, <1>8, LenProperties
<1>10. runs[r].text[k].at = glyphs[g].at
  BY ONLY <1>4, <1>7 DEF ComesFrom, GlyphFor
<1>11. runs[r].style = glyphs[g].style
  BY ONLY <1>1, <1>4, <1>6 DEF GlyphFor, After
<1> QED BY ONLY <1>1, <1>9, <1>10, <1>11

\* A replacement of a letter the font lacks shows that no spelling is in the font.
LEMMA LackedInAll ==
  ASSUME NEW cp, cp \in Cps, NEW face, face \subseteq Letters, NEW w, w \in Spellings(cp),
         NEW m, m \in 1..Len(NormalizeForFace(cp, face)),
         ~HasGlyph(face, NormalizeForFace(cp, face)[m])
  PROVE  ~Writes(face, w)
<1>1. PICK v : v = NormalizeForFace(cp, face)
  OBVIOUS
<1>2. v \in Seq(Cps)
  BY <1>1, NormalizedLetters
<1>3. ~Covers(face, v)
  <2>1. Covers(face, v) <=> \A k \in 1..Len(v) : HasGlyph(face, v[k])
    BY ONLY <1>2, CoversIs
  <2>2. m \in 1..Len(v) /\ ~HasGlyph(face, v[m])
    BY <1>1
  <2> QED BY ONLY <2>1, <2>2
<1> QED BY <1>1, <1>3, NormalizedBest

\* No spelling of a ligature is in a font that lacks one of its letters.
LEMMA LackedInLigature ==
  ASSUME NEW cp, cp \in Forms, Len(Base(cp)) > 1, NEW x, x \in Letters, x # Tatweel,
         NEW j, j \in 1..Len(Base(cp)), Base(cp)[j] = x,
         NEW face, ~HasGlyph(face, x), NEW w, w \in Spellings(cp)
  PROVE  ~Writes(face, w)
<1>1. PICK b : b = Base(cp)
  OBVIOUS
<1>2. b \in Seq(Letters) /\ j \in 1..Len(b) /\ b[j] = x
  BY <1>1, FormIs
<1> SUFFICES ASSUME Writes(face, w) PROVE FALSE
  OBVIOUS
<1>3. Covers(face, w)
  BY DEF Writes
<1>4. ASSUME NEW e, e \in DOMAIN FormEntries, FormEntries[e].base = b,
             w = <<FormEntries[e].cp>>
      PROVE  FALSE
  <2>1. Len(FormEntries[e].base) > 1
    BY ONLY <1>1, <1>4, Len(Base(cp)) > 1
  <2>2. \A k \in 1..Len(FormEntries[e].base) :
          FormEntries[e].base[k] # Tatweel => HasGlyph(face, FormEntries[e].base[k])
    BY ONLY <1>4, <2>1, Writes(face, w), LigatureLetters
  <2> QED BY ONLY <1>2, <1>4, <2>2, x # Tatweel, ~HasGlyph(face, x)
<1>5. CASE w = <<cp>>
  <2>1. PICK e \in DOMAIN FormEntries : FormEntries[e].cp = cp /\ FormEntries[e].base = b
    BY <1>1, BaseIs
  <2> QED BY ONLY <1>4, <1>5, <2>1
<1>6. CASE w = b
  <2>1. Covers(face, b) <=> \A k \in 1..Len(b) : HasGlyph(face, b[k])
    BY ONLY <1>2, CoversIs
  <2> QED BY ONLY <1>2, <1>6, <1>3, <2>1, ~HasGlyph(face, x)
<1>7. CASE w = WithoutTatweel(b)
  <2>1. Covers(face, WithoutTatweel(b)) <=>
           \A k \in 1..Len(b) : b[k] # Tatweel => HasGlyph(face, b[k])
    BY ONLY <1>2, CoversWithout
  <2> QED BY ONLY <1>2, <1>7, <1>3, <2>1, ~HasGlyph(face, x), x # Tatweel
<1>8. CASE \E e \in DOMAIN FormEntries : FormEntries[e].base = b /\ w = <<FormEntries[e].cp>>
  BY ONLY <1>4, <1>8
<1> QED BY <1>1, <1>5, <1>6, <1>7, <1>8, SpellingIs

\* What BestFont says of a letter x of the text, which stands for cp, and of a letter
\* y that it is written with.
LEMMA BestLetter ==
  ASSUME NEW cp, cp \in Cps, NEW fonts, fonts \in Fonts, NEW m, NEW x, NEW k, NEW y,
         m \in 1..Len(NormalizeForFace(cp, fonts.primary)),
         x = NormalizeForFace(cp, fonts.primary)[m],
         k \in 1..Len(Writing(x, fonts)), y = Writing(x, fonts)[k],
         NEW w, w \in Spellings(cp)
  PROVE  /\ Falls(x, fonts) => ~HasGlyph(fonts.primary, cp) /\ ~Writes(fonts.primary, w)
         /\ ~HasGlyph(IF Falls(x, fonts) THEN fonts.fallback ELSE fonts.primary, y) =>
              /\ ~HasGlyph(fonts.primary, cp) /\ ~Writes(fonts.primary, w)
              /\ ~Writes(fonts.fallback, w)
<1>1. PICK one, two : one = fonts.primary /\ two = fonts.fallback
  OBVIOUS
<1>2. one \subseteq Letters /\ two \subseteq Letters
  BY <1>1, FontsUsable
<1>3. PICK v : v = NormalizeForFace(cp, one)
  OBVIOUS
<1>4. v \in Seq(Cps) /\ m \in 1..Len(v) /\ x = v[m] /\ x \in Cps
  <2>2. v \in Seq(Cps)
    BY ONLY <1>2, <1>3, cp \in Cps, NormalizedLetters
  <2>1. m \in 1..Len(v) /\ x = v[m]
    BY <1>1, <1>3
  <2> QED BY ONLY <2>1, <2>2, ElementOfSeq
<1>5. ~HasGlyph(one, x) => ~HasGlyph(one, cp) /\ ~Writes(one, w)
  <2>1. ~HasGlyph(one, x) => ~Writes(one, w)
    BY ONLY <1>2, <1>3, <1>4, cp \in Cps, w \in Spellings(cp), LackedInAll
  <2>2. ASSUME HasGlyph(one, cp) PROVE HasGlyph(one, x)
    <3>1. v = <<cp>>
      BY ONLY <1>3, <2>2 DEF NormalizeForFace
    <3>2. PICK u : u = <<cp>> /\ Len(u) = 1 /\ u[1] = cp
      BY ONLY OneIsNotEmpty
    <3>3. m \in 1..1 /\ x = u[m]
      BY ONLY <1>4, <3>1, <3>2
    <3>4. m = 1
      BY ONLY <3>3
    <3> QED BY ONLY <2>2, <3>2, <3>3, <3>4
  <2> QED BY ONLY <2>1, <2>2
<1>6. Falls(x, fonts) <=> ~HasGlyph(one, x) /\ Covers(two, NormalizeForFace(x, two))
  BY ONLY <1>1 DEF Falls
<1>7. CASE Falls(x, fonts)
  <2>1. PICK u : u = NormalizeForFace(x, two)
    OBVIOUS
  <2>2. Writing(x, fonts) = u
    BY ONLY <1>1, <1>7, <2>1 DEF Writing
  <2>3. u \in Seq(Cps)
    BY <1>2, <1>4, <2>1, NormalizedLetters
  <2>4. Covers(two, u) <=> \A i \in 1..Len(u) : HasGlyph(two, u[i])
    BY ONLY <2>3, CoversIs
  <2>5. HasGlyph(two, y)
    BY ONLY <1>6, <1>7, <2>1, <2>2, <2>4, k \in 1..Len(Writing(x, fonts)),
            y = Writing(x, fonts)[k]
  <2> QED BY ONLY <1>1, <1>5, <1>6, <1>7, <2>5
<1>8. CASE ~Falls(x, fonts)
  <2> SUFFICES ASSUME ~HasGlyph(one, y)
               PROVE  ~HasGlyph(one, cp) /\ ~Writes(one, w) /\ ~Writes(two, w)
    <3>1. (IF Falls(x, fonts) THEN fonts.fallback ELSE fonts.primary) = one
      BY ONLY <1>1, <1>8
    <3>2. ~HasGlyph(one, y) => ~HasGlyph(one, cp) /\ ~Writes(one, w) /\ ~Writes(two, w)
      OBVIOUS
    <3> QED BY ONLY <1>1, <1>8, <3>1, <3>2
  <2>1. y = x
    <3>1. Writing(x, fonts) = <<x>>
      BY ONLY <1>8 DEF Writing
    <3>2. PICK u : u = <<x>> /\ Len(u) = 1 /\ u[1] = x
      BY ONLY OneIsNotEmpty
    <3>3. k \in 1..1 /\ y = u[k]
      BY ONLY <3>1, <3>2, k \in 1..Len(Writing(x, fonts)), y = Writing(x, fonts)[k]
    <3>4. k = 1
      BY ONLY <3>3
    <3> QED BY ONLY <3>2, <3>3, <3>4
  <2>2. ~HasGlyph(one, x)
    BY ONLY <2>1, ~HasGlyph(one, y)
  <2>3. ~Covers(two, NormalizeForFace(x, two))
    BY ONLY <1>6, <1>8, <2>2
  <2>4. ReplacedBy(cp, one, v)
    BY <1>2, <1>3, NormalizedIs
  <2>5. CASE x = cp
    BY ONLY <1>2, <1>5, <2>2, <2>3, <2>5, cp \in Cps, w \in Spellings(cp), NormalizedBest
  <2>6. CASE /\ cp \in Forms /\ Len(Base(cp)) > 1 /\ x \in Letters \ Forms /\ x # Tatweel
             /\ \E j \in 1..Len(Base(cp)) : Base(cp)[j] = x
    <3>1. ~HasGlyph(two, x)
      <4>1. NormalizeForFace(x, two) = <<x>>
        BY ONLY <2>6 DEF NormalizeForFace
      <4> QED BY ONLY <2>3, <4>1, CoversOne
    <3>2. PICK j : j \in 1..Len(Base(cp)) /\ Base(cp)[j] = x
      BY ONLY <2>6
    <3>3. x \in Letters
      BY ONLY <2>6
    <3>4. ~Writes(two, w)
      BY ONLY <1>2, <2>6, <3>1, <3>2, <3>3, w \in Spellings(cp), LackedInLigature
    <3> QED BY ONLY <1>5, <2>2, <3>4
  <2> QED BY ONLY <1>4, <2>2, <2>4, <2>5, <2>6, LackedLetter
<1> QED BY ONLY <1>7, <1>8
-----------------------------------------------------------------------------
(* What the parser returns *)

\* The characters of a line are characters of the caption, where their letters are.
IsRead(c) ==
  /\ c.at \in 1..Len(raw) /\ raw[c.at].tag \in Chars
  /\ c.space <=> raw[c.at].tag = "space"

CharsRead(runs) == \A r \in DOMAIN runs : \A k \in DOMAIN runs[r].text : IsRead(runs[r].text[k])

ReadInv ==
  /\ CharsRead(line)
  /\ \A l \in DOMAIN lines : CharsRead(lines[l])
  /\ \A p \in DOMAIN phrases : \A l \in DOMAIN phrases[p].lines :
       CharsRead(phrases[p].lines[l])

\* What has been read stays read.
LEMMA ReadStable ==
  ASSUME NEW token, NEW n, Extended(token, n), NEW runs, CharsRead(runs)
  PROVE  CharsRead(runs)'
<1>1. Len(raw) = n /\ Len(raw)' = n + 1 /\ n \in Nat /\ \A i \in 1..n : raw'[i] = raw[i]
  BY DEF Extended
<1>2. \A i \in 1..n : i \in 1..n + 1
  BY <1>1
<1> QED BY <1>1, <1>2 DEF CharsRead, IsRead

\* A character is added to a line.
LEMMA ReadGrows ==
  ASSUME NEW token, NEW n, Extended(token, n), NEW runs, runs \in Seq(Run), CharsRead(runs),
         NEW c, c \in Char, c.at = n + 1, token.tag \in Chars, c.space <=> token.tag = "space",
         style \in Style, NEW res, res = AddChar(runs, c)
  PROVE  CharsRead(res)'
<1>1. Len(raw)' = n + 1 /\ n \in Nat /\ n + 1 \in 1..n + 1 /\ raw'[n + 1] = token
  BY DEF Extended
<1>2. IsRead(c)'
  BY <1>1 DEF IsRead
<1>3. CharsRead(runs)'
  BY ReadStable
<1>4. PICK q \in Nat \ {0} : Grown(runs, res, c, style, q)
  BY AddCharIs
<1>5. res \in Seq(Run) /\ Len(res) = q
  BY <1>4, AddCharIs DEF Grown
<1> SUFFICES ASSUME NEW r \in 1..q, NEW k \in DOMAIN res[r].text
             PROVE  IsRead(res[r].text[k])'
  BY <1>5 DEF CharsRead
<1>6. \A r2 \in 1..Len(runs) : \A k2 \in DOMAIN runs[r2].text : IsRead(runs[r2].text[k2])'
  BY <1>3 DEF CharsRead
<1>7. CASE r # q
  <2>1. r \in 1..Len(runs) /\ res[r] = runs[r]
    BY <1>4, <1>7 DEF Grown
  <2> QED BY <1>6, <2>1
<1>8. CASE r = q /\ Len(runs) = q - 1 /\ res[q].text = <<c>>
  <2>1. res[r].text[k] = c
    BY <1>8
  <2> QED BY <1>2, <2>1
<1>9. CASE /\ r = q /\ Len(runs) = q /\ runs[q].style = style
           /\ res[q].text = Append(runs[q].text, c)
  <2>1. runs[q].text \in Seq(Char) /\ q \in 1..Len(runs)
    <3>1. q \in 1..Len(runs)
      BY <1>9
    <3>2. runs[q] \in Run
      BY <3>1
    <3> QED BY <3>1, <3>2 DEF Run
  <2>2. CASE k = Len(runs[q].text) + 1
    <3>1. res[r].text[k] = c
      BY <1>9, <2>1, <2>2
    <3> QED BY <1>2, <3>1
  <2>3. CASE k # Len(runs[q].text) + 1
    <3>1. k \in DOMAIN runs[q].text /\ res[r].text[k] = runs[q].text[k]
      BY <1>9, <2>1, <2>3
    <3> QED BY <1>6, <1>9, <2>1, <3>1
  <2> QED BY <2>2, <2>3
<1> QED BY <1>4, <1>7, <1>8, <1>9 DEF Grown

\* Lines and phrases that end.
LEMMA ReadEnded ==
  ASSUME Inv, ReadInv
  PROVE  /\ \A l \in DOMAIN EndedLines : CharsRead(EndedLines[l])
         /\ \A p \in DOMAIN EndedPhrases : \A l \in DOMAIN EndedPhrases[p].lines :
              CharsRead(EndedPhrases[p].lines[l])
<1> DEFINE Good(ls) == \A l \in DOMAIN ls : CharsRead(ls[l])
<1>1. EndedLines \in Seq(Seq(Run)) /\ lines \in Seq(Seq(Run)) /\ line \in Seq(Run)
  BY EndedLinesTidy DEF Inv, TypeOK
<1>2. Good(EndedLines)
  BY <1>1 DEF EndedLines, ReadInv
<1>3. \A p \in DOMAIN EndedPhrases : Good(EndedPhrases[p].lines)
  <2> DEFINE new == [delay |-> delay, lines |-> EndedLines]
  <2>1. new \in Phrase /\ Good(new.lines)
    BY <1>1, <1>2 DEF Phrase, Inv, TypeOK
  <2>2. EndedPhrases = IF blank THEN phrases ELSE Append(phrases, new)
    BY DEF EndedPhrases
  <2>3. phrases \in Seq(Phrase) /\ \A p \in DOMAIN phrases : Good(phrases[p].lines)
    BY DEF Inv, TypeOK, ReadInv
  <2> HIDE DEF new, Good
  <2> QED BY <2>1, <2>2, <2>3
<1> QED BY <1>2, <1>3

\* A step.
LEMMA ReadStep ==
  ASSUME Inv, ReadInv, NEW token \in Tokens, TokenStep(token)
  PROVE  ReadInv'
<1>1. TypeOK /\ style \in Style /\ line \in Seq(Run)
  BY DEF Inv, TypeOK
<1>2. PICK n \in Nat : Extended(token, n)
  BY <1>1, ReadExtends, MarkupAssumption
     DEF Inv, TypeOK, TokenStep, ReadChar, Swallow, OpenTag, Colour, PlayerColour, BadColour,
         EndColour, Toggle, OtherTag, BreakLine, Delay, DelayWithin, NextPart, ReadTag
<1>3. Len(raw) = n
  BY <1>2 DEF Extended
<1>4. \A runs : CharsRead(runs) => CharsRead(runs)'
  BY <1>2, ReadStable
<1>5. CharsRead(<<>>)'
  BY DEF CharsRead
<1>6. CASE \/ OpenTag(token) \/ BadColour(token) \/ OtherTag(token) \/ DelayWithin(token)
           \/ Swallow(token) \/ Colour(token) \/ PlayerColour(token) \/ EndColour(token)
           \/ Toggle(token)
  <2>1. line' = line /\ lines' = lines /\ phrases' = phrases
    BY <1>6 DEF OpenTag, BadColour, OtherTag, DelayWithin, Swallow, Colour, PlayerColour,
                EndColour, Toggle, ReadTag
  <2> QED BY <1>4, <2>1 DEF ReadInv, CharsRead, IsRead
<1>7. CASE ReadChar(token) /\ open = "nothing"
  <2> DEFINE c == [at |-> n + 1, space |-> token.tag = "space"]
  <2>1. c \in Char /\ c.at = n + 1 /\ (c.space <=> token.tag = "space")
    <3>1. PICK s \in BOOLEAN : s <=> token.tag = "space"
      <4>1. (token.tag = "space") \in BOOLEAN
        OBVIOUS
      <4> QED BY ONLY <4>1
    <3>2. c = [at |-> n + 1, space |-> s]
      BY ONLY <3>1
    <3>3. c \in Char /\ c.at = n + 1 /\ c.space = s
      <4> HIDE DEF c
      <4> QED BY <3>1, <3>2 DEF Char
    <3> QED BY ONLY <3>1, <3>3
  <2>2. /\ lines' = lines /\ phrases' = phrases /\ line' = AddChar(line, c)
        /\ token.tag \in Chars
    BY <1>3, <1>7 DEF ReadChar
  <2> HIDE DEF c
  <2>3. PICK old, new : old = line /\ new = AddChar(old, c)
    OBVIOUS
  <2>4. old \in Seq(Run) /\ CharsRead(old)
    BY <1>1, <2>3 DEF ReadInv
  <2>5. CharsRead(new)'
    BY <1>1, <1>2, <2>1, <2>2, <2>3, <2>4, ReadGrows
  <2>6. new = line'
    BY <2>2, <2>3
  <2> QED BY <1>4, <2>2, <2>5, <2>6 DEF ReadInv, CharsRead, IsRead
<1>8. CASE BreakLine(token)
  <2>1. line' = <<>> /\ lines' = EndedLines /\ phrases' = phrases
    BY <1>8 DEF BreakLine
  <2>2. PICK ls, ps : ls = EndedLines /\ ps = phrases
    OBVIOUS
  <2>3. /\ \A l \in DOMAIN ls : CharsRead(ls[l])'
        /\ \A p \in DOMAIN ps : \A l \in DOMAIN ps[p].lines : CharsRead(ps[p].lines[l])'
    BY <1>4, <2>2, ReadEnded DEF ReadInv
  <2>4. ls = lines' /\ ps = phrases'
    BY <2>1, <2>2
  <2> QED BY ONLY <1>5, <2>1, <2>3, <2>4 DEF ReadInv, CharsRead, IsRead
<1>9. CASE Delay(token)
  <2>1. line' = <<>> /\ lines' = <<>> /\ phrases' = EndedPhrases
    BY <1>9 DEF Delay, StartPhrase
  <2>2. PICK ps : ps = EndedPhrases
    OBVIOUS
  <2>3. \A p \in DOMAIN ps : \A l \in DOMAIN ps[p].lines : CharsRead(ps[p].lines[l])'
    BY <1>4, <2>2, ReadEnded
  <2>4. ps = phrases'
    BY <2>1, <2>2
  <2> QED BY ONLY <1>5, <2>1, <2>3, <2>4 DEF ReadInv, CharsRead, IsRead
<1>10. CASE NextPart(token)
  <2>1. line' = <<>> /\ lines' = <<>> /\ phrases' = <<>>
    BY <1>10 DEF NextPart, StartPhrase
  <2> QED BY <1>5, <2>1 DEF ReadInv, CharsRead
<1>11. CASE ReadChar(token)
  <2>1. CASE open # "nothing"
    <3>1. line' = line /\ lines' = lines /\ phrases' = phrases
      BY <1>11, <2>1 DEF ReadChar
    <3> QED BY <1>4, <3>1 DEF ReadInv, CharsRead, IsRead
  <2> QED BY <1>7, <1>11, <2>1
<1> QED BY <1>6, <1>8, <1>9, <1>10, <1>11 DEF TokenStep

\* The types and what is read are kept by every step.
LEMMA ReadNext == Inv /\ ReadInv /\ [Next]_vars => Inv' /\ ReadInv'
<1> SUFFICES ASSUME Inv, ReadInv, [Next]_vars PROVE Inv' /\ ReadInv'
  OBVIOUS
<1>1. Inv'
  BY NextInv
<1>2. CASE UNCHANGED vars
  <2>1. raw' = raw /\ line' = line /\ lines' = lines /\ phrases' = phrases
    BY <1>2 DEF vars, given
  <2>2. \A runs : CharsRead(runs)' <=> CharsRead(runs)
    BY <2>1 DEF CharsRead, IsRead
  <2> QED BY <1>1, <2>1, <2>2 DEF ReadInv, CharsRead, IsRead
<1>3. CASE Next
  <2>1. PICK token \in Tokens : TokenStep(token)
    BY <1>3, StepIs
  <2> QED BY <1>1, <2>1, ReadStep
<1> QED BY <1>2, <1>3

\* Initially nothing is read.
LEMMA ReadInit == Init => Inv /\ ReadInv
<1>1. Init => ReadInv
  BY DEF Init, ReadInv, CharsRead
<1> QED BY <1>1, InitInv

\* What a line is known to be.
LEMMA LineKnown ==
  ASSUME Inv, ReadInv, NEW pl, pl \in AllLines
  PROVE  Known(LineAt(pl)) /\ CharsRead(LineAt(pl))
<1>1. \A p \in DOMAIN ParseCaptionText : \A l \in DOMAIN ParseCaptionText[p].lines :
         CharsRead(ParseCaptionText[p].lines[l])
  BY ReadEnded DEF ParseCaptionText
<1>2. /\ ParseCaptionText \in Seq(Phrase)
      /\ pl[1] \in DOMAIN ParseCaptionText
  BY EndedPhrasesTidy DEF ParseCaptionText, Phrase, AllLines
<1>3. pl[2] \in DOMAIN ParseCaptionText[pl[1]].lines
      /\ ParseCaptionText[pl[1]].lines \in Seq(Seq(Run))
  <2>1. PICK ps, p, l : ps = ParseCaptionText /\ p = pl[1] /\ l = pl[2]
    OBVIOUS
  <2>2. p \in 1..Len(ps) /\ l \in 1..Len(raw) /\ l <= Len(ps[p].lines)
    BY <2>1 DEF AllLines
  <2>3. ps[p] \in Phrase
    BY ONLY <1>2, <2>1, <2>2, ElementOfSeq
  <2>4. ps[p].lines \in Seq(Seq(Run))
    BY ONLY <2>3 DEF Phrase
  <2>5. l \in DOMAIN ps[p].lines
    <3> DEFINE SS == Seq(Run)
    <3>1. ps[p].lines \in Seq(SS)
      BY ONLY <2>4
    <3> HIDE DEF SS
    <3>2. DOMAIN ps[p].lines = 1..Len(ps[p].lines) /\ Len(ps[p].lines) \in Nat
      BY ONLY <3>1, LenProperties
    <3> QED BY ONLY <2>2, <3>2
  <2> QED BY ONLY <2>1, <2>4, <2>5
<1>4. CharsRead(LineAt(pl)) /\ LineAt(pl) \in Seq(Run)
  BY <1>1, <1>2, <1>3 DEF LineAt
<1>5. ASSUME NEW c, IsRead(c) PROVE Cp(c) \in Cps
  <2>1. raw[c.at] \in Token
    BY <1>5 DEF Inv, TypeOK, IsRead
  <2>2. raw[c.at].tag = "char" => raw[c.at].cp \in Letters
    BY <2>1 DEF Token, Plain
  <2> QED BY <1>5, <2>2 DEF Cp, Cps, IsRead, Chars
<1>6. Known(LineAt(pl))
  <2>1. PICK runs : runs = LineAt(pl)
    OBVIOUS
  <2>2. runs \in Seq(Run) /\ CharsRead(runs)
    BY <1>4, <2>1
  <2>3. ASSUME NEW r, r \in 1..Len(runs), NEW k, k \in 1..Len(runs[r].text)
        PROVE  Cp(runs[r].text[k]) \in Cps
    <3>1. r \in DOMAIN runs
      BY ONLY <2>2, <2>3, LenProperties
    <3>2. runs[r].text \in Seq(Char)
      <4>1. runs[r] \in Run
        BY ONLY <2>2, <2>3, ElementOfSeq
      <4> QED BY ONLY <4>1 DEF Run
    <3>3. k \in DOMAIN runs[r].text
      BY ONLY <2>3, <3>2, LenProperties
    <3> QED BY ONLY <1>5, <2>2, <3>1, <3>3 DEF CharsRead
  <2> QED BY ONLY <2>1, <2>2, <2>3 DEF Known
<1> QED BY <1>4, <1>6

\* What BestFont says of a line.
LEMMA FontIsBest ==
  ASSUME NEW runs, Known(runs), CharsRead(runs), NEW fonts, fonts \in Fonts,
         NEW glyphs, glyphs = ShapeLine(runs, fonts), NEW g, g \in DOMAIN glyphs,
         NEW c, c = (IF raw[glyphs[g].at].tag = "space" THEN "space" ELSE raw[glyphs[g].at].cp),
         NEW w, w \in Spellings(c)
  PROVE  /\ glyphs[g].fallback => ~HasGlyph(fonts.primary, c) /\ ~Writes(fonts.primary, w)
         /\ ~HasGlyph(IF glyphs[g].fallback THEN fonts.fallback ELSE fonts.primary, glyphs[g].cp) =>
              /\ ~HasGlyph(fonts.primary, c) /\ ~Writes(fonts.primary, w)
              /\ ~Writes(fonts.fallback, w)
<1>1. PICK text, face : face = fonts.primary /\ text = FullText(runs, face)
  OBVIOUS
<1>2. glyphs \in Seq(Glyph) /\ \A h \in 1..Len(glyphs) : \E i \in 1..Len(text) :
        GlyphFor(glyphs[h], i, runs, text, fonts)
  BY ONLY <1>1, Known(runs), fonts \in Fonts, glyphs = ShapeLine(runs, fonts), GlyphIs
<1>3. g \in 1..Len(glyphs)
  BY ONLY <1>2, g \in DOMAIN glyphs, LenProperties
<1>4. PICK i \in 1..Len(text) : GlyphFor(glyphs[g], i, runs, text, fonts)
  BY ONLY <1>2, <1>3
<1>5. face \subseteq Letters
  BY <1>1, FontsUsable
<1>6. PICK r \in 1..Len(runs) : \E k \in 1..Len(runs[r].text) :
        ComesFrom(text[i], runs[r].text[k], face)
  BY ONLY <1>1, <1>4, <1>5, Known(runs), TextIs
<1>7. PICK k \in 1..Len(runs[r].text) : ComesFrom(text[i], runs[r].text[k], face)
  BY ONLY <1>6
<1>8. runs \in Seq(Run) /\ runs[r].text \in Seq(Char)
  <2>1. runs \in Seq(Run)
    BY DEF Known
  <2>2. runs[r] \in Run
    BY ONLY <1>6, <2>1, ElementOfSeq
  <2> QED BY ONLY <2>1, <2>2 DEF Run
<1>9. r \in DOMAIN runs /\ k \in DOMAIN runs[r].text
  BY ONLY <1>6, <1>7, <1>8, LenProperties
<1>10. PICK d, x, y : d = runs[r].text[k] /\ x = text[i].cp /\ y = glyphs[g].cp
  OBVIOUS
<1>11. IsRead(d) /\ Cp(d) \in Cps
  BY ONLY <1>6, <1>7, <1>9, <1>10, Known(runs), CharsRead(runs) DEF CharsRead, Known
<1>12. glyphs[g].at = d.at
  BY ONLY <1>4, <1>7, <1>10 DEF ComesFrom, GlyphFor
<1>13. c = Cp(d)
  BY ONLY <1>11, <1>12,
          c = (IF raw[glyphs[g].at].tag = "space" THEN "space" ELSE raw[glyphs[g].at].cp)
     DEF IsRead, Cp
<1>14. c \in Cps
  BY ONLY <1>11, <1>13
<1>15. PICK m : m \in 1..Len(NormalizeForFace(c, fonts.primary))
                /\ x = NormalizeForFace(c, fonts.primary)[m]
  BY ONLY <1>1, <1>7, <1>10, <1>13 DEF ComesFrom
<1>16. PICK n : n \in 1..Len(Writing(x, fonts)) /\ y = Writing(x, fonts)[n]
  BY ONLY <1>4, <1>10 DEF GlyphFor
<1>17. /\ Falls(x, fonts) => ~HasGlyph(fonts.primary, c) /\ ~Writes(fonts.primary, w)
       /\ ~HasGlyph(IF Falls(x, fonts) THEN fonts.fallback ELSE fonts.primary, y) =>
            /\ ~HasGlyph(fonts.primary, c) /\ ~Writes(fonts.primary, w)
            /\ ~Writes(fonts.fallback, w)
  BY ONLY <1>14, <1>15, <1>16, fonts \in Fonts, w \in Spellings(c), BestLetter
<1>18. glyphs[g].fallback = Falls(x, fonts)
  BY ONLY <1>4, <1>10 DEF GlyphFor
<1> QED BY ONLY <1>10, <1>17, <1>18

\* The lines of the caption that is read.
LEMMA ShapingIs ==
  ASSUME Inv, ReadInv, NEW s, s \in Shapings
  PROVE  /\ Known(s.runs) /\ CharsRead(s.runs) /\ s.fonts \in Fonts
         /\ s.glyphs = ShapeLine(s.runs, s.fonts)
<1>1. PICK pl \in AllLines, fonts \in Fonts :
        s = [runs |-> LineAt(pl), fonts |-> fonts, glyphs |-> ShapeLine(LineAt(pl), fonts)]
  BY DEF Shapings
<1>2. Known(LineAt(pl)) /\ CharsRead(LineAt(pl))
  BY <1>1, LineKnown
<1>3. s.runs = LineAt(pl) /\ s.fonts = fonts /\ s.glyphs = ShapeLine(LineAt(pl), fonts)
  BY ONLY <1>1
<1> QED BY ONLY <1>1, <1>2, <1>3

\* However a line is normalized, reordered and spread over two fonts, ShapeLine gives
\* each glyph the style of the caption run that its character is in.
THEOREM StylesKept == Spec => []GlyphsKeepStyle
<1>1. Inv /\ ReadInv => GlyphsKeepStyle
  <2> SUFFICES ASSUME Inv, ReadInv, NEW s, s \in Shapings, NEW g, g \in DOMAIN s.glyphs
               PROVE  \E r \in DOMAIN s.runs :
                        /\ s.runs[r].style = s.glyphs[g].style
                        /\ \E k \in DOMAIN s.runs[r].text : s.runs[r].text[k].at = s.glyphs[g].at
    BY DEF GlyphsKeepStyle
  <2>1. PICK runs, fonts, glyphs : runs = s.runs /\ fonts = s.fonts /\ glyphs = s.glyphs
    OBVIOUS
  <2>2. Known(runs) /\ fonts \in Fonts /\ glyphs = ShapeLine(runs, fonts)
    BY <2>1, ShapingIs
  <2>3. g \in DOMAIN ShapeLine(runs, fonts)
    BY <2>1, <2>2
  <2>4. \E r \in DOMAIN runs :
           /\ runs[r].style = ShapeLine(runs, fonts)[g].style
           /\ \E k \in DOMAIN runs[r].text : runs[r].text[k].at = ShapeLine(runs, fonts)[g].at
    BY ONLY <2>2, <2>3, StyleIsKept
  <2> QED BY ONLY <2>1, <2>2, <2>4
<1> QED BY <1>1, ReadInit, ReadNext, PTL DEF Spec

\* ShapeLine takes a letter from the fallback font only if the primary font can write
\* its character in no way, and draws an empty box only if neither font can, whatever
\* letters the fonts have.  A font that has a ligature but not its letters writes the
\* ligature only if it is the primary one and the caption has that very form.
THEOREM FontsAreBest == Spec => []BestFont
<1>1. Inv /\ ReadInv => BestFont
  <2> SUFFICES ASSUME Inv, ReadInv, NEW s, s \in Shapings, NEW g, g \in DOMAIN s.glyphs
               PROVE  LET glyph == s.glyphs[g]
                          box == ~HasGlyph(FaceOf(glyph, s.fonts), glyph.cp)
                      IN  /\ glyph.fallback \/ box =>
                               ~HasGlyph(s.fonts.primary, Original(glyph))
                          /\ \A w \in Spellings(Original(glyph)) :
                               /\ glyph.fallback \/ box => ~Writes(s.fonts.primary, w)
                               /\ box => ~Writes(s.fonts.fallback, w)
    BY DEF BestFont
  <2>1. PICK runs, fonts, glyphs, c :
          /\ runs = s.runs /\ fonts = s.fonts /\ glyphs = s.glyphs
          /\ c = Original(glyphs[g])
    OBVIOUS
  <2>2. Known(runs) /\ CharsRead(runs) /\ fonts \in Fonts /\ glyphs = ShapeLine(runs, fonts)
    BY <2>1, ShapingIs
  <2>3. /\ g \in DOMAIN glyphs
        /\ c = (IF raw[glyphs[g].at].tag = "space" THEN "space" ELSE raw[glyphs[g].at].cp)
    BY <2>1 DEF Original
  <2>4. ASSUME NEW w, w \in Spellings(c)
        PROVE  /\ glyphs[g].fallback => ~HasGlyph(fonts.primary, c) /\ ~Writes(fonts.primary, w)
               /\ ~HasGlyph(FaceOf(glyphs[g], fonts), glyphs[g].cp) =>
                    /\ ~HasGlyph(fonts.primary, c) /\ ~Writes(fonts.primary, w)
                    /\ ~Writes(fonts.fallback, w)
    <3>1. FaceOf(glyphs[g], fonts)
            = IF glyphs[g].fallback THEN fonts.fallback ELSE fonts.primary
      BY ONLY DEF FaceOf
    <3>2. /\ glyphs[g].fallback => ~HasGlyph(fonts.primary, c) /\ ~Writes(fonts.primary, w)
          /\ ~HasGlyph(IF glyphs[g].fallback THEN fonts.fallback ELSE fonts.primary, glyphs[g].cp) =>
               /\ ~HasGlyph(fonts.primary, c) /\ ~Writes(fonts.primary, w)
               /\ ~Writes(fonts.fallback, w)
      BY ONLY <2>2, <2>3, <2>4, FontIsBest
    <3> QED BY ONLY <3>1, <3>2
  <2>5. \E w : w \in Spellings(c)
    BY DEF Spellings
  <2> QED BY ONLY <2>1, <2>4, <2>5
<1> QED BY <1>1, ReadInit, ReadNext, PTL DEF Spec
-----------------------------------------------------------------------------
(* Characters are apart *)

\* Numbers that differ in a flattened sequence differ in its parts.
LEMMA PartDiffers ==
  ASSUME NEW S, NEW ss, ss \in Seq(Seq(S)), NEW r, r \in 1..Len(ss),
         \A i, j \in 1..Len(FlattenSeq(ss)) : FlattenSeq(ss)[i] = FlattenSeq(ss)[j] => i = j
  PROVE  \A k, m \in 1..Len(ss[r]) : ss[r][k] = ss[r][m] => k = m
<1> SUFFICES ASSUME NEW k, NEW m, k \in 1..Len(ss[r]), m \in 1..Len(ss[r]), ss[r][k] = ss[r][m]
             PROVE  k = m
  OBVIOUS
<1>1. PICK e, i, j : e = EndOf(ss, r - 1) /\ i = e + k /\ j = e + m
  OBVIOUS
<1>2. \A q \in 1..Len(ss) : \A p \in 1..Len(ss[q]) :
        /\ EndOf(ss, q - 1) + p \in 1..Len(FlattenSeq(ss))
        /\ FlattenSeq(ss)[EndOf(ss, q - 1) + p] = ss[q][p]
  BY FlattenAt
<1>3. /\ i \in 1..Len(FlattenSeq(ss)) /\ FlattenSeq(ss)[i] = ss[r][k]
      /\ j \in 1..Len(FlattenSeq(ss)) /\ FlattenSeq(ss)[j] = ss[r][m]
  BY ONLY <1>1, <1>2, r \in 1..Len(ss), k \in 1..Len(ss[r]), m \in 1..Len(ss[r])
<1>4. i = j
  BY ONLY <1>3, ss[r][k] = ss[r][m],
    \A i1, j1 \in 1..Len(FlattenSeq(ss)) : FlattenSeq(ss)[i1] = FlattenSeq(ss)[j1] => i1 = j1
<1>5. e \in Nat
  <2>1. \A q \in 0..Len(ss) : EndOf(ss, q) \in Nat
    BY Ends
  <2>2. r - 1 \in 0..Len(ss)
    <3>1. Len(ss) \in Nat
      <4> DEFINE SS == Seq(S)
      <4>1. ss \in Seq(SS)
        OBVIOUS
      <4> HIDE DEF SS
      <4> QED BY ONLY <4>1, LenProperties
    <3> QED BY ONLY <3>1, r \in 1..Len(ss)
  <2> QED BY ONLY <1>1, <2>1, <2>2
<1>6. k \in Int /\ m \in Int
  OBVIOUS
<1> QED BY ONLY <1>1, <1>4, <1>5, <1>6

\* The places in a line are apart.
LEMMA LinePlaces ==
  ASSUME IInv, NEW pl, pl \in AllLines
  PROVE  \A k, m \in 1..Len(PlacesOf(LineAt(pl))) :
           PlacesOf(LineAt(pl))[k] = PlacesOf(LineAt(pl))[m] => k = m
<1>0. Inv /\ PlacesInv
  BY DEF IInv
<1>1. PICK ps, p, l : ps = ParseCaptionText /\ p = pl[1] /\ l = pl[2]
  OBVIOUS
<1>2. ps \in Seq(Phrase)
  <2>1. ParseCaptionText \in Seq(Phrase)
    <3>1. <<[delay |-> 0, lines |-> <<>>]>> \in Seq(Phrase)
      BY DEF Phrase
    <3> QED BY <1>0, <3>1, EndedPhrasesTidy DEF ParseCaptionText
  <2> QED BY ONLY <1>1, <2>1
<1>3. p \in 1..Len(ps) /\ l \in 1..Len(raw) /\ l <= Len(ps[p].lines)
  BY <1>1 DEF AllLines
<1>4. ps[p] \in Phrase
  BY ONLY <1>2, <1>3, ElementOfSeq
<1>5. PICK ls : ls = ps[p].lines /\ ls \in Seq(Seq(Run))
  BY ONLY <1>4 DEF Phrase
<1>6. l \in 1..Len(ls) /\ DOMAIN ls = 1..Len(ls)
  <2> DEFINE SS == Seq(Run)
  <2>1. ls \in Seq(SS)
    BY ONLY <1>5
  <2> HIDE DEF SS
  <2>2. DOMAIN ls = 1..Len(ls) /\ Len(ls) \in Nat
    BY ONLY <2>1, LenProperties
  <2> QED BY ONLY <1>3, <1>5, <2>2
<1>7. PICK P, Q : /\ P = [x \in DOMAIN ps |-> PlacesIn(ps[x].lines)]
                  /\ Q = [x \in DOMAIN ls |-> PlacesOf(ls[x])]
  OBVIOUS
<1>8. P \in Seq(Seq(Nat)) /\ Q \in Seq(Seq(Nat))
  BY <1>2, <1>5, <1>7, PlacesAmongType, PlacesInType
<1>9. Places = FlattenSeq(P) /\ PlacesIn(ls) = FlattenSeq(Q)
  BY ONLY <1>1, <1>7 DEF Places, PlacesAmong, PlacesIn
<1>10. \A i, j \in 1..Len(Places) : Places[i] = Places[j] => i = j
  <2>1. PICK s \in Seq(Nat) : s = Places /\ Lists(s, Shown)
    BY <1>0, PlacesEnded DEF PlacesInv
  <2>2. DOMAIN s = 1..Len(s) /\ Len(s) \in Nat /\ \A k \in 1..Len(s) : s[k] \in Nat
    BY ONLY <2>1, LenProperties, ElementOfSeq
  <2>3. \A k, m \in 1..Len(s) : k < m => s[k] < s[m]
    BY ONLY <2>1, <2>2 DEF Lists
  <2>4. \A i, j \in 1..Len(s) : i = j \/ i < j \/ j < i
    BY ONLY <2>2
  <2>5. \A x \in Nat : ~(x < x)
    OBVIOUS
  <2>6. \A i, j \in 1..Len(s) : s[i] = s[j] => i = j
    BY ONLY <2>2, <2>3, <2>4, <2>5
  <2> QED BY ONLY <2>1, <2>6
<1>11. p \in 1..Len(P) /\ P[p] = PlacesIn(ls)
  <2>1. DOMAIN ps = 1..Len(ps) /\ Len(ps) \in Nat
    BY ONLY <1>2, LenProperties
  <2>2. Len(P) = Len(ps)
    BY ONLY <1>7, <2>1
  <2> QED BY ONLY <1>3, <1>5, <1>7, <2>1, <2>2
<1>12. l \in 1..Len(Q) /\ Q[l] = PlacesOf(ls[l])
  <2>1. Len(ls) \in Nat
    <3> DEFINE SS == Seq(Run)
    <3>1. ls \in Seq(SS)
      BY ONLY <1>5
    <3> HIDE DEF SS
    <3> QED BY ONLY <3>1, LenProperties
  <2>2. Len(Q) = Len(ls)
    BY ONLY <1>6, <1>7, <2>1
  <2> QED BY ONLY <1>6, <1>7, <2>2
<1>13. \A k, m \in 1..Len(P[p]) : P[p][k] = P[p][m] => k = m
  <2>1. \A i, j \in 1..Len(FlattenSeq(P)) : FlattenSeq(P)[i] = FlattenSeq(P)[j] => i = j
    BY ONLY <1>9, <1>10
  <2> QED BY ONLY <1>8, <1>11, <2>1, PartDiffers
<1>14. \A k, m \in 1..Len(Q[l]) : Q[l][k] = Q[l][m] => k = m
  <2>1. \A i, j \in 1..Len(FlattenSeq(Q)) : FlattenSeq(Q)[i] = FlattenSeq(Q)[j] => i = j
    BY ONLY <1>9, <1>11, <1>13
  <2> QED BY ONLY <1>8, <1>12, <2>1, PartDiffers
<1>15. ls[l] = LineAt(pl)
  BY ONLY <1>1, <1>5 DEF LineAt
<1> QED BY ONLY <1>12, <1>14, <1>15

\* Characters of a line that are at the same place are the same.
Apart(runs) ==
  \A r, q \in 1..Len(runs) : \A k \in 1..Len(runs[r].text) : \A m \in 1..Len(runs[q].text) :
    runs[r].text[k].at = runs[q].text[m].at => r = q /\ k = m

\* So are those of every line.
LEMMA LineApart ==
  ASSUME NEW runs, runs \in Seq(Run),
         \A k, m \in 1..Len(PlacesOf(runs)) : PlacesOf(runs)[k] = PlacesOf(runs)[m] => k = m
  PROVE  Apart(runs)
<1>1. PICK ss, n : ss = TextsOf(runs) /\ n = Len(runs) /\ n \in Nat
  OBVIOUS
<1>2. DOMAIN runs = 1..n
  BY ONLY <1>1, runs \in Seq(Run), LenProperties
<1>3. ss \in Seq(Seq(Char)) /\ Text(runs) \in Seq(Char)
  BY <1>1, TextType
<1>4. Len(ss) = n /\ \A r \in 1..n : ss[r] = runs[r].text
  BY ONLY <1>1, <1>2 DEF TextsOf
<1>5. Text(runs) = FlattenSeq(ss)
  BY ONLY <1>1 DEF Text, TextsOf
<1>6. PICK T : T = FlattenSeq(ss) /\ DOMAIN T = 1..Len(T) /\ Len(T) \in Nat
  BY ONLY <1>3, <1>5, LenProperties
<1>7. \A i, j \in 1..Len(T) : T[i].at = T[j].at => i = j
  <2>1. PlacesOf(runs) = [k \in 1..Len(T) |-> T[k].at]
    BY ONLY <1>5, <1>6 DEF PlacesOf
  <2>2. Len(PlacesOf(runs)) = Len(T)
    BY ONLY <1>6, <2>1
  <2> QED BY ONLY <2>1, <2>2,
        \A k, m \in 1..Len(PlacesOf(runs)) : PlacesOf(runs)[k] = PlacesOf(runs)[m] => k = m
<1>8. \A r \in 1..Len(ss) : \A k \in 1..Len(ss[r]) :
        /\ EndOf(ss, r - 1) + k \in 1..Len(FlattenSeq(ss))
        /\ FlattenSeq(ss)[EndOf(ss, r - 1) + k] = ss[r][k]
  BY ONLY <1>3, FlattenAt
<1>9. /\ \A r \in 0..n : EndOf(ss, r) \in Nat
      /\ \A r \in 1..n : Len(ss[r]) \in Nat /\ EndOf(ss, r) = EndOf(ss, r - 1) + Len(ss[r])
  BY ONLY <1>3, <1>4, Ends
<1>10. ASSUME NEW r, NEW q, NEW k, NEW m, r \in 1..n, q \in 1..n, r < q, k \in 1..Len(ss[r]),
              m \in 1..Len(ss[q]), EndOf(ss, r - 1) + k = EndOf(ss, q - 1) + m
       PROVE  FALSE
  <2>1. EndOf(ss, r) <= EndOf(ss, q - 1)
    <3>1. r \in 0..n /\ q - 1 \in 0..n /\ r <= q - 1
      BY ONLY <1>1, <1>10
    <3> QED BY ONLY <1>3, <1>4, <3>1, EndsOrdered
  <2>2. PICK a, b, c, d : a = EndOf(ss, r - 1) /\ b = EndOf(ss, r) /\ c = EndOf(ss, q - 1)
                          /\ d = Len(ss[r])
    OBVIOUS
  <2>3. b = a + d /\ k <= d /\ m >= 1 /\ a + k = c + m /\ b <= c
    BY ONLY <1>9, <1>10, <2>1, <2>2
  <2>4. a \in Nat /\ c \in Nat /\ d \in Nat
    <3>1. r - 1 \in 0..n /\ q - 1 \in 0..n
      BY ONLY <1>1, <1>10
    <3> QED BY ONLY <1>9, <1>10, <2>2, <3>1
  <2>5. k \in Int /\ m \in Int
    BY ONLY <1>10
  <2> QED BY ONLY <2>3, <2>4, <2>5
<1>11. ASSUME NEW r, NEW q, NEW k, NEW m, r \in 1..n, q \in 1..n, k \in 1..Len(ss[r]),
              m \in 1..Len(ss[q]), ss[r][k].at = ss[q][m].at
       PROVE  r = q /\ k = m
  <2>1. EndOf(ss, r - 1) + k = EndOf(ss, q - 1) + m
    <3>1. PICK i, j : i = EndOf(ss, r - 1) + k /\ j = EndOf(ss, q - 1) + m
      OBVIOUS
    <3>2. i \in 1..Len(T) /\ T[i] = ss[r][k] /\ j \in 1..Len(T) /\ T[j] = ss[q][m]
      BY ONLY <1>4, <1>6, <1>8, <1>11, <3>1
    <3> QED BY ONLY <1>7, <1>11, <3>1, <3>2
  <2>2. r = q
    <3>1. r = q \/ r < q \/ q < r
      BY ONLY <1>1, <1>11
    <3> QED BY ONLY <1>10, <1>11, <2>1, <3>1
  <2>3. k = m
    <3>1. EndOf(ss, r - 1) \in Nat
      <4>1. r - 1 \in 0..n
        BY ONLY <1>1, <1>11
      <4> QED BY ONLY <1>9, <4>1
    <3>2. k \in Int /\ m \in Int
      BY ONLY <1>11
    <3> QED BY ONLY <2>1, <2>2, <3>1, <3>2
  <2> QED BY ONLY <2>2, <2>3
<1> QED BY ONLY <1>1, <1>4, <1>11 DEF Apart
-----------------------------------------------------------------------------
(* The letters of one character *)

\* The letters of a sequence that stand for the character at a place.
PickOf(e, at) == IF e.at = at THEN <<e.cp>> ELSE <<>>
Picks(s, at) == [g \in 1..Len(s) |-> PickOf(s[g], at)]
Picked(s, at) == FlattenSeq(Picks(s, at))

\* The elements of a set have letters.
Lettered(S) == \A x \in S : x.cp \in Cps

\* One letter or none is picked at each place.
LEMMA PicksAre ==
  ASSUME NEW S, Lettered(S), NEW s, s \in Seq(S), NEW at
  PROVE  /\ Picks(s, at) \in Seq(Seq(Cps)) /\ Len(Picks(s, at)) = Len(s)
         /\ \A g \in 1..Len(s) : Picks(s, at)[g] = PickOf(s[g], at)
         /\ Picked(s, at) \in Seq(Cps)
<1> DEFINE W == Seq(Cps)
<1>1. \A g \in 1..Len(s) : PickOf(s[g], at) \in W
  <2> SUFFICES ASSUME NEW g, g \in 1..Len(s) PROVE PickOf(s[g], at) \in W
    OBVIOUS
  <2>1. s[g] \in S
    BY ONLY g \in 1..Len(s), s \in Seq(S), ElementOfSeq
  <2>2. s[g].cp \in Cps
    BY <2>1 DEF Lettered
  <2>3. <<s[g].cp>> \in W /\ <<>> \in W
    BY <2>2
  <2> QED BY <2>3 DEF PickOf
<1>2. Len(s) \in Nat
  OBVIOUS
<1> HIDE DEF W
<1>3. /\ Picks(s, at) \in Seq(W) /\ Len(Picks(s, at)) = Len(s)
      /\ \A g \in 1..Len(s) : Picks(s, at)[g] = PickOf(s[g], at)
  BY ONLY <1>1, <1>2 DEF Picks
<1>4. Picks(s, at) \in Seq(Seq(Cps))
  BY <1>3 DEF W
<1> QED BY <1>3, <1>4, FlattenType DEF Picked

\* What is picked from two sequences, one after the other.
LEMMA PickedConcat ==
  ASSUME NEW S, Lettered(S), NEW a, NEW b, a \in Seq(S), b \in Seq(S), NEW at
  PROVE  Picked(a \o b, at) = Picked(a, at) \o Picked(b, at)
<1> DEFINE W == Seq(Cps)
<1>1. PICK c : c = a \o b
  OBVIOUS
<1>2. /\ c \in Seq(S) /\ Len(c) = Len(a) + Len(b)
      /\ \A i \in 1..Len(a) : c[i] = a[i]
      /\ \A i \in 1..Len(b) : c[Len(a) + i] = b[i]
  BY ONLY <1>1, a \in Seq(S), b \in Seq(S), ConcatIs
<1>3. PICK p, q, r : p = Picks(a, at) /\ q = Picks(b, at) /\ r = Picks(c, at)
  OBVIOUS
<1>4. p \in Seq(W) /\ Len(p) = Len(a) /\ \A g \in 1..Len(a) : p[g] = PickOf(a[g], at)
  BY ONLY <1>3, Lettered(S), a \in Seq(S), PicksAre
<1>40. q \in Seq(W) /\ Len(q) = Len(b) /\ \A g \in 1..Len(b) : q[g] = PickOf(b[g], at)
  BY ONLY <1>3, Lettered(S), b \in Seq(S), PicksAre
<1>41. r \in Seq(W) /\ Len(r) = Len(c) /\ \A g \in 1..Len(c) : r[g] = PickOf(c[g], at)
  BY ONLY <1>2, <1>3, Lettered(S), PicksAre
<1> HIDE DEF W
<1>42. p \in Seq(W) /\ q \in Seq(W)
  BY <1>4, <1>40
<1>5. PICK t : t = p \o q
  OBVIOUS
<1>6. /\ t \in Seq(W) /\ Len(t) = Len(p) + Len(q)
      /\ \A i \in 1..Len(p) : t[i] = p[i]
      /\ \A i \in 1..Len(q) : t[Len(p) + i] = q[i]
  BY ONLY <1>42, <1>5, ConcatIs
<1>70. Len(a) \in Nat /\ Len(b) \in Nat
  BY ONLY a \in Seq(S), b \in Seq(S), LenProperties
<1>7. PICK m, n : m = Len(a) /\ n = Len(b) /\ m \in Nat /\ n \in Nat
  BY ONLY <1>70
<1>8. \A i \in 1..m + n : t[i] = r[i]
  <2> SUFFICES ASSUME NEW i, i \in 1..m + n PROVE t[i] = r[i]
    OBVIOUS
  <2>1. CASE i <= m
    <3>1. i \in 1..m
      BY ONLY <1>7, <2>1, i \in 1..m + n
    <3> QED BY ONLY <1>2, <1>4, <1>40, <1>41, <1>6, <1>7, <3>1, i \in 1..m + n
  <2>2. CASE ~(i <= m)
    <3>1. PICK j : j = i - m
      OBVIOUS
    <3>2. j \in 1..n /\ i = m + j
      BY ONLY <1>7, <2>2, <3>1, i \in 1..m + n
    <3> QED BY ONLY <1>2, <1>4, <1>40, <1>41, <1>6, <1>7, <3>2, i \in 1..m + n
  <2> QED BY <2>1, <2>2
<1>9. Len(t) = m + n /\ Len(r) = m + n
  BY ONLY <1>2, <1>4, <1>40, <1>41, <1>6, <1>7
<1>10. t = r
  BY ONLY <1>41, <1>6, <1>8, <1>9, SeqEqual
<1>11. FlattenSeq(p \o q) = FlattenSeq(p) \o FlattenSeq(q)
  BY <1>42, FlattenConcat DEF W
<1> QED BY ONLY <1>1, <1>3, <1>5, <1>10, <1>11 DEF Picked

\* What is picked from several.
PickedEach(ss, at) == [r \in 1..Len(ss) |-> Picked(ss[r], at)]

\* It is a sequence for each.
LEMMA PickedEachType ==
  ASSUME NEW S, Lettered(S), NEW ss, ss \in Seq(Seq(S)), NEW at
  PROVE  /\ PickedEach(ss, at) \in Seq(Seq(Cps)) /\ Len(PickedEach(ss, at)) = Len(ss)
         /\ \A r \in 1..Len(ss) : PickedEach(ss, at)[r] = Picked(ss[r], at)
<1> DEFINE W == Seq(Cps)
           SS == Seq(S)
<1>1. \A r \in 1..Len(ss) : Picked(ss[r], at) \in W
  <2> SUFFICES ASSUME NEW r, r \in 1..Len(ss) PROVE Picked(ss[r], at) \in W
    OBVIOUS
  <2>1. ss \in Seq(SS)
    OBVIOUS
  <2>2. ss[r] \in SS
    <3> HIDE DEF SS
    <3> QED BY ONLY <2>1, r \in 1..Len(ss), ElementOfSeq
  <2> QED BY <2>2, PicksAre
<1>2. Len(ss) \in Nat
  OBVIOUS
<1> HIDE DEF W
<1>3. /\ PickedEach(ss, at) \in Seq(W) /\ Len(PickedEach(ss, at)) = Len(ss)
      /\ \A r \in 1..Len(ss) : PickedEach(ss, at)[r] = Picked(ss[r], at)
  BY ONLY <1>1, <1>2 DEF PickedEach
<1> QED BY <1>3 DEF W

\* What is picked from several, put together, is what is picked from each.
LEMMA PickedFlatten ==
  ASSUME NEW S, Lettered(S), NEW ss, ss \in Seq(Seq(S)), NEW at
  PROVE  Picked(FlattenSeq(ss), at) = FlattenSeq(PickedEach(ss, at))
<1> DEFINE SS == Seq(S)
           W == Seq(Cps)
           T == {x \in Seq(SS) : Picked(FlattenSeq(x), at) = FlattenSeq(PickedEach(x, at))}
<1>1. <<>> \in T
  <2>1. PickedEach(<<>>, at) = <<>> /\ Picks(<<>>, at) = <<>>
    BY DEF PickedEach, Picks
  <2>2. Picked(FlattenSeq(<<>>), at) = FlattenSeq(PickedEach(<<>>, at))
    BY ONLY <2>1, FlattenEmpty DEF Picked
  <2> QED BY <2>2
<1>2. ASSUME NEW t \in Seq(SS), NEW x \in SS, t \in T PROVE Append(t, x) \in T
  <2>1. FlattenSeq(Append(t, x)) = FlattenSeq(t) \o x
    BY FlattenAppend
  <2>2. FlattenSeq(t) \in Seq(S) /\ x \in Seq(S)
    BY FlattenType
  <2>3. Picked(FlattenSeq(t) \o x, at) = Picked(FlattenSeq(t), at) \o Picked(x, at)
    BY <2>2, PickedConcat
  <2>4. Picked(FlattenSeq(t), at) = FlattenSeq(PickedEach(t, at))
    BY <1>2
  <2>5. PICK more, p, e, u : /\ more = Append(t, x) /\ p = PickedEach(t, at)
                             /\ e = Picked(x, at) /\ u = PickedEach(more, at)
    OBVIOUS
  <2>6. more \in Seq(SS) /\ Len(more) = Len(t) + 1 /\ more[Len(t) + 1] = x
        /\ \A i \in 1..Len(t) : more[i] = t[i]
    <3> HIDE DEF SS, T
    <3> QED BY <2>5, AppendIs
  <2>7. /\ p \in Seq(W) /\ Len(p) = Len(t) /\ \A r \in 1..Len(t) : p[r] = Picked(t[r], at)
    BY <2>5, PickedEachType
  <2>8. /\ u \in Seq(W) /\ Len(u) = Len(more) /\ \A r \in 1..Len(more) : u[r] = Picked(more[r], at)
    BY <2>5, <2>6, PickedEachType
  <2>9. e \in W
    BY <2>2, <2>5, PicksAre
  <2>10. Len(t) \in Nat
    OBVIOUS
  <2>11. PICK v : v = Append(p, e)
    OBVIOUS
  <2> HIDE DEF SS, W, T
  <2>12. /\ v \in Seq(W) /\ Len(v) = Len(p) + 1 /\ v[Len(p) + 1] = e
         /\ \A i \in 1..Len(p) : v[i] = p[i]
    BY ONLY <2>7, <2>9, <2>11, AppendIs
  <2>13. \A i \in 1..Len(t) + 1 : u[i] = v[i]
    <3> SUFFICES ASSUME NEW i, i \in 1..Len(t) + 1 PROVE u[i] = v[i]
      OBVIOUS
    <3>1. CASE i = Len(t) + 1
      BY ONLY <2>5, <2>6, <2>7, <2>8, <2>12, <3>1, i \in 1..Len(t) + 1
    <3>2. CASE i # Len(t) + 1
      <4>1. i \in 1..Len(t)
        BY ONLY <2>10, <3>2, i \in 1..Len(t) + 1
      <4> QED BY ONLY <2>6, <2>7, <2>8, <2>12, <4>1, i \in 1..Len(t) + 1
    <3> QED BY <3>1, <3>2
  <2>14. Len(u) = Len(t) + 1 /\ Len(v) = Len(t) + 1
    BY ONLY <2>6, <2>7, <2>8, <2>12
  <2>15. u = v
    BY ONLY <2>8, <2>12, <2>13, <2>14, SeqEqual
  <2>16. FlattenSeq(Append(p, e)) = FlattenSeq(p) \o e
    <3>1. p \in Seq(Seq(Cps)) /\ e \in Seq(Cps)
      BY <2>7, <2>9 DEF W
    <3> QED BY ONLY <3>1, FlattenAppend
  <2>17. Picked(FlattenSeq(more), at) = FlattenSeq(PickedEach(more, at))
    BY ONLY <2>1, <2>3, <2>4, <2>5, <2>11, <2>15, <2>16
  <2> QED BY <2>6, <2>17, <2>5 DEF T
<1>3. \A x \in Seq(SS) : x \in T
  <2> HIDE DEF T, SS
  <2> QED BY <1>1, <1>2, InductionOnSequences
<1>4. ss \in Seq(SS)
  OBVIOUS
<1> QED BY <1>3, <1>4

\* What is picked from a sequence turned around.
LEMMA PickedReverse ==
  ASSUME NEW S, Lettered(S), NEW s, s \in Seq(S), NEW at
  PROVE  Picked(Reverse(s), at) = Reverse(Picked(s, at))
<1> DEFINE W == Seq(Cps)
<1>1. PICK p, q, b : p = Picks(s, at) /\ b = Reverse(s) /\ q = Picks(b, at)
  OBVIOUS
<1>2. b \in Seq(S) /\ Len(b) = Len(s) /\ \A i \in 1..Len(s) : b[i] = s[Len(s) - i + 1]
  BY <1>1, ReverseIs
<1>3. /\ p \in Seq(W) /\ Len(p) = Len(s) /\ \A g \in 1..Len(s) : p[g] = PickOf(s[g], at)
      /\ q \in Seq(W) /\ Len(q) = Len(b) /\ \A g \in 1..Len(b) : q[g] = PickOf(b[g], at)
  BY <1>1, <1>2, PicksAre
<1>4. Reverse(FlattenSeq(p)) = FlattenSeq([r \in 1..Len(p) |-> Reverse(Reverse(p)[r])])
  BY <1>3, FlattenReverse
<1>5. Len(s) \in Nat /\ \A i \in 1..Len(s) : Len(s) - i + 1 \in 1..Len(s)
  OBVIOUS
<1>6. \A i \in 1..Len(p) : Reverse(Reverse(p)[i]) = q[i]
  <2> SUFFICES ASSUME NEW i, i \in 1..Len(s) PROVE Reverse(Reverse(p)[i]) = q[i]
    BY <1>3
  <2>1. Reverse(p)[i] = p[Len(s) - i + 1]
    <3> HIDE DEF W
    <3>1. \A j \in 1..Len(p) : Reverse(p)[j] = p[Len(p) - j + 1]
      BY <1>3, ReverseIs
    <3> QED BY ONLY <1>3, <3>1, i \in 1..Len(s)
  <2>2. p[Len(s) - i + 1] = PickOf(b[i], at) /\ q[i] = PickOf(b[i], at)
    BY ONLY <1>2, <1>3, <1>5, i \in 1..Len(s)
  <2>3. q[i] \in W /\ Len(q[i]) <= 1
    <3>1. q[i] \in W
      <4> HIDE DEF W
      <4> QED BY ONLY <1>2, <1>3, i \in 1..Len(s), ElementOfSeq
    <3>2. Len(PickOf(b[i], at)) <= 1
      BY DEF PickOf
    <3> QED BY <2>2, <3>1, <3>2
  <2>4. Reverse(q[i]) = q[i]
    BY <2>3, ReverseShort
  <2> QED BY ONLY <2>1, <2>2, <2>4
<1>7. [r \in 1..Len(p) |-> Reverse(Reverse(p)[r])] = [r \in 1..Len(p) |-> q[r]]
  BY <1>6
<1>8. q = [r \in 1..Len(p) |-> q[r]]
  <2> HIDE DEF W
  <2> QED BY ONLY <1>2, <1>3
<1> QED BY ONLY <1>1, <1>4, <1>7, <1>8 DEF Picked

\* The letters of a word are those that stand for the character at a place, behind
\* a place of the text.
Occupies(text, at, lo, w) ==
  /\ lo \in Nat /\ w \in Seq(Cps)
  /\ \A j \in 1..Len(w) : /\ lo + j \in 1..Len(text)
                          /\ text[lo + j].cp = w[j] /\ text[lo + j].at = at
  /\ \A i \in 1..Len(text) : text[i].at = at => \E j \in 1..Len(w) : i = lo + j

\* Two characters of a line have two places.
LEMMA ApartAt ==
  ASSUME NEW runs, Apart(runs), NEW q, NEW l, NEW r, NEW k, q \in 1..Len(runs),
         l \in 1..Len(runs[q].text), r \in 1..Len(runs), k \in 1..Len(runs[r].text),
         runs[q].text[l].at = runs[r].text[k].at
  PROVE  q = r /\ l = k
BY DEF Apart

\* What a character is replaced by stands in one place of the text.
LEMMA CharacterIs ==
  ASSUME NEW runs, Known(runs), Apart(runs), NEW face, face \subseteq Letters,
         NEW r, r \in 1..Len(runs), NEW k, k \in 1..Len(runs[r].text),
         NEW c, c = runs[r].text[k], NEW w, w = NormalizeForFace(Cp(c), face),
         NEW text, text = FullText(runs, face)
  PROVE  \E lo : Occupies(text, c.at, lo, w)
<1>1. PICK ps : ps = Pieces(runs, face)
  OBVIOUS
<1>2. /\ ps \in Seq(Seq(Letter)) /\ Len(ps) = Len(runs)
      /\ \A q \in 1..Len(runs) : ps[q] = Normalized(runs[q].text, face)
      /\ text = FlattenSeq(ps)
  BY ONLY <1>1, Known(runs), face \subseteq Letters, text = FullText(runs, face), PiecesAre
<1>3. /\ runs \in Seq(Run) /\ Len(runs) \in Nat
      /\ \A q \in 1..Len(runs) : \A m \in 1..Len(runs[q].text) : Cp(runs[q].text[m]) \in Cps
  BY ONLY Known(runs), LenProperties DEF Known
<1>4. \A q \in 1..Len(runs) : runs[q].text \in Seq(Char)
  <2> SUFFICES ASSUME NEW q, q \in 1..Len(runs) PROVE runs[q].text \in Seq(Char)
    OBVIOUS
  <2>1. runs[q] \in Run
    BY ONLY <1>3, q \in 1..Len(runs), ElementOfSeq
  <2> QED BY ONLY <2>1 DEF Run
<1> DEFINE Each(q) == ForEach(runs[q].text, face)
<1>5. ASSUME NEW q, q \in 1..Len(runs)
      PROVE  /\ Each(q) \in Seq(Seq(Letter)) /\ Len(Each(q)) = Len(runs[q].text)
             /\ ps[q] = FlattenSeq(Each(q))
  <2>1. PICK tx : tx = runs[q].text
    OBVIOUS
  <2>2. tx \in Seq(Char) /\ \A m \in 1..Len(tx) : Cp(tx[m]) \in Cps
    BY ONLY <1>3, <1>4, <1>5, <2>1
  <2>3. /\ ForEach(tx, face) \in Seq(Seq(Letter)) /\ Len(ForEach(tx, face)) = Len(tx)
        /\ Normalized(tx, face) = FlattenSeq(ForEach(tx, face))
    BY ONLY <2>2, face \subseteq Letters, ForEachIs
  <2> QED BY ONLY <1>2, <1>5, <2>1, <2>3
<1>6. ASSUME NEW q, q \in 1..Len(runs), NEW l, l \in 1..Len(runs[q].text)
      PROVE  /\ Each(q)[l] = For(runs[q].text[l].at, NormalizeForFace(Cp(runs[q].text[l]), face))
             /\ Len(Each(q)[l]) = Len(NormalizeForFace(Cp(runs[q].text[l]), face))
             /\ NormalizeForFace(Cp(runs[q].text[l]), face) \in Seq(Cps)
             /\ \A j \in 1..Len(Each(q)[l]) :
                  /\ Each(q)[l][j].cp = NormalizeForFace(Cp(runs[q].text[l]), face)[j]
                  /\ Each(q)[l][j].at = runs[q].text[l].at
  <2>1. PICK d, e, u : d = runs[q].text[l] /\ e = Each(q)[l] /\ u = NormalizeForFace(Cp(d), face)
    OBVIOUS
  <2>2. e = For(d.at, u)
    BY ONLY <1>6, <2>1 DEF ForEach
  <2>3. d.at \in Nat
    <3>1. d \in Char
      <4>1. runs[q].text \in Seq(Char)
        BY ONLY <1>4, <1>6
      <4> QED BY ONLY <1>6, <2>1, <4>1, ElementOfSeq
    <3> QED BY <3>1 DEF Char
  <2>4. u \in Seq(Cps)
    <3>1. Cp(d) \in Cps
      BY ONLY <1>3, <1>6, <2>1
    <3> QED BY ONLY <2>1, <3>1, face \subseteq Letters, NormalizedLetters
  <2>5. /\ Len(e) = Len(u)
        /\ \A j \in 1..Len(u) : e[j].cp = u[j] /\ e[j].at = d.at
    BY ONLY <2>2, <2>3, <2>4, ForIs
  <2> QED BY ONLY <2>1, <2>2, <2>4, <2>5
<1> HIDE DEF Each
<1>7. PICK e, a, b, n : /\ e = Each(r) /\ a = EndOf(ps, r - 1) /\ b = EndOf(e, k - 1)
                        /\ n = Len(e)
  OBVIOUS
<1>8. e \in Seq(Seq(Letter)) /\ n = Len(runs[r].text) /\ ps[r] = FlattenSeq(e) /\ k \in 1..n
      /\ n \in Nat
  <2>1. e \in Seq(Seq(Letter)) /\ Len(e) = Len(runs[r].text) /\ ps[r] = FlattenSeq(e)
    BY ONLY <1>5, <1>7, r \in 1..Len(runs)
  <2>2. Len(e) \in Nat
    BY ONLY <2>1, LenProperties
  <2> QED BY ONLY <1>7, <2>1, <2>2, k \in 1..Len(runs[r].text)
<1>9. a \in Nat /\ b \in Nat
  <2>1. \A q \in 0..Len(ps) : EndOf(ps, q) \in Nat
    BY ONLY <1>2, Ends
  <2>2. \A q \in 0..n : EndOf(e, q) \in Nat
    <3>1. \A q \in 0..Len(e) : EndOf(e, q) \in Nat
      BY ONLY <1>8, Ends
    <3> QED BY ONLY <1>7, <3>1
  <2>3. r - 1 \in 0..Len(ps) /\ k - 1 \in 0..n
    BY ONLY <1>2, <1>3, <1>8, r \in 1..Len(runs)
  <2> QED BY ONLY <1>7, <2>1, <2>2, <2>3
<1>10. Len(e[k]) = Len(w) /\ w \in Seq(Cps)
       /\ \A j \in 1..Len(w) : e[k][j].cp = w[j] /\ e[k][j].at = c.at
  BY ONLY <1>6, <1>7, r \in 1..Len(runs), k \in 1..Len(runs[r].text), c = runs[r].text[k],
          w = NormalizeForFace(Cp(c), face)
<1>11. \A j \in 1..Len(w) : b + j \in 1..Len(ps[r]) /\ ps[r][b + j] = e[k][j]
  <2>1. \A l \in 1..Len(e) : \A j \in 1..Len(e[l]) :
          /\ EndOf(e, l - 1) + j \in 1..Len(FlattenSeq(e))
          /\ FlattenSeq(e)[EndOf(e, l - 1) + j] = e[l][j]
    BY ONLY <1>8, FlattenAt
  <2> QED BY ONLY <1>7, <1>8, <1>10, <2>1
<1>12. \A j \in 1..Len(ps[r]) : a + j \in 1..Len(text) /\ text[a + j] = ps[r][j]
  <2>1. \A q \in 1..Len(ps) : \A j \in 1..Len(ps[q]) :
          /\ EndOf(ps, q - 1) + j \in 1..Len(FlattenSeq(ps))
          /\ FlattenSeq(ps)[EndOf(ps, q - 1) + j] = ps[q][j]
    BY ONLY <1>2, FlattenAt
  <2> QED BY ONLY <1>2, <1>7, <2>1, r \in 1..Len(runs)
<1>13. \A j \in 1..Len(w) : /\ (a + b) + j \in 1..Len(text)
                            /\ text[(a + b) + j].cp = w[j] /\ text[(a + b) + j].at = c.at
  <2> SUFFICES ASSUME NEW j, j \in 1..Len(w)
               PROVE  /\ (a + b) + j \in 1..Len(text)
                      /\ text[(a + b) + j].cp = w[j] /\ text[(a + b) + j].at = c.at
    OBVIOUS
  <2>1. a + (b + j) \in 1..Len(text) /\ text[a + (b + j)] = e[k][j]
    BY ONLY <1>11, <1>12, j \in 1..Len(w)
  <2>2. a + (b + j) = (a + b) + j
    BY ONLY <1>9, j \in 1..Len(w)
  <2> QED BY ONLY <1>10, <2>1, <2>2, j \in 1..Len(w)
<1>14. ASSUME NEW i, i \in 1..Len(text), text[i].at = c.at
       PROVE  \E j \in 1..Len(w) : i = (a + b) + j
  <2>1. i \in 1..Len(FlattenSeq(ps))
    BY ONLY <1>2, <1>14
  <2>2. ps \in Seq(Seq(Letter))
    BY ONLY <1>2
  <2>3. \E q \in 1..Len(ps) : \E f \in 1..Len(ps[q]) :
           i = EndOf(ps, q - 1) + f /\ FlattenSeq(ps)[i] = ps[q][f]
    BY ONLY <2>1, <2>2, FlattenFrom
  <2>4. PICK q, f : /\ q \in 1..Len(runs) /\ f \in 1..Len(ps[q])
                    /\ i = EndOf(ps, q - 1) + f /\ text[i] = ps[q][f]
    BY ONLY <1>2, <2>3
  <2>5. PICK g : g = Each(q)
    OBVIOUS
  <2>6. g \in Seq(Seq(Letter)) /\ Len(g) = Len(runs[q].text) /\ ps[q] = FlattenSeq(g)
    BY ONLY <1>5, <2>4, <2>5
  <2>7. g \in Seq(Seq(Letter))
    BY ONLY <2>6
  <2>8. f \in 1..Len(FlattenSeq(g))
    BY ONLY <2>4, <2>6
  <2>9. \E l \in 1..Len(g) : \E j \in 1..Len(g[l]) :
           f = EndOf(g, l - 1) + j /\ FlattenSeq(g)[f] = g[l][j]
    BY ONLY <2>7, <2>8, FlattenFrom
  <2>10. PICK l, j : /\ l \in 1..Len(runs[q].text) /\ j \in 1..Len(g[l])
                     /\ f = EndOf(g, l - 1) + j /\ ps[q][f] = g[l][j]
    BY ONLY <2>6, <2>9
  <2>11. g[l][j].at = runs[q].text[l].at
    BY ONLY <1>6, <2>4, <2>5, <2>10
  <2>12. runs[q].text[l].at = runs[r].text[k].at
    BY ONLY <1>14, <2>4, <2>10, <2>11, c = runs[r].text[k]
  <2>13. q = r /\ l = k
    <3>1. q \in 1..Len(runs) /\ l \in 1..Len(runs[q].text)
      BY ONLY <2>4, <2>10
    <3> QED BY ONLY Apart(runs), <2>12, <3>1, r \in 1..Len(runs), k \in 1..Len(runs[r].text),
                    ApartAt
  <2>14. g = e /\ EndOf(ps, q - 1) = a /\ EndOf(g, l - 1) = b
    BY ONLY <1>7, <2>5, <2>13
  <2>15. i = a + (b + j) /\ j \in 1..Len(w)
    BY ONLY <1>10, <2>4, <2>10, <2>13, <2>14
  <2>16. a + (b + j) = (a + b) + j
    BY ONLY <1>9, <2>15
  <2> QED BY ONLY <2>15, <2>16
<1>15. a + b \in Nat
  BY ONLY <1>9
<1>16. Occupies(text, c.at, a + b, w)
  BY ONLY <1>10, <1>13, <1>14, <1>15 DEF Occupies
<1> QED BY ONLY <1>16

\* A letter comes out in a spelling of what it was normalized from: alone, or with
\* others that all stay as they are.
WrittenWell(cp, w, fonts) ==
  \/ /\ Len(w) = 1 /\ Writing(w[1], fonts) \in Spellings(cp)
     /\ Writing(w[1], fonts) = <<w[1]>> \/ Class(w[1]) = "R"
  \/ /\ w \in Spellings(cp)
     /\ \A j \in 1..Len(w) : Class(w[j]) = "R" /\ Writing(w[j], fonts) = <<w[j]>>

\* No form, no other way to write it.
LEMMA PlainIs ==
  ASSUME NEW x, x \notin Forms, NEW fonts
  PROVE  Writing(x, fonts) = <<x>>
BY DEF Writing, NormalizeForFace

\* What is neither Latin nor a digit nor a space goes from right to left.
LEMMA ClassOfForm ==
  ASSUME NEW x, x \in Letters, x \notin Latin \cup Digits
  PROVE  Class(x) = "R"
BY ShapingAssumption DEF Class

\* So it is with every letter, as the assumptions on the table of forms are.
LEMMA LettersWritten ==
  ASSUME NEW cp, cp \in Cps, NEW fonts, fonts \in Fonts, NEW w, w = NormalizeForFace(cp, fonts.primary)
  PROVE  WrittenWell(cp, w, fonts)
<1>1. fonts.primary \subseteq Letters /\ fonts.fallback \subseteq Letters
  BY FontsUsable
<1>2. ReplacedBy(cp, fonts.primary, w) /\ w \in Spellings(cp) /\ w \in Seq(Cps)
  <2>1. ReplacedBy(cp, fonts.primary, w)
    BY ONLY <1>1, w = NormalizeForFace(cp, fonts.primary), NormalizedIs
  <2> QED BY <1>1, <2>1, NormalizedLetters
<1>3. ASSUME NEW x, w = <<x>> PROVE WrittenWell(cp, w, fonts)
  <2>1. Len(w) = 1 /\ w[1] = x
    BY ONLY <1>3, OneIsNotEmpty
  <2>2. CASE Writing(x, fonts) = <<x>>
    <3>1. Len(w) = 1 /\ Writing(w[1], fonts) \in Spellings(cp) /\ Writing(w[1], fonts) = <<w[1]>>
      BY ONLY <1>2, <1>3, <2>1, <2>2
    <3> QED BY ONLY <3>1 DEF WrittenWell
  <2>3. CASE Writing(x, fonts) # <<x>>
    <3>1. x \in Forms
      BY <2>3, PlainIs
    <3>2. Falls(x, fonts) /\ Writing(x, fonts) = NormalizeForFace(x, fonts.fallback)
      BY ONLY <2>3 DEF Writing
    <3>3. ~HasGlyph(fonts.primary, x)
      BY ONLY <3>2 DEF Falls
    <3>4. 1 \in 1..Len(w)
      BY ONLY <2>1
    <3>5. x = cp \/ x \notin Forms
      <4>1. \/ w[1] = cp
            \/ /\ cp \in Forms /\ Len(Base(cp)) > 1 /\ w[1] \in Letters \ Forms /\ w[1] # Tatweel
               /\ \E j \in 1..Len(Base(cp)) : Base(cp)[j] = w[1]
        BY ONLY <1>2, <2>1, <3>3, <3>4, LackedLetter
      <4> QED BY ONLY <2>1, <4>1
    <3>6. x = cp
      BY ONLY <3>1, <3>5
    <3>7. Writing(x, fonts) \in Spellings(cp)
      <4>1. NormalizeForFace(cp, fonts.fallback) \in Spellings(cp)
        BY ONLY <1>1, cp \in Cps, NormalizedLetters
      <4> QED BY ONLY <3>2, <3>6, <4>1
    <3>8. Class(x) = "R"
      BY ONLY <3>1, FormIs, ClassOfForm
    <3> QED BY ONLY <2>1, <3>7, <3>8 DEF WrittenWell
  <2> QED BY <2>2, <2>3
<1>4. ASSUME cp \in Forms, w = Base(cp) \/ w = WithoutTatweel(Base(cp)) PROVE WrittenWell(cp, w, fonts)
  <2>1. PICK b : b = Base(cp)
    OBVIOUS
  <2>2. b \in Seq(Letters)
        /\ \A k \in 1..Len(b) : b[k] \in Letters \ Forms /\ b[k] \notin Latin \cup Digits
    BY ONLY <1>4, <2>1, FormIs
  <2>3. \A j \in 1..Len(w) : \E k \in 1..Len(b) : w[j] = b[k]
    <3>1. CASE w = b
      BY ONLY <3>1
    <3>2. CASE w = WithoutTatweel(b)
      <4>1. \A i \in 1..Len(WithoutTatweel(b)) :
              \E k \in 1..Len(b) : b[k] # Tatweel /\ WithoutTatweel(b)[i] = b[k]
        BY ONLY <2>2, WithoutIs
      <4> QED BY ONLY <3>2, <4>1
    <3> QED BY ONLY <1>4, <2>1, <3>1, <3>2
  <2>4. \A j \in 1..Len(w) : Class(w[j]) = "R" /\ Writing(w[j], fonts) = <<w[j]>>
    <3> SUFFICES ASSUME NEW j, j \in 1..Len(w)
                 PROVE  Class(w[j]) = "R" /\ Writing(w[j], fonts) = <<w[j]>>
      OBVIOUS
    <3>1. w[j] \in Letters /\ w[j] \notin Forms /\ w[j] \notin Latin \cup Digits
      BY ONLY <2>2, <2>3, j \in 1..Len(w)
    <3> QED BY ONLY <3>1, PlainIs, ClassOfForm
  <2> QED BY ONLY <1>2, <2>4 DEF WrittenWell
<1>5. \/ \E x : w = <<x>>
      \/ cp \in Forms /\ (w = Base(cp) \/ w = WithoutTatweel(Base(cp)))
  <2>1. \/ w = <<cp>>
        \/ /\ cp \in Forms
           /\ \/ w = Base(cp) \/ w = WithoutTatweel(Base(cp))
              \/ \E e \in DOMAIN FormEntries :
                   FormEntries[e].base = Base(cp) /\ w = <<FormEntries[e].cp>>
    BY ONLY <1>2, SpellingIs
  <2> QED BY ONLY <2>1
<1> QED BY ONLY <1>3, <1>4, <1>5

\* Parts of one element, behind and before empty ones, are a sequence.
Interval(ss, w, p) ==
  \A v \in 1..Len(ss) :
    /\ p < v /\ v <= p + Len(w) => ss[v] = <<w[v - p]>>
    /\ ~(p < v /\ v <= p + Len(w)) => ss[v] = <<>>

\* Put together they are that sequence.
LEMMA FlattenInterval ==
  ASSUME NEW S, NEW ss, ss \in Seq(Seq(S)), NEW w, w \in Seq(S), NEW p, p \in Nat,
         p + Len(w) <= Len(ss), Interval(ss, w, p)
  PROVE  FlattenSeq(ss) = w
<1>1. PICK m, n, W : m = Len(w) /\ n = Len(ss) /\ W = FlattenSeq(ss)
  OBVIOUS
<1>2. m \in Nat /\ n \in Nat /\ W \in Seq(S) /\ p + m <= n
  <2>1. Len(w) \in Nat
    BY ONLY w \in Seq(S), LenProperties
  <2>2. Len(ss) \in Nat
    BY ONLY ss \in Seq(Seq(S)), LenProperties
  <2>3. W \in Seq(S)
    BY ONLY <1>1, ss \in Seq(Seq(S)), FlattenType
  <2> QED BY ONLY <1>1, <2>1, <2>2, <2>3, p + Len(w) <= Len(ss)
<1>3. ASSUME NEW v, v \in 1..n
      PROVE  /\ p < v /\ v <= p + m => ss[v] = <<w[v - p]>> /\ Len(ss[v]) = 1
             /\ ~(p < v /\ v <= p + m) => Len(ss[v]) = 0
  <2>1. /\ p < v /\ v <= p + m => ss[v] = <<w[v - p]>>
        /\ ~(p < v /\ v <= p + m) => ss[v] = <<>>
    BY ONLY <1>1, <1>3, Interval(ss, w, p) DEF Interval
  <2>2. Len(<<w[v - p]>>) = 1 /\ Len(<<>>) = 0
    OBVIOUS
  <2> QED BY ONLY <2>1, <2>2
<1>4. /\ EndOf(ss, 0) = 0 /\ EndOf(ss, n) = Len(W)
      /\ \A r \in 0..n : EndOf(ss, r) \in Nat
      /\ \A r \in 1..n : Len(ss[r]) \in Nat /\ EndOf(ss, r) = EndOf(ss, r - 1) + Len(ss[r])
  BY ONLY <1>1, ss \in Seq(Seq(S)), Ends
<1> DEFINE T == {v \in Nat : v <= n =>
                   EndOf(ss, v) = IF v <= p THEN 0 ELSE IF v <= p + m THEN v - p ELSE m}
<1>5. 0 \in T
  BY ONLY <1>2, <1>4, p \in Nat
<1>6. ASSUME NEW v \in Nat, v \in T PROVE v + 1 \in T
  <2> SUFFICES ASSUME v + 1 <= n
               PROVE  EndOf(ss, v + 1)
                        = IF v + 1 <= p THEN 0 ELSE IF v + 1 <= p + m THEN v + 1 - p ELSE m
    OBVIOUS
  <2>1. EndOf(ss, v) = IF v <= p THEN 0 ELSE IF v <= p + m THEN v - p ELSE m
    BY ONLY <1>2, <1>6, v + 1 <= n
  <2>2. PICK u : u = v + 1
    OBVIOUS
  <2>3. u \in 1..n /\ u - 1 = v
    BY ONLY <1>2, <2>2, v \in Nat, v + 1 <= n
  <2>4. EndOf(ss, u) = EndOf(ss, v) + Len(ss[u])
    BY ONLY <1>4, <2>3
  <2>5. Len(ss[u]) = IF p < u /\ u <= p + m THEN 1 ELSE 0
    BY ONLY <1>3, <2>3
  <2> QED BY ONLY <1>2, <2>1, <2>2, <2>4, <2>5, v \in Nat, p \in Nat
<1>7. \A v \in Nat : v \in T
  <2> HIDE DEF T
  <2> QED BY <1>5, <1>6, Induction
<1>8. \A v \in 0..n : EndOf(ss, v) = IF v <= p THEN 0 ELSE IF v <= p + m THEN v - p ELSE m
  BY <1>2, <1>7
<1> HIDE DEF T
<1>9. Len(W) = m
  <2>1. n \in 0..n
    BY ONLY <1>2
  <2>2. Len(W) = IF n <= p THEN 0 ELSE IF n <= p + m THEN n - p ELSE m
    BY ONLY <1>4, <1>8, <2>1
  <2> QED BY ONLY <1>2, <2>2, p \in Nat
<1>10. ASSUME NEW j, j \in 1..m PROVE W[j] = w[j]
  <2>1. PICK r : r = p + j
    OBVIOUS
  <2>2. r \in 1..n /\ r - 1 \in 0..n /\ p < r /\ r <= p + m /\ r - p = j /\ r - 1 - p = j - 1
    BY ONLY <1>2, <1>10, <2>1, p \in Nat
  <2>3. EndOf(ss, r - 1) = j - 1
    <3>1. EndOf(ss, r - 1)
            = IF r - 1 <= p THEN 0 ELSE IF r - 1 <= p + m THEN r - 1 - p ELSE m
      BY ONLY <1>8, <2>2
    <3> QED BY ONLY <1>2, <1>10, <2>1, <3>1, p \in Nat
  <2>4. ss[r] = <<w[j]>> /\ Len(ss[r]) = 1
    BY ONLY <1>3, <2>2
  <2>5. 1 \in 1..Len(ss[r]) /\ ss[r][1] = w[j]
    BY ONLY <2>4, OneIs
  <2>6. \A q \in 1..Len(ss) : \A k \in 1..Len(ss[q]) :
          /\ EndOf(ss, q - 1) + k \in 1..Len(FlattenSeq(ss))
          /\ FlattenSeq(ss)[EndOf(ss, q - 1) + k] = ss[q][k]
    BY ONLY ss \in Seq(Seq(S)), FlattenAt
  <2>7. W[EndOf(ss, r - 1) + 1] = w[j]
    BY ONLY <1>1, <2>2, <2>5, <2>6
  <2>8. (j - 1) + 1 = j
    BY ONLY <1>10
  <2> QED BY ONLY <2>3, <2>7, <2>8
<1>11. W = w
  BY ONLY <1>1, <1>2, <1>9, <1>10, w \in Seq(S), SeqEqual
<1> QED BY ONLY <1>1, <1>11

\* What is shaped, drawn and read has letters.
LEMMA ShapesLettered == Lettered(Shape) /\ Lettered(Glyph) /\ Lettered(Letter)
BY DEF Lettered, Shape, Glyph, Letter

\* What a letter of another character is written with is not picked.
LEMMA PickedPiece ==
  ASSUME NEW p, NEW w, NEW letter, NEW i, NEW fonts, WrittenAs(p, w, letter, i, fonts), NEW at
  PROVE  Picked(p, at) = IF letter.at = at THEN w ELSE <<>>
<1>1. /\ w \in Seq(Cps) /\ p \in Seq(Shape) /\ Len(p) = Len(w) /\ Len(w) \in Nat
      /\ \A k \in 1..Len(w) : p[k].cp = w[k] /\ p[k].at = letter.at
  <2>1. /\ w \in Seq(Cps) /\ p \in Seq(Shape) /\ Len(p) = Len(w)
        /\ \A k \in 1..Len(w) : p[k].cp = w[k] /\ p[k].at = letter.at
    BY DEF WrittenAs
  <2> QED BY ONLY <2>1, LenProperties
<1>2. PICK ss : ss = Picks(p, at)
  OBVIOUS
<1>3. /\ ss \in Seq(Seq(Cps)) /\ Len(ss) = Len(p)
      /\ \A g \in 1..Len(p) : ss[g] = PickOf(p[g], at)
  BY ONLY <1>1, <1>2, ShapesLettered, PicksAre
<1>4. CASE letter.at = at
  <2>1. ASSUME NEW v, v \in 1..Len(w) PROVE ss[v] = <<w[v]>>
    BY ONLY <1>1, <1>3, <1>4, <2>1 DEF PickOf
  <2>2. Interval(ss, w, 0)
    <3>1. ASSUME NEW v, v \in 1..Len(w) PROVE 0 < v /\ v <= 0 + Len(w) /\ v - 0 = v
      BY ONLY <1>1, <3>1
    <3> QED BY ONLY <1>1, <1>3, <2>1, <3>1 DEF Interval
  <2>3. 0 \in Nat /\ 0 + Len(w) <= Len(ss)
    BY ONLY <1>1, <1>3
  <2>4. ss \in Seq(Seq(Cps)) /\ w \in Seq(Cps)
    BY ONLY <1>1, <1>3
  <2>5. FlattenSeq(ss) = w
    BY ONLY <2>2, <2>3, <2>4, FlattenInterval
  <2> QED BY ONLY <1>2, <1>4, <2>5 DEF Picked
<1>5. CASE letter.at # at
  <2>1. \A v \in 1..Len(ss) : ss[v] = <<>>
    BY ONLY <1>1, <1>3, <1>5 DEF PickOf
  <2>2. ss \in Seq(Seq(Cps))
    BY ONLY <1>3
  <2>3. FlattenSeq(ss) = <<>>
    BY ONLY <2>1, <2>2, FlattenNone
  <2> QED BY ONLY <1>2, <1>5, <2>3 DEF Picked
<1> QED BY ONLY <1>4, <1>5

\* The letters of a character are in one run of one direction.
LEMMA OneRun ==
  ASSUME NEW text, text \in Seq(Letter), NEW levels, levels = Levels(text), NEW at, NEW lo,
         NEW w, Occupies(text, at, lo, w), 1 \in 1..Len(w),
         Len(w) = 1 \/ \A j \in 1..Len(w) : Class(w[j]) = "R"
  PROVE  \E r \in 1..Len(LogRuns(levels)) : \A j \in 1..Len(w) :
           LogRuns(levels)[r].first <= lo + j /\ lo + j <= LogRuns(levels)[r].last
<1>1. PICK sp, n, m, values : /\ sp = LogRuns(levels) /\ n = Len(levels) /\ m = Len(w)
                              /\ values = [i \in 1..Len(levels) |-> levels[i] % 2]
  OBVIOUS
<1>2. /\ levels \in Seq({0, 1, 2}) /\ Len(levels) = Len(text)
      /\ \A i \in 1..Len(text) : Class(text[i].cp) = "R" => levels[i] = 1
  BY LevelsAre
<1>3. n \in Nat /\ n = Len(text) /\ m \in Nat /\ lo \in Nat /\ 1 \in 1..m
  <2>1. w \in Seq(Cps) /\ lo \in Nat
    BY DEF Occupies
  <2> QED BY ONLY <1>1, <1>2, <2>1, LenProperties, 1 \in 1..Len(w)
<1>4. Cover(sp, n) /\ Uniform(sp, values)
  BY ONLY <1>1, <1>2, LogRunsAre
<1>5. /\ Len(sp) \in Nat
      /\ \A s \in 1..Len(sp) : /\ sp[s].first \in 1..n /\ sp[s].last \in 1..n
                               /\ sp[s].first <= sp[s].last
      /\ \A i \in 1..n : \E s \in 1..Len(sp) : sp[s].first <= i /\ i <= sp[s].last
  BY ONLY <1>3, <1>4, CoverIs
<1>6. \A j \in 1..m : lo + j \in 1..n /\ text[lo + j].cp = w[j]
  BY <1>1, <1>3 DEF Occupies
<1>7. PICK r \in 1..Len(sp) : sp[r].first <= lo + 1 /\ lo + 1 <= sp[r].last
  BY ONLY <1>3, <1>5, <1>6
<1>8. PICK a, b : a = sp[r].first /\ b = sp[r].last /\ a \in Int /\ b \in Int
  BY ONLY <1>5, <1>7
<1>9. ASSUME NEW j, j \in 1..m PROVE a <= lo + j /\ lo + j <= b
  <2>1. a <= lo + j
    BY ONLY <1>3, <1>7, <1>8, <1>9
  <2>2. ASSUME ~(lo + j <= b) PROVE FALSE
    <3>1. j # 1
      BY ONLY <1>7, <1>8, <2>2
    <3>2. m # 1
      BY ONLY <1>9, <3>1
    <3>3. \A k \in 1..m : levels[lo + k] = 1
      BY ONLY <1>1, <1>2, <1>3, <1>6, <3>2,
              Len(w) = 1 \/ \A k \in 1..Len(w) : Class(w[k]) = "R"
    <3>4. lo + j \in 1..n
      BY ONLY <1>6, <1>9
    <3>5. b # n
      BY ONLY <1>3, <1>8, <2>2, <3>4
    <3>6. r # Len(sp)
      <4>1. Len(sp) > 0 => sp[Len(sp)].last = n
        BY ONLY <1>4 DEF Cover
      <4>2. Len(sp) > 0
        BY ONLY <1>5, <1>7
      <4> QED BY ONLY <1>8, <3>5, <4>1, <4>2
    <3>7. PICK q : q = r + 1
      OBVIOUS
    <3>8. q \in 1..Len(sp) /\ q # 1 /\ q - 1 = r /\ r \in 1..Len(sp) - 1
      BY ONLY <1>5, <1>7, <3>6, <3>7
    <3>9. sp[q].first = b + 1
      <4>1. sp[q].first = IF q = 1 THEN 1 ELSE sp[q - 1].last + 1
        BY ONLY <1>4, <3>8 DEF Cover
      <4> QED BY ONLY <1>8, <3>8, <4>1
    <3>10. values[b] # values[b + 1]
      <4>1. values[sp[r].last] # values[sp[r + 1].first]
        BY ONLY <1>4, <3>8 DEF Uniform
      <4> QED BY ONLY <1>8, <3>7, <3>9, <4>1
    <3>11. PICK k : k = b - lo
      OBVIOUS
    <3>12. k \in 1..m /\ k + 1 \in 1..m /\ lo + k = b /\ lo + (k + 1) = b + 1
      <4>1. lo + 1 <= b
        BY ONLY <1>7, <1>8
      <4>2. b \in Int /\ lo \in Nat /\ m \in Nat /\ j \in 1..m /\ ~(lo + j <= b)
        BY ONLY <1>3, <1>8, <1>9, <2>2
      <4>3. 1 <= k /\ k < j /\ k \in Int /\ lo + k = b
        BY ONLY <3>11, <4>1, <4>2
      <4> QED BY ONLY <4>2, <4>3
    <3>13. levels[b] = 1 /\ levels[b + 1] = 1 /\ b \in 1..n /\ b + 1 \in 1..n
      BY ONLY <1>6, <3>3, <3>12
    <3> QED BY ONLY <1>1, <3>10, <3>13
  <2> QED BY ONLY <2>1, <2>2
<1> QED BY ONLY <1>1, <1>7, <1>8, <1>9

\* What is picked from the view of a run with all the letters of a character, or
\* with none.
Spelled(s, cp, w) ==
  s \in Spellings(cp) /\ (Len(s) <= 1 \/ \A j \in 1..Len(w) : Class(w[j]) = "R")

\* It is a spelling of the character, or nothing.
LEMMA PickedView ==
  ASSUME NEW text, text \in Seq(Letter), NEW fonts, fonts \in Fonts,
         NEW run, Within(run, Len(text)), NEW at, NEW lo, NEW w, Occupies(text, at, lo, w),
         1 \in 1..Len(w), NEW cp, WrittenWell(cp, w, fonts),
         NEW view, view = View(text, run, fonts)
  PROVE  /\ (\A j \in 1..Len(w) : run.first <= lo + j /\ lo + j <= run.last)
              => Spelled(Picked(view, at), cp, w)
         /\ (\A j \in 1..Len(w) : ~(run.first <= lo + j /\ lo + j <= run.last))
              => Picked(view, at) = <<>>
<1>1. PICK n, a, b, z, m : /\ n = Len(text) /\ a = run.first /\ b = run.last /\ z = b - a + 1
                           /\ m = Len(w) /\ n \in Nat /\ a \in 1..n /\ b \in 1..n /\ a <= b
  <2>1. Len(text) \in Nat
    BY ONLY text \in Seq(Letter), LenProperties
  <2> QED BY ONLY <2>1, Within(run, Len(text)) DEF Within
<1>2. z \in Nat /\ \A v \in 1..z : a + v - 1 \in 1..n /\ a <= a + v - 1 /\ a + v - 1 <= b
                                  /\ a + v - 1 \in Nat
  <2>1. n \in Int /\ a \in Int /\ b \in Int /\ z = b - a + 1 /\ 1 <= a /\ a <= b /\ b <= n
    BY ONLY <1>1
  <2>2. z \in Nat
    BY ONLY <2>1
  <2>3. ASSUME NEW v, v \in 1..z
        PROVE  a + v - 1 \in 1..n /\ a <= a + v - 1 /\ a + v - 1 <= b /\ a + v - 1 \in Nat
    BY ONLY <2>1, <2>2, <2>3
  <2> QED BY ONLY <2>2, <2>3
<1>3. PICK vs, ss : vs = ViewParts(text, run, fonts) /\ ss = PickedEach(vs, at)
  OBVIOUS
<1>4. /\ vs \in Seq(Seq(Shape)) /\ Len(vs) = z /\ view = FlattenSeq(vs)
      /\ \A v \in 1..z :
           vs[v] = PieceOf(text[a + v - 1], a + v - 1,
                     NormalizeForFace(text[a + v - 1].cp, fonts.fallback), fonts)
  <2>1. /\ vs \in Seq(Seq(Shape)) /\ Len(vs) = run.last - run.first + 1
        /\ View(text, run, fonts) = FlattenSeq(vs)
        /\ \A v \in 1..run.last - run.first + 1 :
             vs[v] = PieceOf(text[run.first + v - 1], run.first + v - 1,
                       NormalizeForFace(text[run.first + v - 1].cp, fonts.fallback), fonts)
    BY ONLY <1>3, text \in Seq(Letter), fonts \in Fonts, Within(run, Len(text)), ViewIs
  <2> QED BY ONLY <1>1, <2>1, view = View(text, run, fonts)
<1>5. vs \in Seq(Seq(Shape))
  BY ONLY <1>4
<1>6. /\ ss \in Seq(Seq(Cps)) /\ Len(ss) = z
      /\ \A v \in 1..z : ss[v] = Picked(vs[v], at)
  <2>1. /\ ss \in Seq(Seq(Cps)) /\ Len(ss) = Len(vs)
        /\ \A v \in 1..Len(vs) : ss[v] = Picked(vs[v], at)
    BY ONLY <1>3, <1>5, ShapesLettered, PickedEachType
  <2> QED BY ONLY <1>4, <2>1
<1>7. Picked(view, at) = FlattenSeq(ss)
  BY ONLY <1>3, <1>4, <1>5, ShapesLettered, PickedFlatten
<1>8. ASSUME NEW v, v \in 1..z, NEW i, i = a + v - 1
      PROVE  ss[v] = IF text[i].at = at THEN Writing(text[i].cp, fonts) ELSE <<>>
  <2>1. PICK letter, u, p : letter = text[i] /\ u = Writing(letter.cp, fonts) /\ p = vs[v]
    OBVIOUS
  <2>2. i \in Nat /\ i \in 1..Len(text)
    BY ONLY <1>1, <1>2, <1>8
  <2>3. letter \in Letter
    BY ONLY <2>1, <2>2, text \in Seq(Letter), ElementOfSeq
  <2>4. p = PieceOf(letter, i, NormalizeForFace(letter.cp, fonts.fallback), fonts)
    BY ONLY <1>4, <1>8, <2>1
  <2>5. WrittenAs(p, u, letter, i, fonts)
    BY ONLY <2>1, <2>2, <2>3, <2>4, fonts \in Fonts, PieceIs
  <2>6. Picked(p, at) = IF letter.at = at THEN u ELSE <<>>
    BY ONLY <2>5, PickedPiece
  <2> QED BY ONLY <1>6, <1>8, <2>1, <2>6
<1>9. /\ lo \in Nat /\ w \in Seq(Cps) /\ m \in Nat /\ 1 \in 1..m
      /\ \A j \in 1..m : /\ lo + j \in 1..n
                         /\ text[lo + j].cp = w[j] /\ text[lo + j].at = at
      /\ \A i \in 1..n : text[i].at = at => \E j \in 1..m : i = lo + j
  <2>1. w \in Seq(Cps)
    BY DEF Occupies
  <2>2. Len(w) \in Nat
    BY ONLY <2>1, LenProperties
  <2> QED BY ONLY <1>1, <2>2, Occupies(text, at, lo, w), 1 \in 1..Len(w) DEF Occupies
<1>10. ss \in Seq(Seq(Cps))
  BY ONLY <1>6
<1>11. ASSUME \A j \in 1..m : ~(a <= lo + j /\ lo + j <= b)
       PROVE  Picked(view, at) = <<>>
  <2>1. ASSUME NEW v, v \in 1..z PROVE ss[v] = <<>>
    <3>1. PICK i : i = a + v - 1 /\ i \in 1..n /\ a <= i /\ i <= b
      BY ONLY <1>2, <2>1
    <3>2. text[i].at # at
      BY ONLY <1>9, <1>11, <3>1
    <3> QED BY ONLY <1>8, <2>1, <3>1, <3>2
  <2>2. \A v \in 1..Len(ss) : ss[v] = <<>>
    BY ONLY <1>6, <2>1
  <2>3. FlattenSeq(ss) = <<>>
    BY ONLY <1>10, <2>2, FlattenNone
  <2> QED BY ONLY <1>7, <2>3
<1>12. ASSUME \A j \in 1..m : a <= lo + j /\ lo + j <= b
       PROVE  Spelled(Picked(view, at), cp, w)
  <2>0. a <= lo + 1 /\ a \in Int /\ b \in Int
    BY ONLY <1>1, <1>9, <1>12
  <2>1. CASE /\ Len(w) = 1 /\ Writing(w[1], fonts) \in Spellings(cp)
             /\ Writing(w[1], fonts) = <<w[1]>> \/ Class(w[1]) = "R"
    <3>1. PICK d : d = lo + 1 - a + 1
      OBVIOUS
    <3>2. d \in 1..z /\ a + d - 1 = lo + 1
      <4>1. lo + 1 <= b
        BY ONLY <1>9, <1>12
      <4>2. lo \in Int /\ z = b - a + 1
        BY ONLY <1>1, <1>9
      <4> QED BY ONLY <2>0, <3>1, <4>1, <4>2
    <3>3. ss[d] = Writing(w[1], fonts)
      BY ONLY <1>8, <1>9, <3>2
    <3>4. ASSUME NEW v, v \in 1..z, v # d PROVE ss[v] = <<>>
      <4>1. PICK i : i = a + v - 1 /\ i \in 1..n
        BY ONLY <1>2, <3>4
      <4>2. i # lo + 1
        BY ONLY <1>9, <2>0, <3>1, <3>4, <4>1
      <4>3. \A j \in 1..m : j = 1
        BY ONLY <1>1, <2>1
      <4>4. text[i].at # at
        BY ONLY <1>9, <4>1, <4>2, <4>3
      <4> QED BY ONLY <1>8, <3>4, <4>1, <4>4
    <3>5. d \in 1..Len(ss) /\ \A v \in 1..Len(ss) : v # d => ss[v] = <<>>
      BY ONLY <1>6, <3>2, <3>4
    <3>6. FlattenSeq(ss) = ss[d]
      BY ONLY <1>10, <3>5, FlattenOnly
    <3>7. Picked(view, at) = Writing(w[1], fonts)
      BY ONLY <1>7, <3>3, <3>6
    <3>8. Len(Picked(view, at)) <= 1 \/ \A j \in 1..Len(w) : Class(w[j]) = "R"
      <4>1. CASE Writing(w[1], fonts) = <<w[1]>>
        <5>1. Len(Picked(view, at)) = 1
          BY ONLY <3>7, <4>1, OneIsNotEmpty
        <5> QED BY ONLY <5>1
      <4>2. CASE Class(w[1]) = "R"
        <5>1. \A j \in 1..Len(w) : j = 1
          BY ONLY <2>1
        <5> QED BY ONLY <4>2, <5>1
      <4> QED BY ONLY <2>1, <4>1, <4>2
    <3> QED BY ONLY <2>1, <3>7, <3>8 DEF Spelled
  <2>2. CASE /\ w \in Spellings(cp)
             /\ \A j \in 1..Len(w) : Class(w[j]) = "R" /\ Writing(w[j], fonts) = <<w[j]>>
    <3>1. PICK p : p = lo - a + 1
      OBVIOUS
    <3>2. p \in Nat /\ p + m <= z
      <4>1. m \in 1..m
        BY ONLY <1>9
      <4>2. lo + m <= b
        BY ONLY <1>12, <4>1
      <4>3. lo \in Int /\ m \in Int /\ z = b - a + 1
        BY ONLY <1>1, <1>9
      <4> QED BY ONLY <2>0, <3>1, <4>2, <4>3
    <3>3. ASSUME NEW v, v \in 1..z, p < v, v <= p + m PROVE ss[v] = <<w[v - p]>>
      <4>1. PICK j : j = v - p
        OBVIOUS
      <4>2. j \in 1..m /\ a + v - 1 = lo + j
        BY ONLY <1>9, <2>0, <3>1, <3>2, <3>3, <4>1
      <4>3. text[lo + j].at = at /\ text[lo + j].cp = w[j]
        BY ONLY <1>9, <4>2
      <4>4. ss[v] = Writing(w[j], fonts)
        BY ONLY <1>8, <3>3, <4>2, <4>3
      <4> QED BY ONLY <1>1, <2>2, <4>1, <4>2, <4>4
    <3>4. ASSUME NEW v, v \in 1..z, ~(p < v /\ v <= p + m) PROVE ss[v] = <<>>
      <4>1. PICK i : i = a + v - 1 /\ i \in 1..n
        BY ONLY <1>2, <3>4
      <4>2. ASSUME NEW j, j \in 1..m, i = lo + j PROVE FALSE
        BY ONLY <1>9, <2>0, <3>1, <3>2, <3>4, <4>1, <4>2
      <4>3. text[i].at # at
        BY ONLY <1>9, <4>1, <4>2
      <4> QED BY ONLY <1>8, <3>4, <4>1, <4>3
    <3>5. Interval(ss, w, p)
      BY ONLY <1>1, <1>6, <3>3, <3>4 DEF Interval
    <3>6. w \in Seq(Cps) /\ p + Len(w) <= Len(ss) /\ p \in Nat
      BY ONLY <1>1, <1>6, <1>9, <3>2
    <3>7. FlattenSeq(ss) = w
      BY ONLY <1>10, <3>5, <3>6, FlattenInterval
    <3> QED BY ONLY <1>7, <2>2, <3>7 DEF Spelled
  <2> QED BY ONLY <2>1, <2>2, WrittenWell(cp, w, fonts) DEF WrittenWell
<1> QED BY ONLY <1>1, <1>11, <1>12

\* Styles do not change what is picked.
LEMMA PickedWorn ==
  ASSUME NEW gs, NEW shaped, NEW runs, NEW ends, Wears(gs, shaped, runs, ends), NEW at
  PROVE  Picked(gs, at) = Picked(shaped, at)
<1>1. Len(gs) = Len(shaped)
      /\ \A g \in 1..Len(shaped) : gs[g].cp = shaped[g].cp /\ gs[g].at = shaped[g].at
  BY DEF Wears
<1>2. \A g \in 1..Len(shaped) : PickOf(gs[g], at) = PickOf(shaped[g], at)
  BY ONLY <1>1 DEF PickOf
<1>3. Picks(gs, at) = Picks(shaped, at)
  BY ONLY <1>1, <1>2 DEF Picks
<1> QED BY ONLY <1>3 DEF Picked

\* What is picked from the glyphs of a run.
LEMMA PickedDrawn ==
  ASSUME NEW runs, Known(runs), NEW fonts, fonts \in Fonts, NEW text, text \in Seq(Letter),
         NEW levels, levels = Levels(text), NEW o, NEW d, o[d] \in 1..Len(LogRuns(levels)),
         NEW gs, gs = DrawnAt(d, o, runs, text, levels, fonts), NEW at,
         NEW vis, vis = VisOf(levels, o[d]), NEW view, view = View(text, vis, fonts)
  PROVE  Picked(gs, at) = Turn(vis.rtl, Picked(view, at)) /\ Picked(view, at) \in Seq(Cps)
<1>1. PICK r : r = o[d]
  OBVIOUS
<1>2. r \in 1..Len(LogRuns(levels))
  BY ONLY <1>1, o[d] \in 1..Len(LogRuns(levels))
<1>3. view \in Seq(Shape)
  BY ONLY <1>1, <1>2, text \in Seq(Letter), levels = Levels(text), fonts \in Fonts, RunViewIs,
          vis = VisOf(levels, o[d]), view = View(text, vis, fonts)
<1>4. PICK rtl, shaped, ends : /\ rtl = vis.rtl /\ shaped = Turn(rtl, view)
                               /\ ends = Boundaries(runs, fonts.primary)
  OBVIOUS
<1>5. gs = Styled(shaped, runs, ends)
  BY ONLY <1>4, gs = DrawnAt(d, o, runs, text, levels, fonts), vis = VisOf(levels, o[d]),
          view = View(text, vis, fonts) DEF DrawnAt
<1>6. shaped \in Seq(Shape)
  BY ONLY <1>3, <1>4, TurnIs
<1>7. runs \in Seq(Run)
  BY DEF Known
<1>8. Wears(gs, shaped, runs, ends)
  BY ONLY <1>5, <1>6, <1>7, StyledIs
<1>9. Picked(gs, at) = Picked(shaped, at)
  BY ONLY <1>8, PickedWorn
<1>10. Picked(shaped, at) = Turn(rtl, Picked(view, at))
  <2>1. CASE rtl
    <3>1. Picked(Reverse(view), at) = Reverse(Picked(view, at))
      BY ONLY <1>3, ShapesLettered, PickedReverse
    <3> QED BY ONLY <1>4, <2>1, <3>1 DEF Turn
  <2>2. CASE ~rtl
    BY ONLY <1>4, <2>2 DEF Turn
  <2> QED BY ONLY <2>1, <2>2
<1>11. Picked(view, at) \in Seq(Cps)
  BY ONLY <1>3, ShapesLettered, PicksAre
<1> QED BY ONLY <1>4, <1>9, <1>10, <1>11

\* Read in its direction, a spelling is what it was.
LEMMA ReadBack ==
  ASSUME NEW s, s \in Seq(Cps), NEW rtl, rtl \in BOOLEAN, rtl \/ Len(s) <= 1
  PROVE  Reverse(Turn(rtl, s)) = s
<1>1. CASE rtl
  <2>1. Reverse(Reverse(s)) = s
    BY ONLY s \in Seq(Cps), ReverseTwice
  <2> QED BY ONLY <1>1, <2>1 DEF Turn
<1>2. CASE ~rtl
  <2>1. Reverse(s) = s
    BY ONLY <1>2, s \in Seq(Cps), rtl \/ Len(s) <= 1, ReverseShort
  <2> QED BY ONLY <1>2, <2>1 DEF Turn
<1> QED BY ONLY <1>1, <1>2

\* Nothing has no direction.
LEMMA TurnEmpty ==
  ASSUME NEW rtl
  PROVE  Turn(rtl, <<>>) = <<>>
BY DEF Turn, Reverse

\* What WrittenOnce says of a character.
LEMMA CharacterWritten ==
  ASSUME NEW runs, Known(runs), Apart(runs), NEW fonts, fonts \in Fonts,
         NEW glyphs, glyphs = ShapeLine(runs, fonts), NEW r, r \in 1..Len(runs),
         NEW k, k \in 1..Len(runs[r].text), NEW c, c = runs[r].text[k]
  PROVE  Written(glyphs, c.at) \in Spellings(Cp(c))
<1>1. PICK face, text, levels, w, at, cp :
        /\ face = fonts.primary /\ text = FullText(runs, face) /\ levels = Levels(text)
        /\ cp = Cp(c) /\ w = NormalizeForFace(cp, face) /\ at = c.at
  OBVIOUS
<1>2. face \subseteq Letters
  BY <1>1, FontsUsable
<1>3. cp \in Cps
  BY ONLY <1>1, Known(runs), r \in 1..Len(runs), k \in 1..Len(runs[r].text),
          c = runs[r].text[k] DEF Known
<1>4. text \in Seq(Letter)
  BY ONLY <1>1, <1>2, Known(runs), TextIs
<1>5. PICK lo : Occupies(text, at, lo, w)
  BY ONLY <1>1, <1>2, Known(runs), Apart(runs), r \in 1..Len(runs),
          k \in 1..Len(runs[r].text), c = runs[r].text[k], CharacterIs
<1>6. w \in Seq(Cps) /\ 1 \in 1..Len(w)
  <2>1. w \in Seq(Cps) /\ \E j \in 1..Len(w) : TRUE
    BY ONLY <1>1, <1>2, <1>3, NormalizedLetters
  <2>2. Len(w) \in Nat
    BY ONLY <2>1, LenProperties
  <2> QED BY ONLY <2>1, <2>2
<1>7. WrittenWell(cp, w, fonts)
  BY ONLY <1>1, <1>3, fonts \in Fonts, LettersWritten
<1>8. PICK gs, o, m : /\ Drawn(gs, o, m, runs, text, levels, fonts)
                      /\ glyphs = FlattenSeq(gs)
  BY ONLY <1>1, Known(runs), fonts \in Fonts, glyphs = ShapeLine(runs, fonts), LineIs
<1>9. PICK lr : lr = LogRuns(levels)
  OBVIOUS
<1>10. /\ SplitBy(o, levels, m) /\ m = Len(lr) /\ m \in Nat
       /\ gs \in Seq(Seq(Glyph)) /\ Len(gs) = m
       /\ \A d \in 1..m : gs[d] = DrawnAt(d, o, runs, text, levels, fonts)
  BY ONLY <1>8, <1>9 DEF Drawn
<1>11. /\ o \in [1..m -> 1..m] /\ \A q \in 1..m : \E d \in 1..m : o[d] = q
       /\ \A d, e \in 1..m : o[d] = o[e] => d = e
  <2>1. /\ o \in [1..m -> 1..m] /\ \A q \in 1..m : \E d \in 1..m : o[d] = q
        /\ \A d, e \in 1..m : d < e => Leftmost(lr[o[d]], levels) < Leftmost(lr[o[e]], levels)
    BY ONLY <1>9, <1>10 DEF SplitBy
  <2>2. levels \in Seq({0, 1, 2})
    BY ONLY <1>1, <1>4, LevelsAre
  <2>3. ASSUME NEW d, NEW e, d \in 1..m, e \in 1..m, o[d] = o[e], d < e PROVE FALSE
    <3>1. Leftmost(lr[o[d]], levels) < Leftmost(lr[o[d]], levels)
      BY ONLY <2>1, <2>3
    <3>2. o[d] \in 1..Len(lr)
      BY ONLY <1>10, <2>1, <2>3
    <3>3. PICK run, a, b, n : /\ run = lr[o[d]] /\ a = run.first /\ b = run.last
                              /\ n = Len(levels)
      OBVIOUS
    <3>4. n \in Nat /\ Cover(lr, n)
      BY ONLY <1>9, <2>2, <3>3, LogRunsAre, LenProperties
    <3>5. a \in 1..n /\ b \in 1..n /\ a <= b
      BY ONLY <3>2, <3>3, <3>4, CoverIs
    <3>6. Leftmost(run, levels) \in Nat
      BY ONLY <2>2, <3>3, <3>5, LeftmostIs
    <3> QED BY ONLY <3>1, <3>3, <3>6
  <2>4. ASSUME NEW d, NEW e, d \in 1..m, e \in 1..m, o[d] = o[e] PROVE d = e
    <3>1. d = e \/ d < e \/ e < d
      BY ONLY <2>4
    <3> QED BY ONLY <2>3, <2>4, <3>1
  <2> QED BY ONLY <2>1, <2>4
<1>12. /\ levels \in Seq({0, 1, 2}) /\ Len(levels) = Len(text)
       /\ \A i \in 1..Len(text) : Class(text[i].cp) = "R" => levels[i] = 1
  BY ONLY <1>1, <1>4, LevelsAre
<1>13. PICK n : n = Len(text) /\ n \in Nat
  BY ONLY <1>4, LenProperties
<1>14. Cover(lr, n) /\ Uniform(lr, [i \in 1..n |-> levels[i] % 2])
  BY ONLY <1>9, <1>12, <1>13, LogRunsAre
<1>15. /\ \A s \in 1..m : /\ lr[s].first \in 1..n /\ lr[s].last \in 1..n
                          /\ lr[s].first <= lr[s].last
       /\ \A s, q \in 1..m : s < q => lr[s].last < lr[q].first
  BY ONLY <1>10, <1>13, <1>14, CoverIs
<1>16. PICK q : q \in 1..m /\ \A j \in 1..Len(w) : lr[q].first <= lo + j /\ lo + j <= lr[q].last
  <2>1. Len(w) = 1 \/ \A j \in 1..Len(w) : Class(w[j]) = "R"
    BY ONLY <1>7 DEF WrittenWell
  <2>2. levels = Levels(text) /\ 1 \in 1..Len(w)
    BY ONLY <1>1, <1>6
  <2>3. \E s \in 1..Len(LogRuns(levels)) : \A j \in 1..Len(w) :
           LogRuns(levels)[s].first <= lo + j /\ lo + j <= LogRuns(levels)[s].last
    BY ONLY <1>4, <1>5, <2>1, <2>2, OneRun
  <2> QED BY ONLY <1>9, <1>10, <2>3
<1>17. PICK d : d \in 1..m /\ o[d] = q
  BY ONLY <1>11, <1>16
<1> DEFINE ViewOf(e) == View(text, VisOf(levels, o[e]), fonts)
<1>18. ASSUME NEW e, e \in 1..m
       PROVE  /\ Picked(gs[e], at) = Turn(VisOf(levels, o[e]).rtl, Picked(ViewOf(e), at))
              /\ Picked(ViewOf(e), at) \in Seq(Cps)
  <2>1. o[e] \in 1..Len(LogRuns(levels))
    BY ONLY <1>9, <1>10, <1>11, <1>18
  <2>2. PICK g, vis, view : g = gs[e] /\ vis = VisOf(levels, o[e]) /\ view = ViewOf(e)
    OBVIOUS
  <2>3. g = DrawnAt(e, o, runs, text, levels, fonts)
    BY ONLY <1>10, <1>18, <2>2
  <2>4. view = View(text, vis, fonts)
    BY ONLY <2>2
  <2>5. Picked(g, at) = Turn(vis.rtl, Picked(view, at)) /\ Picked(view, at) \in Seq(Cps)
    BY ONLY <1>1, <1>4, <2>1, <2>2, <2>3, <2>4, Known(runs), fonts \in Fonts, PickedDrawn
  <2> QED BY ONLY <2>2, <2>5
<1>19. ASSUME NEW e, e \in 1..m
       PROVE  /\ VisOf(levels, o[e]).first = lr[o[e]].first
              /\ VisOf(levels, o[e]).last = lr[o[e]].last
              /\ VisOf(levels, o[e]).rtl = (levels[lr[o[e]].first] % 2 = 1)
              /\ Within(VisOf(levels, o[e]), n)
  <2>1. PICK s : s = o[e]
    OBVIOUS
  <2>2. s \in 1..Len(LogRuns(levels))
    BY ONLY <1>9, <1>10, <1>11, <1>19, <2>1
  <2> QED BY ONLY <1>9, <1>12, <1>13, <2>1, <2>2, VisOfIs
<1>20. ASSUME NEW e, e \in 1..m
       PROVE  /\ (\A j \in 1..Len(w) : lr[o[e]].first <= lo + j /\ lo + j <= lr[o[e]].last)
                   => Spelled(Picked(ViewOf(e), at), cp, w)
              /\ (\A j \in 1..Len(w) : ~(lr[o[e]].first <= lo + j /\ lo + j <= lr[o[e]].last))
                   => Picked(ViewOf(e), at) = <<>>
  <2>1. PICK run, view : run = VisOf(levels, o[e]) /\ view = ViewOf(e)
    OBVIOUS
  <2>2. run.first = lr[o[e]].first /\ run.last = lr[o[e]].last /\ Within(run, Len(text))
    BY ONLY <1>13, <1>19, <1>20, <2>1
  <2>3. view = View(text, run, fonts)
    BY ONLY <2>1
  <2>4. /\ (\A j \in 1..Len(w) : run.first <= lo + j /\ lo + j <= run.last)
              => Spelled(Picked(view, at), cp, w)
        /\ (\A j \in 1..Len(w) : ~(run.first <= lo + j /\ lo + j <= run.last))
              => Picked(view, at) = <<>>
    BY ONLY <1>4, <1>5, <1>6, <1>7, <2>2, <2>3, fonts \in Fonts, PickedView
  <2> QED BY ONLY <2>1, <2>2, <2>4
<1> HIDE DEF ViewOf
<1>21. PICK ss : ss = PickedEach(gs, at)
  OBVIOUS
<1>22. gs \in Seq(Seq(Glyph))
  BY ONLY <1>10
<1>23. /\ ss \in Seq(Seq(Cps)) /\ Len(ss) = m
       /\ \A e \in 1..m : ss[e] = Picked(gs[e], at)
  <2>1. /\ ss \in Seq(Seq(Cps)) /\ Len(ss) = Len(gs)
        /\ \A e \in 1..Len(gs) : ss[e] = Picked(gs[e], at)
    BY ONLY <1>21, <1>22, ShapesLettered, PickedEachType
  <2> QED BY ONLY <1>10, <2>1
<1>24. Picked(glyphs, at) = FlattenSeq(ss)
  BY ONLY <1>8, <1>21, <1>22, ShapesLettered, PickedFlatten
<1>25. ASSUME NEW e, e \in 1..m, e # d PROVE ss[e] = <<>>
  <2>1. PICK s : s = o[e] /\ s \in 1..m /\ s # q
    BY ONLY <1>11, <1>17, <1>25
  <2>2. ASSUME NEW j, j \in 1..Len(w), lr[s].first <= lo + j, lo + j <= lr[s].last PROVE FALSE
    <3>1. lr[q].first <= lo + j /\ lo + j <= lr[q].last
      BY ONLY <1>16, <2>2
    <3>2. lo + j \in Int
      BY ONLY <1>5, <2>2 DEF Occupies
    <3>3. s < q \/ q < s
      BY ONLY <1>16, <2>1
    <3>4. /\ lr[s].first \in Int /\ lr[s].last \in Int /\ lr[q].first \in Int
          /\ lr[q].last \in Int /\ (lr[s].last < lr[q].first \/ lr[q].last < lr[s].first)
      BY ONLY <1>15, <1>16, <2>1, <3>3
    <3> QED BY ONLY <2>2, <3>1, <3>2, <3>4
  <2>3. Picked(ViewOf(e), at) = <<>>
    BY ONLY <1>20, <1>25, <2>1, <2>2
  <2> QED BY ONLY <1>18, <1>23, <1>25, <2>3, TurnEmpty
<1>26. FlattenSeq(ss) = ss[d]
  <2>1. ss \in Seq(Seq(Cps))
    BY ONLY <1>23
  <2>2. d \in 1..Len(ss) /\ \A e \in 1..Len(ss) : e # d => ss[e] = <<>>
    BY ONLY <1>17, <1>23, <1>25
  <2> QED BY ONLY <2>1, <2>2, FlattenOnly
<1>27. PICK s, rtl : s = Picked(ViewOf(d), at) /\ rtl = VisOf(levels, o[d]).rtl
  OBVIOUS
<1>28. s \in Seq(Cps) /\ Picked(glyphs, at) = Turn(rtl, s)
  BY ONLY <1>17, <1>18, <1>23, <1>24, <1>26, <1>27
<1>29. Spelled(s, cp, w)
  BY ONLY <1>16, <1>17, <1>20, <1>27
<1>30. rtl \in BOOLEAN /\ (rtl \/ Len(s) <= 1)
  <2>1. rtl = (levels[lr[q].first] % 2 = 1)
    BY ONLY <1>17, <1>19, <1>27
  <2>2. ASSUME \A j \in 1..Len(w) : Class(w[j]) = "R" PROVE rtl
    <3>1. lo + 1 \in 1..n /\ text[lo + 1].cp = w[1]
      BY ONLY <1>5, <1>6, <1>13 DEF Occupies
    <3>2. levels[lo + 1] = 1
      BY ONLY <1>6, <1>12, <1>13, <2>2, <3>1
    <3>3. lo + 1 \in lr[q].first..lr[q].last /\ lr[q].first \in 1..n
      BY ONLY <1>6, <1>15, <1>16, <3>1
    <3>4. PICK values : values = [i \in 1..n |-> levels[i] % 2]
      OBVIOUS
    <3>5. values[lo + 1] = values[lr[q].first]
      BY ONLY <1>10, <1>14, <1>16, <3>3, <3>4 DEF Uniform
    <3>6. levels[lo + 1] % 2 = levels[lr[q].first] % 2
      BY ONLY <3>1, <3>3, <3>4, <3>5
    <3>7. 1 % 2 = 1
      OBVIOUS
    <3> QED BY ONLY <2>1, <3>2, <3>6, <3>7
  <2> QED BY ONLY <1>29, <2>1, <2>2 DEF Spelled
<1>31. Reverse(Picked(glyphs, at)) = s
  BY ONLY <1>28, <1>30, ReadBack
<1>32. Written(glyphs, at) = Reverse(Picked(glyphs, at))
  <2>1. glyphs \in Seq(Glyph)
    BY ONLY <1>8, <1>22, FlattenType
  <2>2. DOMAIN glyphs = 1..Len(glyphs)
    BY ONLY <2>1, LenProperties
  <2> QED BY ONLY <2>2 DEF Written, Picked, Picks, PickOf
<1> QED BY ONLY <1>1, <1>29, <1>31, <1>32 DEF Spelled

\* A character of a line is one of a run.
LEMMA CharacterOf ==
  ASSUME NEW runs, runs \in Seq(Run)
  PROVE  /\ \A i \in DOMAIN Text(runs) : \E r \in 1..Len(runs) : \E k \in 1..Len(runs[r].text) :
              Text(runs)[i] = runs[r].text[k]
         /\ \A r \in 1..Len(runs) : \A k \in 1..Len(runs[r].text) : \E i \in DOMAIN Text(runs) :
              Text(runs)[i] = runs[r].text[k]
<1>1. PICK ss, n : ss = TextsOf(runs) /\ n = Len(runs) /\ n \in Nat
  OBVIOUS
<1>2. DOMAIN runs = 1..n
  BY ONLY <1>1, runs \in Seq(Run), LenProperties
<1>3. ss \in Seq(Seq(Char)) /\ Text(runs) \in Seq(Char)
  BY <1>1, TextType
<1>4. Len(ss) = n /\ \A r \in 1..n : ss[r] = runs[r].text
  BY ONLY <1>1, <1>2 DEF TextsOf
<1>5. Text(runs) = FlattenSeq(ss)
  BY ONLY <1>1 DEF Text, TextsOf
<1>6. DOMAIN Text(runs) = 1..Len(FlattenSeq(ss))
  BY ONLY <1>3, <1>5, LenProperties
<1>7. ss \in Seq(Seq(Char))
  BY ONLY <1>3
<1>8. ASSUME NEW i, i \in 1..Len(FlattenSeq(ss))
      PROVE  \E r \in 1..Len(runs) : \E k \in 1..Len(runs[r].text) :
               FlattenSeq(ss)[i] = runs[r].text[k]
  <2>1. \E r \in 1..Len(ss) : \E k \in 1..Len(ss[r]) :
           i = EndOf(ss, r - 1) + k /\ FlattenSeq(ss)[i] = ss[r][k]
    BY ONLY <1>7, <1>8, FlattenFrom
  <2> QED BY ONLY <1>1, <1>4, <2>1
<1>9. ASSUME NEW r, NEW k, r \in 1..Len(runs), k \in 1..Len(runs[r].text)
      PROVE  \E i \in 1..Len(FlattenSeq(ss)) : FlattenSeq(ss)[i] = runs[r].text[k]
  <2>1. \A q \in 1..Len(ss) : \A j \in 1..Len(ss[q]) :
          /\ EndOf(ss, q - 1) + j \in 1..Len(FlattenSeq(ss))
          /\ FlattenSeq(ss)[EndOf(ss, q - 1) + j] = ss[q][j]
    BY ONLY <1>7, FlattenAt
  <2> QED BY ONLY <1>1, <1>4, <1>9, <2>1
<1> QED BY ONLY <1>5, <1>6, <1>8, <1>9

\* What is written has glyphs.
LEMMA WrittenShown ==
  ASSUME NEW glyphs, glyphs \in Seq(Glyph), NEW at, NEW cp, cp \in Cps,
         Written(glyphs, at) \in Spellings(cp)
  PROVE  \E g \in DOMAIN glyphs : glyphs[g].at = at
<1>1. DOMAIN glyphs = 1..Len(glyphs)
  BY ONLY glyphs \in Seq(Glyph), LenProperties
<1>2. Written(glyphs, at) = Reverse(Picked(glyphs, at))
  BY ONLY <1>1 DEF Written, Picked, Picks, PickOf
<1>3. ASSUME \A g \in 1..Len(glyphs) : glyphs[g].at # at PROVE FALSE
  <2>1. PICK ps : ps = Picks(glyphs, at)
    OBVIOUS
  <2>2. /\ ps \in Seq(Seq(Cps)) /\ Len(ps) = Len(glyphs)
        /\ \A g \in 1..Len(glyphs) : ps[g] = PickOf(glyphs[g], at)
    BY ONLY <2>1, glyphs \in Seq(Glyph), ShapesLettered, PicksAre
  <2>3. \A g \in 1..Len(ps) : ps[g] = <<>>
    BY ONLY <1>3, <2>2 DEF PickOf
  <2>4. ps \in Seq(Seq(Cps))
    BY ONLY <2>2
  <2>5. Picked(glyphs, at) = <<>>
    BY ONLY <2>1, <2>3, <2>4, FlattenNone DEF Picked
  <2>6. Written(glyphs, at) = <<>>
    <3>1. Turn(TRUE, <<>>) = <<>>
      BY ONLY TurnEmpty
    <3> QED BY ONLY <1>2, <2>5, <3>1 DEF Turn
  <2>7. \E k \in 1..Len(Written(glyphs, at)) : TRUE
    BY ONLY cp \in Cps, Written(glyphs, at) \in Spellings(cp), SpellingType
  <2>8. Len(<<>>) = 0
    OBVIOUS
  <2> QED BY ONLY <2>6, <2>7, <2>8
<1> QED BY ONLY <1>1, <1>3

\* The lines of the caption that is read have no place twice.
LEMMA ShapingApart ==
  ASSUME IInv, ReadInv, NEW s, s \in Shapings
  PROVE  Apart(s.runs)
<1>1. PICK pl \in AllLines, fonts \in Fonts :
        s = [runs |-> LineAt(pl), fonts |-> fonts, glyphs |-> ShapeLine(LineAt(pl), fonts)]
  BY DEF Shapings
<1>2. Inv
  BY DEF IInv
<1>3. PICK runs : runs = LineAt(pl) /\ runs = s.runs
  BY ONLY <1>1
<1>4. Known(runs)
  BY <1>1, <1>2, <1>3, LineKnown
<1>5. runs \in Seq(Run)
  BY ONLY <1>4 DEF Known
<1>6. \A k, m \in 1..Len(PlacesOf(runs)) : PlacesOf(runs)[k] = PlacesOf(runs)[m] => k = m
  BY <1>1, <1>3, LinePlaces
<1>7. Apart(runs)
  BY ONLY <1>5, <1>6, LineApart
<1> QED BY ONLY <1>3, <1>7

\* What WrittenOnce says of a line.
AllOnce(glyphs, text) ==
  /\ {glyphs[g].at : g \in DOMAIN glyphs} = {text[i].at : i \in DOMAIN text}
  /\ \A i \in DOMAIN text : Written(glyphs, text[i].at) \in Spellings(Cp(text[i]))

\* It holds of every line whose characters have letters and places of their own.
LEMMA LineWritten ==
  ASSUME NEW runs, Known(runs), Apart(runs), NEW fonts, fonts \in Fonts,
         NEW glyphs, glyphs = ShapeLine(runs, fonts), NEW text, text = Text(runs)
  PROVE  AllOnce(glyphs, text)
<1>1. runs \in Seq(Run) /\ glyphs \in Seq(Glyph)
  <2>1. runs \in Seq(Run)
    BY ONLY Known(runs) DEF Known
  <2>2. PICK tx : tx = FullText(runs, fonts.primary)
    OBVIOUS
  <2>3. ShapeLine(runs, fonts) \in Seq(Glyph)
    BY ONLY <2>2, Known(runs), fonts \in Fonts, GlyphIs
  <2> QED BY ONLY <2>1, <2>3, glyphs = ShapeLine(runs, fonts)
<1>2. DOMAIN runs = 1..Len(runs) /\ \A r \in DOMAIN runs : DOMAIN runs[r].text = 1..Len(runs[r].text)
  <2>1. ASSUME NEW r, r \in DOMAIN runs PROVE DOMAIN runs[r].text = 1..Len(runs[r].text)
    <3>1. runs[r] \in Run
      BY ONLY <1>1, <2>1, LenProperties, ElementOfSeq
    <3>2. runs[r].text \in Seq(Char)
      BY ONLY <3>1 DEF Run
    <3> QED BY ONLY <3>2, LenProperties
  <2> QED BY ONLY <1>1, <2>1, LenProperties
<1>3. /\ \A i \in DOMAIN text : \E r \in 1..Len(runs) : \E k \in 1..Len(runs[r].text) :
           text[i] = runs[r].text[k]
      /\ \A r \in 1..Len(runs) : \A k \in 1..Len(runs[r].text) : \E i \in DOMAIN text :
           text[i] = runs[r].text[k]
  BY ONLY <1>1, text = Text(runs), CharacterOf
<1>4. ASSUME NEW i, i \in DOMAIN text
      PROVE  Written(glyphs, text[i].at) \in Spellings(Cp(text[i])) /\ Cp(text[i]) \in Cps
  <2>1. PICK r, k, c : /\ r \in 1..Len(runs) /\ k \in 1..Len(runs[r].text)
                       /\ c = runs[r].text[k] /\ c = text[i]
    BY ONLY <1>3, <1>4
  <2>2. Written(glyphs, c.at) \in Spellings(Cp(c))
    BY ONLY <2>1, Known(runs), Apart(runs), fonts \in Fonts, glyphs = ShapeLine(runs, fonts),
            CharacterWritten
  <2>3. Cp(c) \in Cps
    BY ONLY <2>1, Known(runs) DEF Known
  <2> QED BY ONLY <2>1, <2>2, <2>3
<1>5. ASSUME NEW i, i \in DOMAIN text
      PROVE  \E g \in DOMAIN glyphs : glyphs[g].at = text[i].at
  <2>1. PICK cp, at : cp = Cp(text[i]) /\ at = text[i].at
    OBVIOUS
  <2>2. cp \in Cps /\ Written(glyphs, at) \in Spellings(cp)
    BY ONLY <1>4, <1>5, <2>1
  <2> QED BY ONLY <1>1, <2>1, <2>2, WrittenShown
<1>6. ASSUME NEW g, g \in DOMAIN glyphs
      PROVE  \E i \in DOMAIN text : text[i].at = glyphs[g].at
  <2>1. g \in DOMAIN ShapeLine(runs, fonts)
    BY ONLY <1>6, glyphs = ShapeLine(runs, fonts)
  <2>2. \E r \in DOMAIN runs :
           /\ runs[r].style = ShapeLine(runs, fonts)[g].style
           /\ \E k \in DOMAIN runs[r].text : runs[r].text[k].at = ShapeLine(runs, fonts)[g].at
    BY ONLY <2>1, Known(runs), fonts \in Fonts, StyleIsKept
  <2>3. PICK r, k : /\ r \in DOMAIN runs /\ k \in DOMAIN runs[r].text
                    /\ runs[r].text[k].at = glyphs[g].at
    BY ONLY <2>2, glyphs = ShapeLine(runs, fonts)
  <2>4. r \in 1..Len(runs) /\ k \in 1..Len(runs[r].text)
    BY ONLY <1>2, <2>3
  <2> QED BY ONLY <1>3, <2>3, <2>4
<1> QED BY ONLY <1>4, <1>5, <1>6 DEF AllOnce

\* However a line is normalized, reordered and spread over two fonts, ShapeLine
\* draws each of its characters once, in one of its spellings and in the direction
\* of its script, and no other.
THEOREM EachWrittenOnce == Spec => []WrittenOnce
<1>1. IInv /\ ReadInv => WrittenOnce
  <2> SUFFICES ASSUME IInv, ReadInv, NEW s, s \in Shapings
               PROVE  /\ {s.glyphs[g].at : g \in DOMAIN s.glyphs}
                           = {Text(s.runs)[i].at : i \in DOMAIN Text(s.runs)}
                      /\ \A i \in DOMAIN Text(s.runs) :
                           Written(s.glyphs, Text(s.runs)[i].at)
                             \in Spellings(Cp(Text(s.runs)[i]))
    BY DEF WrittenOnce
  <2>1. PICK runs, fonts, glyphs, text : /\ runs = s.runs /\ fonts = s.fonts
                                         /\ glyphs = s.glyphs /\ text = Text(s.runs)
    OBVIOUS
  <2>2. Inv
    BY DEF IInv
  <2>3. Known(runs) /\ fonts \in Fonts /\ glyphs = ShapeLine(runs, fonts)
    BY <2>1, <2>2, ShapingIs
  <2>4. Apart(runs)
    BY <2>1, ShapingApart
  <2>5. text = Text(runs)
    BY ONLY <2>1
  <2>6. AllOnce(glyphs, text)
    BY ONLY <2>3, <2>4, <2>5, LineWritten
  <2> QED BY ONLY <2>1, <2>6 DEF AllOnce
<1>2. Init => IInv /\ ReadInv
  BY InitIInv, ReadInit
<1>3. IInv /\ ReadInv /\ [Next]_vars => IInv' /\ ReadInv'
  <2>1. IInv => Inv
    BY DEF IInv
  <2> QED BY <2>1, NextIInv, ReadNext
<1> QED BY <1>1, <1>2, <1>3, PTL DEF Spec
-----------------------------------------------------------------------------
(* The letters of a run are next to each other *)

\* Of two letters of one level that are next to each other, the visual order puts the
\* second behind the first if the level is even, and before it if it is odd.
LEMMA PlaceNext ==
  ASSUME NEW levels, levels \in Seq({0, 1, 2}), NEW i, i \in 1..Len(levels),
         i + 1 \in 1..Len(levels), levels[i] = levels[i + 1]
  PROVE  VisualPlace(levels, i + 1)
           = IF levels[i] = 1 THEN VisualPlace(levels, i) - 1 ELSE VisualPlace(levels, i) + 1
<1>1. PICK n, j, one, two : /\ n = Len(levels) /\ n \in Nat /\ j = i + 1
                            /\ one = Low(levels, 1) /\ two = Low(levels, 2)
  OBVIOUS
<1>2. i \in 1..n /\ j \in 1..n
  BY <1>1
<1>3. UpTo(one, n) /\ UpTo(two, n)
  BY ONLY <1>1 DEF UpTo, Low
<1>4. \A v \in 1..n : (v \in one <=> levels[v] < 1) /\ (v \in two <=> levels[v] < 2)
  BY ONLY <1>1 DEF Low
<1>5. levels[i] \in {0, 1, 2} /\ levels[j] = levels[i]
  <2>1. levels[i] \in {0, 1, 2}
    BY ONLY <1>1, <1>2, levels \in Seq({0, 1, 2}), ElementOfSeq
  <2>2. levels[j] = levels[i]
    BY ONLY <1>1, levels[i] = levels[i + 1]
  <2> QED BY ONLY <2>1, <2>2
<1>6. /\ VisualPlace(levels, i) = Mirror(one, n, Mirror(two, n, i))
      /\ VisualPlace(levels, j) = Mirror(one, n, Mirror(two, n, j))
  BY ONLY <1>1 DEF VisualPlace
<1>7. CASE levels[i] = 0
  <2>1. i \in one /\ i \in two /\ j \in one /\ j \in two
    <3>1. levels[i] < 1 /\ levels[i] < 2 /\ levels[j] < 1 /\ levels[j] < 2
      BY ONLY <1>5, <1>7
    <3> QED BY ONLY <1>2, <1>4, <3>1
  <2>2. VisualPlace(levels, i) = i /\ VisualPlace(levels, j) = j
    BY ONLY <1>6, <2>1 DEF Mirror
  <2>3. VisualPlace(levels, j) = VisualPlace(levels, i) + 1
    BY ONLY <1>1, <2>2
  <2>4. levels[i] # 1
    BY ONLY <1>7
  <2> QED BY ONLY <1>1, <2>3, <2>4
<1>8. CASE levels[i] = 1
  <2>1. i \notin one /\ i \in two /\ j \notin one /\ j \in two
    <3>1. ~(levels[i] < 1) /\ levels[i] < 2 /\ ~(levels[j] < 1) /\ levels[j] < 2
      BY ONLY <1>5, <1>8
    <3> QED BY ONLY <1>2, <1>4, <3>1
  <2>2. VisualPlace(levels, i) = Mirror(one, n, i) /\ VisualPlace(levels, j) = Mirror(one, n, j)
    BY ONLY <1>6, <2>1 DEF Mirror
  <2>3. Mirror(one, n, i + 1) = Mirror(one, n, i) - 1
    BY ONLY <1>1, <1>2, <1>3, <2>1, MirrorNext
  <2> QED BY ONLY <1>1, <1>8, <2>2, <2>3
<1>9. CASE levels[i] = 2
  <2>1. i \notin two /\ j \notin two
    <3>1. ~(levels[i] < 2) /\ ~(levels[j] < 2)
      BY ONLY <1>5, <1>9
    <3> QED BY ONLY <1>2, <1>4, <3>1
  <2>2. PICK a, b : a = Mirror(two, n, i) /\ b = Mirror(two, n, j)
    OBVIOUS
  <2>3. b = a - 1
    <3>1. Mirror(two, n, i + 1) = Mirror(two, n, i) - 1
      BY ONLY <1>1, <1>2, <1>3, <2>1, MirrorNext
    <3> QED BY ONLY <1>1, <2>2, <3>1
  <2>4. a \in 1..n /\ a \notin two /\ b \in 1..n /\ b \notin two
    BY ONLY <1>2, <1>3, <2>1, <2>2, MirrorIs
  <2>5. a \notin one /\ b \notin one
    <3>1. one \subseteq two
      <4>1. \A v \in 1..n : levels[v] \in {0, 1, 2}
        BY ONLY <1>1, levels \in Seq({0, 1, 2}), ElementOfSeq
      <4>2. ASSUME NEW v, v \in one PROVE v \in two
        <5>1. v \in 1..n
          BY ONLY <1>3, <4>2 DEF UpTo
        <5>2. levels[v] < 1 /\ levels[v] \in {0, 1, 2}
          BY ONLY <1>4, <4>1, <4>2, <5>1
        <5>3. levels[v] < 2
          BY ONLY <5>2
        <5> QED BY ONLY <1>4, <5>1, <5>3
      <4> QED BY ONLY <4>2
    <3> QED BY ONLY <2>4, <3>1
  <2>6. b + 1 = a
    BY ONLY <2>3, <2>4
  <2>7. Mirror(one, n, b + 1) = Mirror(one, n, b) - 1
    BY ONLY <1>3, <2>4, <2>5, <2>6, MirrorNext
  <2>8. PICK p, q : p = VisualPlace(levels, i) /\ q = VisualPlace(levels, j)
    OBVIOUS
  <2>9. p = q - 1
    BY ONLY <1>6, <2>2, <2>6, <2>7, <2>8
  <2>10. q \in 1..n
    <3>1. q = Mirror(one, n, b)
      BY ONLY <1>6, <2>2, <2>8
    <3> QED BY ONLY <1>3, <2>4, <3>1, MirrorIs
  <2>11. q = p + 1
    BY ONLY <2>9, <2>10
  <2>12. levels[i] # 1
    BY ONLY <1>9
  <2> QED BY ONLY <1>1, <2>8, <2>11, <2>12
<1> QED BY ONLY <1>5, <1>7, <1>8, <1>9

\* The letters from a to b are next to each other, in one direction.
InLine(levels, a, b, rtl) ==
  \A i \in a..b : VisualPlace(levels, i)
                    = IF rtl THEN VisualPlace(levels, a) - (i - a) ELSE VisualPlace(levels, a) + (i - a)

\* Those of a run are, where levels 0 and 2 do not meet.
LEMMA RunInLine ==
  ASSUME NEW levels, levels \in Seq({0, 1, 2}), ~Meets(levels), NEW r,
         r \in 1..Len(LogRuns(levels)), NEW run, run = LogRuns(levels)[r]
  PROVE  InLine(levels, run.first, run.last, levels[run.first] % 2 = 1)
<1>0. PICK n, sp, a, b : n = Len(levels) /\ sp = LogRuns(levels) /\ a = run.first /\ b = run.last
  OBVIOUS
<1>00. n \in Nat
  BY ONLY <1>0, levels \in Seq({0, 1, 2}), LenProperties
<1>01. PICK values, rtl :
         values = [i \in 1..Len(levels) |-> levels[i] % 2] /\ rtl = (levels[a] % 2 = 1)
  OBVIOUS
<1>1. /\ n = Len(levels) /\ n \in Nat /\ sp = LogRuns(levels) /\ a = run.first /\ b = run.last
      /\ values = [i \in 1..Len(levels) |-> levels[i] % 2] /\ rtl = (levels[a] % 2 = 1)
  BY ONLY <1>0, <1>00, <1>01
<1>2. Cover(sp, n) /\ Uniform(sp, values)
  BY ONLY <1>1, levels \in Seq({0, 1, 2}), LogRunsAre
<1>3. a \in 1..n /\ b \in 1..n /\ a <= b
  BY ONLY <1>1, <1>2, r \in 1..Len(LogRuns(levels)), run = LogRuns(levels)[r], CoverIs
<1>4. \A i \in 1..n : levels[i] \in {0, 1, 2}
  BY ONLY <1>1, levels \in Seq({0, 1, 2}), ElementOfSeq
<1>5. \A i \in a..b : i \in 1..n /\ levels[i] % 2 = levels[a] % 2
  <2>1. \A i \in a..b : i \in 1..n
    BY ONLY <1>1, <1>3
  <2>2. \A i \in a..b : values[i] = values[a]
    <3>1. \A s \in 1..Len(sp) : \A i \in sp[s].first..sp[s].last : values[i] = values[sp[s].first]
      BY ONLY <1>2 DEF Uniform
    <3> QED BY ONLY <1>1, <3>1, r \in 1..Len(LogRuns(levels)), run = LogRuns(levels)[r]
  <2>3. \A i \in 1..n : values[i] = levels[i] % 2
    BY ONLY <1>1
  <2> QED BY ONLY <1>3, <2>1, <2>2, <2>3
<1>6. \A i \in 1..n : i + 1 \in 1..n => {levels[i], levels[i + 1]} # {0, 2}
  <2>1. \A i \in 1..n - 1 : {levels[i], levels[i + 1]} # {0, 2}
    BY ONLY <1>1, ~Meets(levels) DEF Meets
  <2>2. \A i \in 1..n : i + 1 \in 1..n => i \in 1..n - 1
    BY ONLY <1>1
  <2> QED BY ONLY <2>1, <2>2
<1>7. \A i \in a..b : i + 1 \in a..b => levels[i] = levels[i + 1] /\ (levels[i] = 1 <=> rtl)
  <2> SUFFICES ASSUME NEW i, i \in a..b, i + 1 \in a..b
               PROVE  levels[i] = levels[i + 1] /\ (levels[i] = 1 <=> rtl)
    OBVIOUS
  <2>1. i \in 1..n /\ i + 1 \in 1..n /\ levels[i] % 2 = levels[a] % 2 /\ levels[i + 1] % 2 = levels[a] % 2
    BY ONLY <1>5, i \in a..b, i + 1 \in a..b
  <2>2. PICK x, y, z : x = levels[i] /\ y = levels[i + 1] /\ z = levels[a]
    OBVIOUS
  <2>3. x \in {0, 1, 2} /\ y \in {0, 1, 2} /\ z \in {0, 1, 2} /\ {x, y} # {0, 2}
    BY ONLY <1>3, <1>4, <1>6, <2>1, <2>2
  <2>4. x % 2 = z % 2 /\ y % 2 = z % 2
    BY ONLY <2>1, <2>2
  <2>5. 0 % 2 = 0 /\ 1 % 2 = 1 /\ 2 % 2 = 0
    OBVIOUS
  <2>6. x = 1 <=> z % 2 = 1
    BY ONLY <2>3, <2>4, <2>5
  <2>7. x = y
    <3>1. CASE x = 1
      BY ONLY <2>3, <2>4, <2>5, <3>1
    <3>2. CASE x # 1
      <4>1. y # 1
        BY ONLY <2>3, <2>4, <2>5, <3>2
      <4>2. x \in {0, 2} /\ y \in {0, 2}
        BY ONLY <2>3, <3>2, <4>1
      <4> QED BY ONLY <2>3, <4>2
    <3> QED BY ONLY <3>1, <3>2
  <2> QED BY ONLY <1>1, <2>2, <2>6, <2>7
<1> DEFINE P(i) == VisualPlace(levels, i)
           At(k) == IF rtl THEN P(a) - k ELSE P(a) + k
           T == {k \in Nat : a + k <= b => P(a + k) = At(k)}
<1>8. P(a) \in 1..n
  BY ONLY <1>1, <1>3, levels \in Seq({0, 1, 2}), PlacesAre
<1>9. 0 \in T
  <2>1. At(0) = P(a) /\ a + 0 = a
    <3> HIDE DEF P
    <3> QED BY ONLY <1>1, <1>3, <1>8
  <2> QED BY ONLY <2>1
<1>10. ASSUME NEW k \in Nat, k \in T PROVE k + 1 \in T
  <2> SUFFICES ASSUME a + (k + 1) <= b PROVE P(a + (k + 1)) = At(k + 1)
    OBVIOUS
  <2>1. PICK i : i = a + k
    OBVIOUS
  <2>2. i \in a..b /\ i + 1 \in a..b /\ a + (k + 1) = i + 1 /\ a + k <= b
    BY ONLY <1>1, <1>3, <2>1, k \in Nat, a + (k + 1) <= b
  <2>3. levels[i] = levels[i + 1] /\ (levels[i] = 1 <=> rtl) /\ i \in 1..n /\ i + 1 \in 1..n
    BY ONLY <1>5, <1>7, <2>2
  <2>4. P(i + 1) = IF levels[i] = 1 THEN P(i) - 1 ELSE P(i) + 1
    BY ONLY <1>1, <2>3, levels \in Seq({0, 1, 2}), PlaceNext
  <2>5. P(i) = At(k)
    BY ONLY <1>10, <2>1, <2>2
  <2>6. P(a) \in Int /\ k \in Int
    BY ONLY <1>8, k \in Nat
  <2> HIDE DEF P
  <2>7. P(i + 1) = At(k + 1)
    <3>1. CASE rtl
      BY ONLY <2>3, <2>4, <2>5, <2>6, <3>1
    <3>2. CASE ~rtl
      BY ONLY <2>3, <2>4, <2>5, <2>6, <3>2
    <3> QED BY ONLY <3>1, <3>2
  <2> QED BY ONLY <2>2, <2>7
<1>11. \A k \in Nat : k \in T
  <2> HIDE DEF T
  <2> QED BY ONLY <1>9, <1>10, Induction
<1>12. ASSUME NEW i, i \in a..b PROVE P(i) = At(i - a)
  <2>1. PICK k : k = i - a
    OBVIOUS
  <2>2. k \in Nat /\ a + k = i /\ a + k <= b
    BY ONLY <1>1, <1>3, <1>12, <2>1
  <2>3. P(a + k) = At(k)
    BY ONLY <1>11, <2>2
  <2> QED BY ONLY <2>1, <2>2, <2>3
<1> QED BY ONLY <1>1, <1>12 DEF InLine

\* Two runs do not overlap: each place of the one that begins further left is left of
\* each place of the other.
LEMMA RunsInOrder ==
  ASSUME NEW levels, levels \in Seq({0, 1, 2}), ~Meets(levels), NEW r, NEW q,
         r \in 1..Len(LogRuns(levels)), q \in 1..Len(LogRuns(levels)),
         Leftmost(LogRuns(levels)[r], levels) < Leftmost(LogRuns(levels)[q], levels)
  PROVE  \A i \in LogRuns(levels)[r].first..LogRuns(levels)[r].last :
         \A j \in LogRuns(levels)[q].first..LogRuns(levels)[q].last :
           VisualPlace(levels, i) < VisualPlace(levels, j)
<1>1. PICK sp, one, two : sp = LogRuns(levels) /\ one = sp[r] /\ two = sp[q]
  OBVIOUS
<1>2. PICK a, b, c, d, n : /\ a = one.first /\ b = one.last /\ c = two.first /\ d = two.last
                           /\ n = Len(levels)
  OBVIOUS
<1>3. n \in Nat
  BY ONLY <1>2, levels \in Seq({0, 1, 2}), LenProperties
<1>4. Cover(sp, n)
  BY ONLY <1>1, <1>2, levels \in Seq({0, 1, 2}), LogRunsAre
<1>5. /\ a \in 1..n /\ b \in 1..n /\ a <= b /\ c \in 1..n /\ d \in 1..n /\ c <= d
      /\ \A s, t \in 1..Len(sp) : s < t => sp[s].last < sp[t].first
  <2>1. /\ Len(sp) \in Nat
        /\ \A s \in 1..Len(sp) : /\ sp[s].first \in 1..n /\ sp[s].last \in 1..n
                                 /\ sp[s].first <= sp[s].last
        /\ \A s, t \in 1..Len(sp) : s < t => sp[s].last < sp[t].first
    BY ONLY <1>3, <1>4, CoverIs
  <2> QED BY ONLY <1>1, <1>2, <2>1, r \in 1..Len(LogRuns(levels)), q \in 1..Len(LogRuns(levels))
<1> DEFINE P(i) == VisualPlace(levels, i)
<1>6. /\ \A i \in 1..n : P(i) \in 1..n
      /\ \A i, j \in 1..n : P(i) = P(j) => i = j
  BY ONLY <1>2, levels \in Seq({0, 1, 2}), PlacesAre
<1>7. PICK x, y : x = Leftmost(one, levels) /\ y = Leftmost(two, levels)
  OBVIOUS
<1>8. x < y
  BY ONLY <1>1, <1>7, Leftmost(LogRuns(levels)[r], levels) < Leftmost(LogRuns(levels)[q], levels)
<1>9. PICK u : u \in 1..n /\ a <= u /\ u <= b /\ x = P(u)
  BY ONLY <1>2, <1>5, <1>7, levels \in Seq({0, 1, 2}), LeftmostIs
<1>10. PICK v : v \in 1..n /\ c <= v /\ v <= d /\ y = P(v)
  BY ONLY <1>2, <1>5, <1>7, levels \in Seq({0, 1, 2}), LeftmostIs
<1>11. \A j \in 1..n : c <= j /\ j <= d => y <= P(j)
  BY ONLY <1>2, <1>5, <1>7, levels \in Seq({0, 1, 2}), LeftmostIs
<1>12. PICK rtl : rtl = (levels[a] % 2 = 1)
  OBVIOUS
<1>13. \A i \in a..b : P(i) = IF rtl THEN P(a) - (i - a) ELSE P(a) + (i - a)
  <2>1. InLine(levels, one.first, one.last, levels[one.first] % 2 = 1)
    BY ONLY <1>1, levels \in Seq({0, 1, 2}), ~Meets(levels), r \in 1..Len(LogRuns(levels)), RunInLine
  <2>2. InLine(levels, a, b, rtl)
    BY ONLY <1>2, <1>12, <2>1
  <2> QED BY ONLY <2>2 DEF InLine
<1> HIDE DEF P
<1>14. ASSUME NEW i, i \in a..b, NEW j, j \in c..d, ~(P(i) < P(j)) PROVE FALSE
  <2>1. a \in Nat /\ b \in Nat /\ c \in Nat /\ d \in Nat
    BY ONLY <1>3, <1>5
  <2>2. i \in 1..n /\ j \in 1..n /\ a <= i /\ i <= b /\ c <= j /\ j <= d
    BY ONLY <1>3, <1>5, <1>14
  <2>3. P(i) \in Nat /\ P(j) \in Nat /\ P(u) \in Nat /\ P(v) \in Nat /\ P(a) \in Nat
    <3>1. P(i) \in 1..n /\ P(j) \in 1..n /\ P(u) \in 1..n /\ P(v) \in 1..n /\ P(a) \in 1..n
      BY ONLY <1>5, <1>6, <1>9, <1>10, <2>2
    <3> QED BY ONLY <1>3, <3>1
  <2>4. P(u) < P(v) /\ P(v) <= P(i)
    <3>1. P(v) <= P(j)
      BY ONLY <1>10, <1>11, <2>2
    <3> QED BY ONLY <1>8, <1>9, <1>10, <1>14, <2>3, <3>1
  <2>5. u \in a..b
    BY ONLY <1>9, <2>1
  <2>6. \E k \in a..b : P(k) = P(v)
    <3>1. CASE rtl
      <4>1. P(i) = P(a) - (i - a) /\ P(u) = P(a) - (u - a)
        BY ONLY <1>13, <1>14, <2>5, <3>1
      <4>2. PICK k : k = a + (P(a) - P(v))
        OBVIOUS
      <4>3. PICK pi, pu, pv, pa : pi = P(i) /\ pu = P(u) /\ pv = P(v) /\ pa = P(a)
        OBVIOUS
      <4>4. /\ pi \in Nat /\ pu \in Nat /\ pv \in Nat /\ pa \in Nat /\ pu < pv /\ pv <= pi
            /\ pi = pa - (i - a) /\ pu = pa - (u - a) /\ k = a + (pa - pv)
        BY ONLY <2>3, <2>4, <4>1, <4>2, <4>3
      <4>5. i \in Nat /\ u \in Nat /\ a <= i /\ u <= b
        BY ONLY <1>9, <2>2
      <4>6. k \in a..b /\ pa - (k - a) = pv
        BY ONLY <2>1, <4>4, <4>5
      <4>7. P(k) = P(a) - (k - a)
        BY ONLY <1>13, <3>1, <4>6
      <4> QED BY ONLY <4>3, <4>6, <4>7
    <3>2. CASE ~rtl
      <4>1. P(i) = P(a) + (i - a) /\ P(u) = P(a) + (u - a)
        BY ONLY <1>13, <1>14, <2>5, <3>2
      <4>2. PICK k : k = a + (P(v) - P(a))
        OBVIOUS
      <4>3. PICK pi, pu, pv, pa : pi = P(i) /\ pu = P(u) /\ pv = P(v) /\ pa = P(a)
        OBVIOUS
      <4>4. /\ pi \in Nat /\ pu \in Nat /\ pv \in Nat /\ pa \in Nat /\ pu < pv /\ pv <= pi
            /\ pi = pa + (i - a) /\ pu = pa + (u - a) /\ k = a + (pv - pa)
        BY ONLY <2>3, <2>4, <4>1, <4>2, <4>3
      <4>5. i \in Nat /\ u \in Nat /\ a <= u /\ i <= b
        BY ONLY <1>9, <2>2
      <4>6. k \in a..b /\ pa + (k - a) = pv
        BY ONLY <2>1, <4>4, <4>5
      <4>7. P(k) = P(a) + (k - a)
        BY ONLY <1>13, <3>2, <4>6
      <4> QED BY ONLY <4>3, <4>6, <4>7
    <3> QED BY ONLY <3>1, <3>2
  <2>7. PICK k \in a..b : P(k) = P(v)
    BY ONLY <2>6
  <2>8. k = v
    <3>1. k \in 1..n
      BY ONLY <1>3, <1>5, <2>7
    <3> QED BY ONLY <1>6, <1>10, <2>7, <3>1
  <2>9. a <= v /\ v <= b /\ c <= v /\ v <= d
    BY ONLY <1>10, <2>1, <2>7, <2>8
  <2>10. r # q
    <3>1. CASE r = q
      <4>1. x = y
        BY ONLY <1>1, <1>7, <3>1
      <4> QED BY ONLY <1>9, <1>8, <2>3, <4>1
    <3> QED BY ONLY <3>1
  <2>11. r \in 1..Len(sp) /\ q \in 1..Len(sp) /\ Len(sp) \in Nat
    BY ONLY <1>1, <1>3, <1>4, r \in 1..Len(LogRuns(levels)), q \in 1..Len(LogRuns(levels)), CoverIs
  <2>12. CASE r < q
    <3>1. b < c
      BY ONLY <1>1, <1>2, <1>5, <2>11, <2>12
    <3> QED BY ONLY <1>10, <2>1, <2>9, <3>1
  <2>13. CASE q < r
    <3>1. d < a
      BY ONLY <1>1, <1>2, <1>5, <2>11, <2>13
    <3> QED BY ONLY <1>10, <2>1, <2>9, <3>1
  <2>14. r < q \/ q < r
    BY ONLY <2>10, <2>11
  <2> QED BY ONLY <2>12, <2>13, <2>14
<1>15. \A i \in a..b : \A j \in c..d : VisualPlace(levels, i) < VisualPlace(levels, j)
  BY ONLY <1>14 DEF P
<1> QED BY ONLY <1>1, <1>2, <1>15
-----------------------------------------------------------------------------
(* The order of the glyphs *)

\* The character that letter i stands for has the letters behind lo, m of them, and no
\* other; all are in run r.
Together(text, levels, i, r, lo, m) ==
  /\ r \in 1..Len(LogRuns(levels)) /\ lo \in Nat /\ m \in Nat /\ m >= 1
  /\ LogRuns(levels)[r].first <= lo + 1 /\ lo + m <= LogRuns(levels)[r].last
  /\ lo + m <= Len(text)
  /\ \A k \in 1..Len(text) : text[k].at = text[i].at <=> lo + 1 <= k /\ k <= lo + m

\* So it is with every letter.
LEMMA LettersTogether ==
  ASSUME NEW runs, Known(runs), Apart(runs), NEW fonts, fonts \in Fonts,
         NEW text, text = FullText(runs, fonts.primary), NEW levels, levels = Levels(text),
         NEW i, i \in 1..Len(text)
  PROVE  \E r, lo, m : Together(text, levels, i, r, lo, m)
<1>1. PICK face : face = fonts.primary /\ face \subseteq Letters
  BY FontsUsable
<1>2. text = FullText(runs, face)
  BY ONLY <1>1, text = FullText(runs, fonts.primary)
<1>3. text \in Seq(Letter)
  BY ONLY <1>1, <1>2, Known(runs), TextIs
<1>4. PICK q \in 1..Len(runs) : \E k \in 1..Len(runs[q].text) : ComesFrom(text[i], runs[q].text[k], face)
  BY ONLY <1>1, <1>2, Known(runs), i \in 1..Len(text), TextIs
<1>5. PICK k \in 1..Len(runs[q].text) : ComesFrom(text[i], runs[q].text[k], face)
  BY ONLY <1>4
<1>6. PICK c, cp, w, at : /\ c = runs[q].text[k] /\ cp = Cp(c) /\ at = c.at
                          /\ w = NormalizeForFace(cp, face)
  OBVIOUS
<1>7. text[i].at = at
  BY ONLY <1>5, <1>6 DEF ComesFrom
<1>8. cp \in Cps
  BY ONLY <1>4, <1>5, <1>6, Known(runs) DEF Known
<1>9. PICK lo : Occupies(text, at, lo, w)
  BY ONLY <1>1, <1>2, <1>4, <1>5, <1>6, Known(runs), Apart(runs), CharacterIs
<1>10. PICK m : m = Len(w) /\ m \in Nat
  BY ONLY <1>9, LenProperties DEF Occupies
<1>11. /\ lo \in Nat
       /\ \A j \in 1..m : lo + j \in 1..Len(text) /\ text[lo + j].at = at
       /\ \A u \in 1..Len(text) : text[u].at = at => \E j \in 1..m : u = lo + j
  BY ONLY <1>9, <1>10 DEF Occupies
<1>12. m >= 1
  <2>1. PICK j \in 1..m : i = lo + j
    BY ONLY <1>7, <1>11, i \in 1..Len(text)
  <2> QED BY ONLY <1>10, <2>1
<1>13. 1 \in 1..Len(w) /\ (Len(w) = 1 \/ \A j \in 1..Len(w) : Class(w[j]) = "R")
  <2>1. WrittenWell(cp, w, fonts)
    BY ONLY <1>1, <1>6, <1>8, fonts \in Fonts, LettersWritten
  <2>2. 1 \in 1..Len(w)
    BY ONLY <1>10, <1>12
  <2> QED BY ONLY <2>1, <2>2 DEF WrittenWell
<1>14. PICK r \in 1..Len(LogRuns(levels)) : \A j \in 1..Len(w) :
         LogRuns(levels)[r].first <= lo + j /\ lo + j <= LogRuns(levels)[r].last
  BY ONLY <1>3, <1>9, <1>13, levels = Levels(text), OneRun
<1>15. LogRuns(levels)[r].first <= lo + 1 /\ lo + m <= LogRuns(levels)[r].last /\ lo + m \in 1..Len(text)
  <2>1. 1 \in 1..m /\ m \in 1..m
    BY ONLY <1>10, <1>12
  <2> QED BY ONLY <1>10, <1>11, <1>14, <2>1
<1>16. ASSUME NEW u, u \in 1..Len(text)
       PROVE  text[u].at = text[i].at <=> lo + 1 <= u /\ u <= lo + m
  <2>1. ASSUME text[u].at = text[i].at PROVE lo + 1 <= u /\ u <= lo + m
    <3>1. PICK j \in 1..m : u = lo + j
      BY ONLY <1>7, <1>11, <1>16, <2>1
    <3> QED BY ONLY <1>10, <1>11, <3>1
  <2>2. ASSUME lo + 1 <= u, u <= lo + m PROVE text[u].at = text[i].at
    <3>1. PICK j : j = u - lo
      OBVIOUS
    <3>2. u \in Int /\ lo \in Nat /\ m \in Nat
      BY ONLY <1>10, <1>11, <1>16
    <3>3. j \in 1..m /\ u = lo + j
      BY ONLY <2>2, <3>1, <3>2
    <3> QED BY ONLY <1>7, <1>11, <3>3
  <2> QED BY ONLY <2>1, <2>2
<1>17. lo + m <= Len(text)
  <2>1. Len(text) \in Nat
    BY ONLY <1>3, LenProperties
  <2> QED BY ONLY <1>15, <2>1
<1>18. Together(text, levels, i, r, lo, m)
  BY ONLY <1>10, <1>11, <1>12, <1>14, <1>15, <1>16, <1>17 DEF Together
<1> QED BY ONLY <1>18

\* Where the leftmost letter of a character is put.
Lead(text, levels, at) ==
  Min({VisualPlace(levels, k) : k \in {j \in DOMAIN text : text[j].at = at}})

\* x is the place of one of the letters of the character, and right of none.
Leads(x, text, levels, at) ==
  /\ \E k \in 1..Len(text) : text[k].at = at /\ x = VisualPlace(levels, k)
  /\ \A k \in 1..Len(text) : text[k].at = at => x <= VisualPlace(levels, k)

\* So it is.
LEMMA LeadIs ==
  ASSUME NEW text, text \in Seq(Letter), NEW levels, levels = Levels(text),
         NEW i, i \in 1..Len(text)
  PROVE  Leads(Lead(text, levels, text[i].at), text, levels, text[i].at)
<1>1. PICK n, at : n = Len(text) /\ at = text[i].at
  OBVIOUS
<1>2. DOMAIN text = 1..n /\ n \in Nat
  BY ONLY <1>1, text \in Seq(Letter), LenProperties
<1>3. levels \in Seq({0, 1, 2}) /\ Len(levels) = n
  BY ONLY <1>1, text \in Seq(Letter), levels = Levels(text), LevelsAre
<1>4. \A k \in 1..n : VisualPlace(levels, k) \in Nat
  <2>1. \A k \in 1..n : VisualPlace(levels, k) \in 1..n
    BY ONLY <1>3, PlacesAre
  <2> QED BY ONLY <1>2, <2>1
<1>5. PICK T : T = {VisualPlace(levels, k) : k \in {j \in DOMAIN text : text[j].at = at}}
  OBVIOUS
<1>6. T \subseteq Nat
  BY ONLY <1>2, <1>4, <1>5
<1>7. \A k \in 1..n : text[k].at = at => VisualPlace(levels, k) \in T
  BY ONLY <1>2, <1>5
<1>8. T # {}
  BY ONLY <1>1, <1>7, i \in 1..Len(text)
<1>9. Min(T) \in T /\ \A x \in T : Min(T) <= x
  BY ONLY <1>6, <1>8, MinIs
<1>10. \E k \in 1..n : text[k].at = at /\ Min(T) = VisualPlace(levels, k)
  BY ONLY <1>2, <1>5, <1>9
<1>11. Lead(text, levels, at) = Min(T)
  BY ONLY <1>5 DEF Lead
<1> QED BY ONLY <1>1, <1>7, <1>9, <1>10, <1>11 DEF Leads

\* The letters of one line, and what is known of them.
Lined(runs, fonts, text, levels) ==
  /\ Known(runs) /\ Apart(runs) /\ fonts \in Fonts
  /\ text = FullText(runs, fonts.primary) /\ levels = Levels(text) /\ ~Meets(levels)

\* Their types.
LEMMA LinedType ==
  ASSUME NEW runs, NEW fonts, NEW text, NEW levels, Lined(runs, fonts, text, levels)
  PROVE  /\ text \in Seq(Letter) /\ Len(text) \in Nat
         /\ levels \in Seq({0, 1, 2}) /\ Len(levels) = Len(text)
         /\ \A k \in 1..Len(text) : VisualPlace(levels, k) \in Nat
         /\ \A r \in 1..Len(LogRuns(levels)) :
              /\ LogRuns(levels)[r].first \in 1..Len(text) /\ LogRuns(levels)[r].last \in 1..Len(text)
              /\ LogRuns(levels)[r].first <= LogRuns(levels)[r].last
         /\ \A r, q \in 1..Len(LogRuns(levels)) : r < q =>
              LogRuns(levels)[r].last < LogRuns(levels)[q].first
         /\ Len(LogRuns(levels)) \in Nat
<1>1. Known(runs) /\ fonts \in Fonts /\ text = FullText(runs, fonts.primary) /\ levels = Levels(text)
  BY ONLY Lined(runs, fonts, text, levels) DEF Lined
<1>2. PICK face : face = fonts.primary /\ face \subseteq Letters
  BY ONLY <1>1, FontsUsable
<1>3. text \in Seq(Letter)
  BY ONLY <1>1, <1>2, TextIs
<1>4. levels \in Seq({0, 1, 2}) /\ Len(levels) = Len(text) /\ Len(text) \in Nat
  BY ONLY <1>1, <1>3, LevelsAre, LenProperties
<1>5. \A k \in 1..Len(text) : VisualPlace(levels, k) \in Nat
  <2>1. \A k \in 1..Len(levels) : VisualPlace(levels, k) \in 1..Len(levels)
    BY ONLY <1>4, PlacesAre
  <2> QED BY ONLY <1>4, <2>1
<1>6. PICK n, sp : n = Len(levels) /\ sp = LogRuns(levels) /\ n \in Nat
  BY ONLY <1>4
<1>7. Cover(sp, n)
  BY ONLY <1>4, <1>6, LogRunsAre
<1>8. /\ Len(sp) \in Nat
      /\ \A s \in 1..Len(sp) : /\ sp[s].first \in 1..n /\ sp[s].last \in 1..n
                               /\ sp[s].first <= sp[s].last
      /\ \A r, q \in 1..Len(sp) : r < q => sp[r].last < sp[q].first
  BY ONLY <1>6, <1>7, CoverIs
<1> QED BY ONLY <1>3, <1>4, <1>5, <1>6, <1>8

\* In a run the characters are put from left to right or from right to left, as the run
\* reads.
LEMMA LeadsInRun ==
  ASSUME NEW runs, NEW fonts, NEW text, NEW levels, Lined(runs, fonts, text, levels),
         NEW r, r \in 1..Len(LogRuns(levels)), NEW run, run = LogRuns(levels)[r],
         NEW i, i \in run.first..run.last, NEW j, j \in run.first..run.last,
         IF levels[run.first] % 2 = 1 THEN j <= i ELSE i <= j
  PROVE  Lead(text, levels, text[i].at) <= Lead(text, levels, text[j].at)
<1>1. PICK sp, n, a, b : sp = LogRuns(levels) /\ n = Len(text) /\ a = run.first /\ b = run.last
  OBVIOUS
<1>2. /\ text \in Seq(Letter) /\ n \in Nat /\ levels \in Seq({0, 1, 2}) /\ Len(levels) = n
      /\ \A k \in 1..n : VisualPlace(levels, k) \in Nat
      /\ \A q \in 1..Len(sp) : /\ sp[q].first \in 1..n /\ sp[q].last \in 1..n
                               /\ sp[q].first <= sp[q].last
      /\ \A q, s \in 1..Len(sp) : q < s => sp[q].last < sp[s].first
      /\ Len(sp) \in Nat
  BY ONLY <1>1, Lined(runs, fonts, text, levels), LinedType
<1>3. a \in 1..n /\ b \in 1..n /\ a <= b /\ r \in 1..Len(sp) /\ run = sp[r]
  BY ONLY <1>1, <1>2, r \in 1..Len(LogRuns(levels)), run = LogRuns(levels)[r]
<1>4. i \in a..b /\ j \in a..b /\ i \in 1..n /\ j \in 1..n
  BY ONLY <1>1, <1>2, <1>3, i \in run.first..run.last, j \in run.first..run.last
<1>5. PICK q, lo, m : Together(text, levels, j, q, lo, m)
  BY ONLY <1>1, <1>4, Lined(runs, fonts, text, levels), LettersTogether DEF Lined
<1>6. /\ q \in 1..Len(sp) /\ lo \in Nat /\ m \in Nat /\ m >= 1
      /\ sp[q].first <= lo + 1 /\ lo + m <= sp[q].last
      /\ \A k \in 1..n : text[k].at = text[j].at <=> lo + 1 <= k /\ k <= lo + m
  BY ONLY <1>1, <1>5 DEF Together
<1>7. lo + 1 <= j /\ j <= lo + m
  BY ONLY <1>4, <1>6
<1>8. q = r
  <2>0. PICK c, d : c = sp[q].first /\ d = sp[q].last
    OBVIOUS
  <2>1. c = sp[q].first /\ d = sp[q].last /\ c \in Nat /\ d \in Nat
    <3>1. c \in 1..n /\ d \in 1..n
      BY ONLY <1>2, <1>6, <2>0
    <3> QED BY ONLY <2>0, <3>1
  <2>2. c <= j /\ j <= d /\ a <= j /\ j <= b
    BY ONLY <1>2, <1>3, <1>4, <1>6, <1>7, <2>1
  <2>3. ~(q < r)
    <3>1. q < r => d < a
      BY ONLY <1>1, <1>2, <1>3, <1>6, <2>1
    <3> QED BY ONLY <1>3, <1>2, <1>4, <2>1, <2>2, <3>1
  <2>4. ~(r < q)
    <3>1. r < q => b < c
      BY ONLY <1>1, <1>2, <1>3, <1>6, <2>1
    <3> QED BY ONLY <1>3, <1>2, <1>4, <2>1, <2>2, <3>1
  <2> QED BY ONLY <1>2, <1>3, <1>6, <2>3, <2>4
<1>9. a <= lo + 1 /\ lo + m <= b
  BY ONLY <1>1, <1>3, <1>6, <1>8
<1>10. PICK k : /\ k \in 1..n /\ text[k].at = text[j].at
                /\ Lead(text, levels, text[j].at) = VisualPlace(levels, k)
  <2>1. levels = Levels(text)
    BY ONLY Lined(runs, fonts, text, levels) DEF Lined
  <2>2. j \in 1..Len(text)
    BY ONLY <1>1, <1>4
  <2>3. Leads(Lead(text, levels, text[j].at), text, levels, text[j].at)
    BY ONLY <1>2, <2>1, <2>2, LeadIs
  <2> QED BY ONLY <1>1, <2>3 DEF Leads
<1>11. lo + 1 <= k /\ k <= lo + m
  BY ONLY <1>6, <1>10
<1>12. k \in a..b
  BY ONLY <1>2, <1>3, <1>6, <1>9, <1>10, <1>11
<1>13. PICK x : x = Lead(text, levels, text[i].at)
  OBVIOUS
<1>14. x <= VisualPlace(levels, i) /\ \E u \in 1..n : x = VisualPlace(levels, u)
  <2>1. levels = Levels(text)
    BY ONLY Lined(runs, fonts, text, levels) DEF Lined
  <2>2. i \in 1..Len(text)
    BY ONLY <1>1, <1>4
  <2>3. Leads(Lead(text, levels, text[i].at), text, levels, text[i].at)
    BY ONLY <1>2, <2>1, <2>2, LeadIs
  <2> QED BY ONLY <1>1, <1>13, <2>2, <2>3 DEF Leads
<1>15. x \in Nat
  BY ONLY <1>2, <1>14
<1>16. PICK rtl : rtl = (levels[a] % 2 = 1)
  OBVIOUS
<1>17. \A u \in a..b : VisualPlace(levels, u)
         = IF rtl THEN VisualPlace(levels, a) - (u - a) ELSE VisualPlace(levels, a) + (u - a)
  <2>1. InLine(levels, run.first, run.last, levels[run.first] % 2 = 1)
    <3>1. ~Meets(levels)
      BY ONLY Lined(runs, fonts, text, levels) DEF Lined
    <3> QED BY ONLY <1>2, <3>1, r \in 1..Len(LogRuns(levels)), run = LogRuns(levels)[r], RunInLine
  <2>2. InLine(levels, a, b, rtl)
    BY ONLY <1>1, <1>16, <2>1
  <2> QED BY ONLY <2>2 DEF InLine
<1>18. text[i].at = text[j].at \/ VisualPlace(levels, i) <= VisualPlace(levels, k)
  <2>1. PICK pa, pi, pk : /\ pa = VisualPlace(levels, a) /\ pi = VisualPlace(levels, i)
                          /\ pk = VisualPlace(levels, k)
    OBVIOUS
  <2>2. pa \in Nat /\ i \in Nat /\ j \in Nat /\ k \in Nat /\ a \in Nat /\ lo \in Nat /\ m \in Nat
    <3>1. pa \in Nat
      BY ONLY <1>2, <1>3, <2>1
    <3>2. i \in Nat /\ j \in Nat /\ k \in Nat /\ a \in Nat
      BY ONLY <1>3, <1>4, <1>10
    <3> QED BY ONLY <1>6, <3>1, <3>2
  <2>3. CASE rtl
    <3>1. pi = pa - (i - a) /\ pk = pa - (k - a)
      BY ONLY <1>4, <1>12, <1>17, <2>1, <2>3
    <3>2. j <= i
      BY ONLY <1>1, <1>16, <2>3, IF levels[run.first] % 2 = 1 THEN j <= i ELSE i <= j
    <3>3. CASE k <= i
      <4>1. pi <= pk
        BY ONLY <2>2, <3>1, <3>3
      <4> QED BY ONLY <2>1, <4>1
    <3>4. CASE i < k
      <4>1. lo + 1 <= i /\ i <= lo + m
        BY ONLY <1>7, <1>11, <2>2, <3>2, <3>4
      <4> QED BY ONLY <1>4, <1>6, <4>1
    <3> QED BY ONLY <2>2, <3>3, <3>4
  <2>4. CASE ~rtl
    <3>1. pi = pa + (i - a) /\ pk = pa + (k - a)
      BY ONLY <1>4, <1>12, <1>17, <2>1, <2>4
    <3>2. i <= j
      BY ONLY <1>1, <1>16, <2>4, IF levels[run.first] % 2 = 1 THEN j <= i ELSE i <= j
    <3>3. CASE i <= k
      <4>1. pi <= pk
        BY ONLY <2>2, <3>1, <3>3
      <4> QED BY ONLY <2>1, <4>1
    <3>4. CASE k < i
      <4>1. lo + 1 <= i /\ i <= lo + m
        BY ONLY <1>7, <1>11, <2>2, <3>2, <3>4
      <4> QED BY ONLY <1>4, <1>6, <4>1
    <3> QED BY ONLY <2>2, <3>3, <3>4
  <2> QED BY ONLY <2>3, <2>4
<1>19. CASE text[i].at = text[j].at
  <2>1. x = VisualPlace(levels, k)
    BY ONLY <1>10, <1>13, <1>19
  <2>2. x <= x
    BY ONLY <1>15
  <2> QED BY ONLY <1>10, <1>13, <2>1, <2>2
<1>20. CASE VisualPlace(levels, i) <= VisualPlace(levels, k)
  <2>1. VisualPlace(levels, i) \in Nat /\ VisualPlace(levels, k) \in Nat
    BY ONLY <1>2, <1>4, <1>10
  <2>2. x <= VisualPlace(levels, k)
    BY ONLY <1>14, <1>15, <1>20, <2>1
  <2> QED BY ONLY <1>10, <1>13, <2>2
<1> QED BY ONLY <1>18, <1>19, <1>20

\* The characters of a run are left of those of a run that begins further right.
LEMMA LeadsAcross ==
  ASSUME NEW runs, NEW fonts, NEW text, NEW levels, Lined(runs, fonts, text, levels),
         NEW r, r \in 1..Len(LogRuns(levels)), NEW q, q \in 1..Len(LogRuns(levels)),
         Leftmost(LogRuns(levels)[r], levels) < Leftmost(LogRuns(levels)[q], levels),
         NEW i, i \in LogRuns(levels)[r].first..LogRuns(levels)[r].last,
         NEW j, j \in LogRuns(levels)[q].first..LogRuns(levels)[q].last
  PROVE  Lead(text, levels, text[i].at) <= Lead(text, levels, text[j].at)
<1>1. PICK sp, n, c, d : /\ sp = LogRuns(levels) /\ n = Len(text)
                         /\ c = LogRuns(levels)[q].first /\ d = LogRuns(levels)[q].last
  OBVIOUS
<1>2. /\ text \in Seq(Letter) /\ n \in Nat /\ levels \in Seq({0, 1, 2}) /\ Len(levels) = n
      /\ \A k \in 1..n : VisualPlace(levels, k) \in Nat
      /\ \A s \in 1..Len(sp) : /\ sp[s].first \in 1..n /\ sp[s].last \in 1..n
                               /\ sp[s].first <= sp[s].last
      /\ \A s, t \in 1..Len(sp) : s < t => sp[s].last < sp[t].first
      /\ Len(sp) \in Nat
  BY ONLY <1>1, Lined(runs, fonts, text, levels), LinedType
<1>3. i \in 1..n /\ j \in 1..n /\ c \in 1..n /\ d \in 1..n /\ c <= j /\ j <= d
  <2>1. /\ sp[r].first \in 1..n /\ sp[r].last \in 1..n /\ c \in 1..n /\ d \in 1..n
        /\ i \in sp[r].first..sp[r].last /\ j \in c..d
    BY ONLY <1>1, <1>2, r \in 1..Len(LogRuns(levels)), q \in 1..Len(LogRuns(levels)),
            i \in LogRuns(levels)[r].first..LogRuns(levels)[r].last,
            j \in LogRuns(levels)[q].first..LogRuns(levels)[q].last
  <2> QED BY ONLY <1>2, <2>1
<1>4. PICK s, lo, m : Together(text, levels, j, s, lo, m)
  BY ONLY <1>1, <1>3, Lined(runs, fonts, text, levels), LettersTogether DEF Lined
<1>5. /\ s \in 1..Len(sp) /\ lo \in Nat /\ m \in Nat /\ m >= 1
      /\ sp[s].first <= lo + 1 /\ lo + m <= sp[s].last
      /\ \A k \in 1..n : text[k].at = text[j].at <=> lo + 1 <= k /\ k <= lo + m
  BY ONLY <1>1, <1>4 DEF Together
<1>6. lo + 1 <= j /\ j <= lo + m
  BY ONLY <1>3, <1>5
<1>7. s = q
  <2>0. PICK e, f : e = sp[s].first /\ f = sp[s].last
    OBVIOUS
  <2>1. e = sp[s].first /\ f = sp[s].last /\ e \in Nat /\ f \in Nat
    <3>1. e \in 1..n /\ f \in 1..n
      BY ONLY <1>2, <1>5, <2>0
    <3> QED BY ONLY <2>0, <3>1
  <2>2. e <= j /\ j <= f
    BY ONLY <1>3, <1>5, <1>6, <2>1
  <2>3. q \in 1..Len(sp) /\ c = sp[q].first /\ d = sp[q].last
    BY ONLY <1>1, q \in 1..Len(LogRuns(levels))
  <2>4. ~(s < q)
    <3>1. s < q => f < c
      BY ONLY <1>2, <1>5, <2>1, <2>3
    <3> QED BY ONLY <1>3, <2>1, <2>2, <3>1
  <2>5. ~(q < s)
    <3>1. q < s => d < e
      BY ONLY <1>2, <1>5, <2>1, <2>3
    <3> QED BY ONLY <1>3, <2>1, <2>2, <3>1
  <2> QED BY ONLY <1>2, <1>5, <2>3, <2>4, <2>5
<1>8. levels = Levels(text) /\ ~Meets(levels)
  BY ONLY Lined(runs, fonts, text, levels) DEF Lined
<1>9. PICK k : /\ k \in 1..n /\ text[k].at = text[j].at
               /\ Lead(text, levels, text[j].at) = VisualPlace(levels, k)
  <2>1. j \in 1..Len(text)
    BY ONLY <1>1, <1>3
  <2>2. Leads(Lead(text, levels, text[j].at), text, levels, text[j].at)
    BY ONLY <1>2, <1>8, <2>1, LeadIs
  <2> QED BY ONLY <1>1, <2>2 DEF Leads
<1>10. k \in c..d
  <2>1. lo + 1 <= k /\ k <= lo + m
    BY ONLY <1>5, <1>9
  <2>2. c <= lo + 1 /\ lo + m <= d
    BY ONLY <1>1, <1>5, <1>7
  <2> QED BY ONLY <1>3, <1>5, <1>9, <2>1, <2>2
<1>11. VisualPlace(levels, i) < VisualPlace(levels, k)
  BY ONLY <1>1, <1>2, <1>8, <1>10, r \in 1..Len(LogRuns(levels)), q \in 1..Len(LogRuns(levels)),
          Leftmost(LogRuns(levels)[r], levels) < Leftmost(LogRuns(levels)[q], levels),
          i \in LogRuns(levels)[r].first..LogRuns(levels)[r].last, RunsInOrder
<1>12. PICK x : x = Lead(text, levels, text[i].at)
  OBVIOUS
<1>13. x <= VisualPlace(levels, i) /\ \E u \in 1..n : x = VisualPlace(levels, u)
  <2>1. i \in 1..Len(text)
    BY ONLY <1>1, <1>3
  <2>2. Leads(Lead(text, levels, text[i].at), text, levels, text[i].at)
    BY ONLY <1>2, <1>8, <2>1, LeadIs
  <2> QED BY ONLY <1>1, <1>12, <2>1, <2>2 DEF Leads
<1>14. x \in Nat /\ VisualPlace(levels, i) \in Nat /\ VisualPlace(levels, k) \in Nat
  BY ONLY <1>2, <1>3, <1>9, <1>13
<1>15. x <= VisualPlace(levels, k)
  BY ONLY <1>11, <1>13, <1>14
<1> QED BY ONLY <1>9, <1>12, <1>15

\* Element p of a flattened sequence is in an earlier part than element q, or earlier in
\* the same.
Precedes(ss, p, q) ==
  \E r, s \in 1..Len(ss) : \E k \in 1..Len(ss[r]) : \E l \in 1..Len(ss[s]) :
    /\ FlattenSeq(ss)[p] = ss[r][k] /\ FlattenSeq(ss)[q] = ss[s][l]
    /\ r <= s /\ (r = s => k < l)

\* Flattening keeps the order.
LEMMA FlattenOrder ==
  ASSUME NEW S, NEW ss, ss \in Seq(Seq(S)), NEW p, p \in 1..Len(FlattenSeq(ss)),
         NEW q, q \in 1..Len(FlattenSeq(ss)), p < q
  PROVE  Precedes(ss, p, q)
<1>0. \A i \in 1..Len(FlattenSeq(ss)) : \E r \in 1..Len(ss) : \E k \in 1..Len(ss[r]) :
        i = EndOf(ss, r - 1) + k /\ FlattenSeq(ss)[i] = ss[r][k]
  BY ONLY ss \in Seq(Seq(S)), FlattenFrom
<1>1. PICK r \in 1..Len(ss) : \E k \in 1..Len(ss[r]) :
        p = EndOf(ss, r - 1) + k /\ FlattenSeq(ss)[p] = ss[r][k]
  BY ONLY <1>0, p \in 1..Len(FlattenSeq(ss))
<1>2. PICK k \in 1..Len(ss[r]) : p = EndOf(ss, r - 1) + k /\ FlattenSeq(ss)[p] = ss[r][k]
  BY <1>1
<1>3. PICK s \in 1..Len(ss) : \E l \in 1..Len(ss[s]) :
        q = EndOf(ss, s - 1) + l /\ FlattenSeq(ss)[q] = ss[s][l]
  BY ONLY <1>0, q \in 1..Len(FlattenSeq(ss))
<1>4. PICK l \in 1..Len(ss[s]) : q = EndOf(ss, s - 1) + l /\ FlattenSeq(ss)[q] = ss[s][l]
  BY <1>3
<1>5. PICK e, f : e = EndOf(ss, r - 1) /\ f = EndOf(ss, s - 1)
  OBVIOUS
<1>6. /\ \A t \in 0..Len(ss) : EndOf(ss, t) \in Nat
      /\ \A t \in 1..Len(ss) : Len(ss[t]) \in Nat /\ EndOf(ss, t) = EndOf(ss, t - 1) + Len(ss[t])
  BY Ends
<1>7. \A t, u \in 0..Len(ss) : t <= u => EndOf(ss, t) <= EndOf(ss, u)
  BY EndsOrdered
<1>8. Len(ss) \in Nat /\ r - 1 \in 0..Len(ss) /\ s \in 0..Len(ss) /\ s - 1 \in 0..Len(ss)
  <2>1. Len(ss) \in Nat
    OBVIOUS
  <2> QED BY ONLY <1>1, <1>3, <2>1
<1>9. e \in Nat /\ f \in Nat /\ Len(ss[s]) \in Nat /\ EndOf(ss, s) = f + Len(ss[s])
  BY ONLY <1>3, <1>5, <1>6, <1>8
<1>10. p = e + k /\ q = f + l /\ k \in Nat /\ l \in Nat /\ k >= 1 /\ l <= Len(ss[s])
  <2>1. k \in Nat /\ k >= 1
    BY ONLY <1>2
  <2>2. l \in Nat /\ l <= Len(ss[s])
    BY ONLY <1>4, <1>9
  <2> QED BY ONLY <1>2, <1>4, <1>5, <2>1, <2>2
<1>11. r <= s
  <2>1. ASSUME s < r PROVE FALSE
    <3>1. s <= r - 1
      BY ONLY <1>1, <1>3, <1>8, <2>1
    <3>2. EndOf(ss, s) <= e
      BY ONLY <1>5, <1>7, <1>8, <3>1
    <3>3. PICK z : z = Len(ss[s])
      OBVIOUS
    <3>4. z \in Nat /\ f + z <= e /\ l <= z
      BY ONLY <1>9, <1>10, <3>2, <3>3
    <3> QED BY ONLY <1>9, <1>10, <3>4, p < q
  <2> QED BY ONLY <1>1, <1>3, <1>8, <2>1
<1>12. r = s => k < l
  BY ONLY <1>5, <1>9, <1>10, p < q
<1> QED BY ONLY <1>1, <1>2, <1>3, <1>4, <1>11, <1>12 DEF Precedes

\* a is of a letter before that of b, or the same, both in a run.
Ascend(a, b, text, run) ==
  \E i, j \in run.first..run.last : i <= j /\ a.at = text[i].at /\ b.at = text[j].at

\* A view keeps the order of the text.
LEMMA ViewInOrder ==
  ASSUME NEW text, text \in Seq(Letter), NEW fonts, fonts \in Fonts,
         NEW run, Within(run, Len(text)), NEW view, view = View(text, run, fonts)
  PROVE  \A p, q \in 1..Len(view) : p < q => Ascend(view[p], view[q], text, run)
<1>1. PICK vs, n, a, b : /\ vs = ViewParts(text, run, fonts) /\ n = Len(text)
                         /\ a = run.first /\ b = run.last
  OBVIOUS
<1>2. n \in Nat /\ a \in 1..n /\ b \in 1..n /\ a <= b
  <2>1. n \in Nat
    BY ONLY <1>1, text \in Seq(Letter), LenProperties
  <2> QED BY ONLY <1>1, <2>1, Within(run, Len(text)) DEF Within
<1>3. /\ vs \in Seq(Seq(Shape)) /\ Len(vs) = b - a + 1 /\ view = FlattenSeq(vs)
      /\ \A v \in 1..b - a + 1 :
           vs[v] = PieceOf(text[a + v - 1], a + v - 1,
                           NormalizeForFace(text[a + v - 1].cp, fonts.fallback), fonts)
  BY ONLY <1>1, text \in Seq(Letter), fonts \in Fonts, Within(run, Len(text)),
          view = View(text, run, fonts), ViewIs
<1>4. ASSUME NEW v, v \in 1..Len(vs)
      PROVE  /\ a + v - 1 \in a..b
             /\ \A k \in 1..Len(vs[v]) : vs[v][k].at = text[a + v - 1].at
  <2>1. a \in Nat /\ b \in Nat /\ v \in 1..b - a + 1
    BY ONLY <1>2, <1>3, <1>4
  <2>2. PICK i : i = a + v - 1
    OBVIOUS
  <2>3. i \in a..b /\ i \in 1..n /\ i \in Nat
    BY ONLY <1>2, <2>1, <2>2
  <2>4. PICK letter, w, piece : letter = text[i] /\ w = Writing(letter.cp, fonts) /\ piece = vs[v]
    OBVIOUS
  <2>5. letter \in Letter
    BY ONLY <1>1, <2>3, <2>4, text \in Seq(Letter), ElementOfSeq
  <2>6. piece = PieceOf(letter, i, NormalizeForFace(letter.cp, fonts.fallback), fonts)
    BY ONLY <1>3, <2>1, <2>2, <2>4
  <2>7. WrittenAs(piece, w, letter, i, fonts)
    BY ONLY <2>3, <2>4, <2>5, <2>6, fonts \in Fonts, PieceIs
  <2>8. \A k \in 1..Len(piece) : piece[k].at = letter.at
    BY ONLY <2>7 DEF WrittenAs
  <2> QED BY ONLY <2>2, <2>3, <2>4, <2>8
<1>5. ASSUME NEW p, p \in 1..Len(view), NEW q, q \in 1..Len(view), p < q
      PROVE  Ascend(view[p], view[q], text, run)
  <2>1. PICK r, s, k, l : /\ r \in 1..Len(vs) /\ s \in 1..Len(vs)
                          /\ k \in 1..Len(vs[r]) /\ l \in 1..Len(vs[s])
                          /\ view[p] = vs[r][k] /\ view[q] = vs[s][l] /\ r <= s
    <3>1. p \in 1..Len(FlattenSeq(vs)) /\ q \in 1..Len(FlattenSeq(vs))
      BY ONLY <1>3, <1>5
    <3>2. vs \in Seq(Seq(Shape))
      BY ONLY <1>3
    <3>3. Precedes(vs, p, q)
      BY ONLY <1>5, <3>1, <3>2, FlattenOrder
    <3> QED BY ONLY <1>3, <3>3 DEF Precedes
  <2>2. PICK i, j : i = a + r - 1 /\ j = a + s - 1
    OBVIOUS
  <2>3. i \in a..b /\ j \in a..b /\ view[p].at = text[i].at /\ view[q].at = text[j].at
    BY ONLY <1>4, <2>1, <2>2
  <2>4. i <= j
    BY ONLY <1>2, <1>3, <2>1, <2>2
  <2> QED BY ONLY <1>1, <2>3, <2>4 DEF Ascend
<1> QED BY ONLY <1>5

\* Glyphs in that order, or in the opposite one.
Directed(gs, text, run, levels) ==
  \A p, q \in 1..Len(gs) : p < q =>
    IF levels[run.first] % 2 = 1 THEN Ascend(gs[q], gs[p], text, run)
    ELSE Ascend(gs[p], gs[q], text, run)

\* That is how a run is drawn.
LEMMA DrawnInOrder ==
  ASSUME NEW runs, Known(runs), NEW fonts, fonts \in Fonts, NEW text, text \in Seq(Letter),
         NEW levels, levels = Levels(text), NEW o, NEW d, o[d] \in 1..Len(LogRuns(levels)),
         NEW run, run = LogRuns(levels)[o[d]],
         NEW gs, gs = DrawnAt(d, o, runs, text, levels, fonts)
  PROVE  Directed(gs, text, run, levels)
<1>1. PICK v, view, turned, ends :
        /\ v = VisOf(levels, o[d]) /\ view = View(text, v, fonts) /\ turned = Turn(v.rtl, view)
        /\ ends = Boundaries(runs, fonts.primary)
  OBVIOUS
<1>2. Within(v, Len(text)) /\ view \in Seq(Shape)
  BY ONLY <1>1, text \in Seq(Letter), levels = Levels(text), fonts \in Fonts,
          o[d] \in 1..Len(LogRuns(levels)), RunViewIs
<1>3. v.first = run.first /\ v.last = run.last /\ v.rtl = (levels[run.first] % 2 = 1)
  <2>1. levels \in Seq({0, 1, 2})
    BY ONLY text \in Seq(Letter), levels = Levels(text), LevelsAre
  <2> QED BY ONLY <1>1, <2>1, o[d] \in 1..Len(LogRuns(levels)), run = LogRuns(levels)[o[d]], VisOfIs
<1>4. \A p, q \in 1..Len(view) : p < q => Ascend(view[p], view[q], text, v)
  BY ONLY <1>1, <1>2, text \in Seq(Letter), fonts \in Fonts, ViewInOrder
<1>5. turned \in Seq(Shape) /\ Len(turned) = Len(view)
  BY ONLY <1>1, <1>2, TurnIs
<1>6. Len(gs) = Len(turned) /\ \A g \in 1..Len(turned) : gs[g].at = turned[g].at
  <2>1. gs = Styled(turned, runs, ends)
    BY ONLY <1>1, gs = DrawnAt(d, o, runs, text, levels, fonts) DEF DrawnAt
  <2>2. runs \in Seq(Run)
    BY ONLY Known(runs) DEF Known
  <2>3. Wears(gs, turned, runs, ends)
    BY ONLY <1>5, <2>1, <2>2, StyledIs
  <2> QED BY ONLY <2>3 DEF Wears
<1>7. PICK n : n = Len(view) /\ n \in Nat
  BY ONLY <1>2, LenProperties
<1>8. ASSUME NEW p, p \in 1..n, NEW q, q \in 1..n, p < q
      PROVE  IF levels[run.first] % 2 = 1 THEN Ascend(gs[q], gs[p], text, run)
             ELSE Ascend(gs[p], gs[q], text, run)
  <2>0. gs[p].at = turned[p].at /\ gs[q].at = turned[q].at
    BY ONLY <1>5, <1>6, <1>7, <1>8
  <2>1. CASE levels[run.first] % 2 = 1
    <3>1. turned = Reverse(view)
      BY ONLY <1>1, <1>3, <2>1 DEF Turn
    <3>2. \A i \in 1..n : Reverse(view)[i] = view[n - i + 1]
      BY ONLY <1>2, <1>7, ReverseIs
    <3>3. PICK x, y : x = n - p + 1 /\ y = n - q + 1
      OBVIOUS
    <3>4. x \in 1..n /\ y \in 1..n /\ y < x
      BY ONLY <1>7, <1>8, <3>3
    <3>5. turned[p] = view[x] /\ turned[q] = view[y]
      BY ONLY <1>8, <3>1, <3>2, <3>3
    <3>6. Ascend(view[y], view[x], text, v)
      BY ONLY <1>4, <1>7, <3>4
    <3>7. Ascend(gs[q], gs[p], text, run)
      BY ONLY <1>3, <2>0, <3>5, <3>6 DEF Ascend
    <3> QED BY ONLY <2>1, <3>7
  <2>2. CASE ~(levels[run.first] % 2 = 1)
    <3>1. turned = view
      BY ONLY <1>1, <1>3, <2>2 DEF Turn
    <3>2. Ascend(view[p], view[q], text, v)
      BY ONLY <1>4, <1>7, <1>8
    <3>3. Ascend(gs[p], gs[q], text, run)
      BY ONLY <1>3, <2>0, <3>1, <3>2 DEF Ascend
    <3> QED BY ONLY <2>2, <3>3
  <2> QED BY ONLY <2>1, <2>2
<1> QED BY ONLY <1>5, <1>6, <1>7, <1>8 DEF Directed

\* The glyphs of a line are in the order of the places of their characters.
LEMMA LineInOrder ==
  ASSUME NEW runs, NEW fonts, NEW text, NEW levels, Lined(runs, fonts, text, levels),
         NEW glyphs, glyphs = ShapeLine(runs, fonts)
  PROVE  Ordered(glyphs, text, VisualMap(levels))
<1>1. /\ Known(runs) /\ fonts \in Fonts /\ text = FullText(runs, fonts.primary)
      /\ levels = Levels(text)
  BY ONLY Lined(runs, fonts, text, levels) DEF Lined
<1>2. text \in Seq(Letter) /\ levels \in Seq({0, 1, 2}) /\ Len(levels) = Len(text) /\ Len(text) \in Nat
  BY ONLY Lined(runs, fonts, text, levels), LinedType
<1>3. PICK gs, o, m : Drawn(gs, o, m, runs, text, levels, fonts) /\ glyphs = FlattenSeq(gs)
  BY ONLY <1>1, glyphs = ShapeLine(runs, fonts), LineIs
<1>4. PICK lr : lr = LogRuns(levels)
  OBVIOUS
<1>5. /\ SplitBy(o, levels, m) /\ m = Len(lr) /\ m \in Nat
      /\ gs \in Seq(Seq(Glyph)) /\ Len(gs) = m
      /\ \A d \in 1..m : gs[d] = DrawnAt(d, o, runs, text, levels, fonts)
  BY ONLY <1>3, <1>4 DEF Drawn
<1>6. /\ o \in [1..m -> 1..m]
      /\ \A d, e \in 1..m : d < e => Leftmost(lr[o[d]], levels) < Leftmost(lr[o[e]], levels)
  BY ONLY <1>4, <1>5 DEF SplitBy
<1>7. \A d \in 1..m : o[d] \in 1..Len(lr)
  BY ONLY <1>5, <1>6
<1>8. ASSUME NEW d, d \in 1..m, NEW g, g \in 1..Len(gs[d])
      PROVE  \E i : i \in lr[o[d]].first..lr[o[d]].last /\ gs[d][g].at = text[i].at
  <2>1. PICK drawn : drawn = gs[d]
    OBVIOUS
  <2>2. drawn = DrawnAt(d, o, runs, text, levels, fonts) /\ o[d] \in 1..Len(LogRuns(levels))
    BY ONLY <1>4, <1>5, <1>7, <1>8, <2>1
  <2>3. \A k \in 1..Len(drawn) : \E i \in 1..Len(text) :
          /\ VisOf(levels, o[d]).first <= i /\ i <= VisOf(levels, o[d]).last
          /\ GlyphFor(drawn[k], i, runs, text, fonts)
    BY ONLY <1>1, <1>2, <2>2, DrawnAtIs
  <2>4. PICK i \in 1..Len(text) : /\ VisOf(levels, o[d]).first <= i /\ i <= VisOf(levels, o[d]).last
                                  /\ GlyphFor(drawn[g], i, runs, text, fonts)
    BY ONLY <1>8, <2>1, <2>3
  <2>5. PICK r, a, b : r = o[d] /\ a = lr[r].first /\ b = lr[r].last
    OBVIOUS
  <2>6. /\ VisOf(levels, r).first = a /\ VisOf(levels, r).last = b
        /\ Within(VisOf(levels, r), Len(levels))
    BY ONLY <1>2, <1>4, <2>2, <2>5, VisOfIs
  <2>7. a \in Nat /\ b \in Nat
    <3>1. a \in 1..Len(levels) /\ b \in 1..Len(levels)
      BY ONLY <2>6 DEF Within
    <3> QED BY ONLY <1>2, <3>1
  <2>8. i \in a..b
    <3>1. a <= i /\ i <= b /\ i \in Nat
      BY ONLY <1>2, <2>4, <2>5, <2>6
    <3> QED BY ONLY <2>7, <3>1
  <2>9. gs[d][g].at = text[i].at
    BY ONLY <2>1, <2>4 DEF GlyphFor
  <2> QED BY ONLY <2>5, <2>8, <2>9
<1> DEFINE LeadOf(x) == Lead(text, levels, x.at)
<1>9. ASSUME NEW p, p \in 1..Len(glyphs), NEW q, q \in 1..Len(glyphs), p < q
      PROVE  LeadOf(glyphs[p]) <= LeadOf(glyphs[q])
  <2>1. PICK d, e, k, l : /\ d \in 1..m /\ e \in 1..m /\ k \in 1..Len(gs[d]) /\ l \in 1..Len(gs[e])
                          /\ glyphs[p] = gs[d][k] /\ glyphs[q] = gs[e][l]
                          /\ d <= e /\ (d = e => k < l)
    <3>1. p \in 1..Len(FlattenSeq(gs)) /\ q \in 1..Len(FlattenSeq(gs))
      BY ONLY <1>3, <1>9
    <3>2. gs \in Seq(Seq(Glyph))
      BY ONLY <1>5
    <3>3. Precedes(gs, p, q)
      BY ONLY <1>9, <3>1, <3>2, FlattenOrder
    <3> QED BY ONLY <1>3, <1>5, <3>3 DEF Precedes
  <2>2. CASE d = e
    <3>1. PICK drawn, r, run : drawn = gs[d] /\ r = o[d] /\ run = lr[r]
      OBVIOUS
    <3>2. drawn = DrawnAt(d, o, runs, text, levels, fonts) /\ r \in 1..Len(LogRuns(levels))
      BY ONLY <1>4, <1>5, <1>7, <2>1, <3>1
    <3>3. run = LogRuns(levels)[o[d]] /\ o[d] \in 1..Len(LogRuns(levels)) /\ run = LogRuns(levels)[r]
      BY ONLY <1>4, <3>1, <3>2
    <3>4. Directed(drawn, text, run, levels)
      BY ONLY <1>1, <1>2, <3>2, <3>3, DrawnInOrder
    <3>5. IF levels[run.first] % 2 = 1 THEN Ascend(glyphs[q], glyphs[p], text, run)
          ELSE Ascend(glyphs[p], glyphs[q], text, run)
      BY ONLY <2>1, <2>2, <3>1, <3>4 DEF Directed
    <3>6. PICK i, j : /\ i \in run.first..run.last /\ j \in run.first..run.last
                      /\ glyphs[p].at = text[i].at /\ glyphs[q].at = text[j].at
                      /\ IF levels[run.first] % 2 = 1 THEN j <= i ELSE i <= j
      BY ONLY <3>5 DEF Ascend
    <3>7. Lead(text, levels, text[i].at) <= Lead(text, levels, text[j].at)
      BY ONLY <3>2, <3>3, <3>6, Lined(runs, fonts, text, levels), LeadsInRun
    <3> QED BY ONLY <3>6, <3>7
  <2>3. CASE d # e
    <3>1. d < e
      BY ONLY <1>5, <2>1, <2>3
    <3>2. PICK r, s : r = o[d] /\ s = o[e]
      OBVIOUS
    <3>3. /\ r \in 1..Len(LogRuns(levels)) /\ s \in 1..Len(LogRuns(levels))
          /\ Leftmost(LogRuns(levels)[r], levels) < Leftmost(LogRuns(levels)[s], levels)
      BY ONLY <1>4, <1>6, <1>7, <2>1, <3>1, <3>2
    <3>4. PICK i : i \in LogRuns(levels)[r].first..LogRuns(levels)[r].last /\ glyphs[p].at = text[i].at
      BY ONLY <1>4, <1>8, <2>1, <3>2
    <3>5. PICK j : j \in LogRuns(levels)[s].first..LogRuns(levels)[s].last /\ glyphs[q].at = text[j].at
      BY ONLY <1>4, <1>8, <2>1, <3>2
    <3>6. Lead(text, levels, text[i].at) <= Lead(text, levels, text[j].at)
      BY ONLY <3>3, <3>4, <3>5, Lined(runs, fonts, text, levels), LeadsAcross
    <3> QED BY ONLY <3>4, <3>5, <3>6
  <2> QED BY ONLY <2>2, <2>3
<1>10. \A at : Min({PlaceOf(VisualMap(levels), i) : i \in {j \in DOMAIN text : text[j].at = at}})
                 = Lead(text, levels, at)
  <2>1. DOMAIN text = 1..Len(text)
    BY ONLY <1>2, LenProperties
  <2>2. \A i \in 1..Len(text) : PlaceOf(VisualMap(levels), i) = VisualPlace(levels, i)
    <3>1. \A i \in 1..Len(levels) : PlaceOf(VisualMap(levels), i) = VisualPlace(levels, i)
      BY ONLY <1>2, PlacesAre
    <3> QED BY ONLY <1>2, <3>1
  <2> SUFFICES ASSUME NEW at
               PROVE  Min({PlaceOf(VisualMap(levels), i) : i \in {j \in DOMAIN text : text[j].at = at}})
                        = Lead(text, levels, at)
    OBVIOUS
  <2>3. {PlaceOf(VisualMap(levels), i) : i \in {j \in DOMAIN text : text[j].at = at}}
          = {VisualPlace(levels, i) : i \in {j \in DOMAIN text : text[j].at = at}}
    BY ONLY <2>1, <2>2
  <2> QED BY ONLY <2>3 DEF Lead
<1>11. ASSUME NEW g, g \in 1..Len(glyphs) - 1 PROVE LeadOf(glyphs[g]) <= LeadOf(glyphs[g + 1])
  <2>1. Len(glyphs) \in Nat
    <3>1. glyphs \in Seq(Glyph)
      BY ONLY <1>3, <1>5, FlattenType
    <3> QED BY ONLY <3>1, LenProperties
  <2>2. g \in 1..Len(glyphs) /\ g + 1 \in 1..Len(glyphs) /\ g < g + 1
    BY ONLY <1>11, <2>1
  <2> HIDE DEF LeadOf
  <2> QED BY ONLY <1>9, <2>2
<1> QED BY ONLY <1>10, <1>11 DEF Ordered

\* Where no Latin follows a number that follows Arabic, ShapeLine returns the glyphs in
\* the visual order of their characters, fonts and spans notwithstanding.
THEOREM LinesAreOrdered == Spec => []MixedLinesOrdered
<1>1. IInv /\ ReadInv => MixedLinesOrdered
  <2> SUFFICES ASSUME IInv, ReadInv, NEW s, s \in Shapings,
                      ~Meets(Levels(FullText(s.runs, s.fonts.primary)))
               PROVE  InVisualOrder(s)
    BY DEF MixedLinesOrdered
  <2>1. PICK runs, fonts, glyphs, text, levels :
          /\ runs = s.runs /\ fonts = s.fonts /\ glyphs = s.glyphs
          /\ text = FullText(runs, fonts.primary) /\ levels = Levels(text)
    OBVIOUS
  <2>2. Inv
    BY DEF IInv
  <2>3. Known(runs) /\ fonts \in Fonts /\ glyphs = ShapeLine(runs, fonts)
    BY <2>1, <2>2, ShapingIs
  <2>4. Apart(runs)
    BY <2>1, ShapingApart
  <2>5. ~Meets(levels)
    BY ONLY <2>1, ~Meets(Levels(FullText(s.runs, s.fonts.primary)))
  <2>6. Lined(runs, fonts, text, levels)
    BY ONLY <2>1, <2>3, <2>4, <2>5 DEF Lined
  <2>7. Ordered(glyphs, text, VisualMap(levels))
    BY ONLY <2>3, <2>6, LineInOrder
  <2> QED BY ONLY <2>1, <2>7 DEF InVisualOrder
<1>2. Init => IInv /\ ReadInv
  BY InitIInv, ReadInit
<1>3. IInv /\ ReadInv /\ [Next]_vars => IInv' /\ ReadInv'
  <2>1. IInv => Inv
    BY DEF IInv
  <2> QED BY <2>1, NextIInv, ReadNext
<1> QED BY <1>1, <1>2, <1>3, PTL DEF Spec
=============================================================================
