------------------------- MODULE CaptionQueueProofs -------------------------
(***************************************************************************)
(* Theorems about CaptionQueue, for every value of its constants.           *)
(***************************************************************************)
EXTENDS CaptionQueue, FiniteSetTheorems, TLAPS

USE DEF Settings
-----------------------------------------------------------------------------
(* What the operators on one entry return and what they preserve. *)

\* The fields that nothing but ShowPreview changes.
Same(e, f) ==
  /\ f.part = e.part
  /\ f.start = e.start
  /\ f.duration = e.duration
  /\ f.isPreview = e.isPreview
  /\ f.origin = e.origin
  /\ f.early = e.early

\* The sets of phrases CalcActivePhraseSignature and CalcActivePhraseCount speak
\* of are sets of phrase numbers.
LEMMA PhrasesType ==
  ASSUME NEW e \in Entry, NEW t
  PROVE  ActivePhrases(e, t) \in SUBSET Nat /\ ShownPhrases(e, t) \in SUBSET Nat
BY DEF ActivePhrases, ShownPhrases, Entry, Part

\* A configured text colour is one of the inks a texture can have.
LEMMA CaptionColour ==
  ASSUME NEW look \in Looks
  PROVE  look["colour"] \in Inks
BY DEF Inks

\* RenderEntryTexture changes the texture only.
LEMMA RenderKeeps ==
  ASSUME NEW e \in Entry, NEW ready \in BOOLEAN, NEW ok \in BOOLEAN,
         NEW look \in Looks
  PROVE  LET f == RenderEntryTexture(e, ready, ok, look)
         IN  /\ f \in Entry
             /\ Same(e, f)
             /\ f.opacity = e.opacity /\ f.expired = e.expired
             /\ f.look = e.look /\ f.ink = e.ink
<1> DEFINE new == IF ok /\ e.part.chars > 0 /\ ShownPhrases(e, now) # {}
                  THEN [phrases |-> ShownPhrases(e, now), look |-> look, ink |-> e.ink]
                  ELSE NoTexture
<1>1. new \in Texture \cup {NoTexture}
  BY PhrasesType DEF Texture, Entry
<1>2. RenderEntryTexture(e, ready, ok, look) =
        IF ~ready THEN e ELSE [e EXCEPT !.tex = new]
  BY DEF RenderEntryTexture
<1> HIDE DEF new
<1>3. [e EXCEPT !.tex = new] \in Entry
  BY <1>1 DEF Entry
<1> QED
  BY <1>2, <1>3 DEF Entry, Same

\* ReloadFontPreserveQueue takes a new snapshot of a live entry and leaves an
\* expired one without a texture.
LEMMA ReloadKeeps ==
  ASSUME NEW e \in Entry, NEW ready \in BOOLEAN, NEW ok \in BOOLEAN,
         NEW look \in Looks, now \in Nat
  PROVE  LET f == Reload(e, ready, ok, look)
         IN  /\ f \in Entry
             /\ Same(e, f)
             /\ f.opacity = e.opacity /\ f.expired = e.expired
             /\ f.ink = e.ink
             /\ ~e.expired => f.look = look
             /\ e.expired => f.look = e.look /\ f.tex = NoTexture
<1> DEFINE released == [e EXCEPT !.tex = NoTexture]
           drawn == RenderEntryTexture(released, ready, ok, look)
<1>1. /\ released \in Entry
      /\ Same(e, released)
      /\ released.opacity = e.opacity /\ released.expired = e.expired
      /\ released.look = e.look /\ released.ink = e.ink
      /\ released.tex = NoTexture
  BY DEF Entry, Same
<1>2. Reload(e, ready, ok, look) =
        IF e.expired THEN released
        ELSE [drawn EXCEPT !.look = look, !.rebuilt = now]
  BY DEF Reload
<1> HIDE DEF released
<1>3. /\ drawn \in Entry
      /\ Same(e, drawn)
      /\ drawn.opacity = e.opacity /\ drawn.expired = e.expired
      /\ drawn.look = e.look /\ drawn.ink = e.ink
  BY <1>1, RenderKeeps DEF Same
<1> HIDE DEF drawn
<1>4. CASE e.expired
  BY <1>1, <1>2, <1>4
<1>5. CASE ~e.expired
  BY <1>2, <1>3, <1>5 DEF Entry, Same
<1> QED
  BY <1>4, <1>5

\* The loop of UpdateQueue over the timers: it never touches the opacity, an
\* entry it leaves live has the font and the text colour configured now, and
\* its runs keep their colour if that colour is the one of the snapshot.
LEMMA RefreshKeeps ==
  ASSUME NEW e \in Entry, NEW ready \in BOOLEAN, NEW ok \in BOOLEAN,
         now \in Nat, cfg \in Looks
  PROVE  LET f == Refresh(e, ready, ok)
         IN  /\ f \in Entry
             /\ Same(e, f)
             /\ f.opacity = e.opacity
             /\ e.expired => f = e
             /\ f.expired /\ ~e.expired => now >= e.start + e.duration
             /\ ~f.expired => f.look["font"] = cfg["font"]
                           /\ f.look["colour"] = cfg["colour"]
             /\ e.look["colour"] = cfg["colour"] =>
                  f.ink = e.ink /\ f.look["colour"] = cfg["colour"]
             /\ ~f.expired /\ e.look["colour"] # cfg["colour"] =>
                  f.ink = cfg["colour"]
<1> DEFINE inked == [e EXCEPT !.ink = IF Changed(e, "colour") THEN cfg["colour"] ELSE @,
                              !.sig = ActivePhrases(e, now)]
           drawn == RenderEntryTexture(inked, ready, ok, cfg)
<1>1. /\ inked \in Entry
      /\ Same(e, inked)
      /\ inked.opacity = e.opacity /\ inked.expired = e.expired
      /\ inked.ink = IF e.look["colour"] = cfg["colour"] THEN e.ink ELSE cfg["colour"]
  BY PhrasesType, CaptionColour DEF Entry, Same, Changed
<1>2. Rebuild(e, ready, ok) = [drawn EXCEPT !.look = cfg, !.rebuilt = now]
  BY DEF Rebuild
<1> HIDE DEF inked
<1>3. /\ drawn \in Entry
      /\ Same(e, drawn)
      /\ drawn.opacity = e.opacity /\ drawn.expired = e.expired
      /\ drawn.ink = IF e.look["colour"] = cfg["colour"] THEN e.ink ELSE cfg["colour"]
  BY <1>1, RenderKeeps DEF Same
<1> HIDE DEF drawn
<1>4. CASE e.expired
  BY <1>4 DEF Refresh, Same
<1>5. CASE ~e.expired /\ now - e.start >= e.duration
  <2> DEFINE over == [e EXCEPT !.expired = TRUE]
  <2>1. Refresh(e, ready, ok) = over
    BY <1>5 DEF Refresh
  <2>2. /\ over \in Entry
        /\ Same(e, over)
        /\ over.opacity = e.opacity /\ over.expired
        /\ over.look = e.look /\ over.ink = e.ink
    BY DEF Entry, Same
  <2>3. now >= e.start + e.duration
    BY <1>5 DEF Entry
  <2> HIDE DEF over
  <2> QED
    BY <1>5, <2>1, <2>2, <2>3 DEF Entry
<1>6. CASE /\ ~e.expired /\ ~(now - e.start >= e.duration)
           /\ NeedsRebuild(e) /\ ~Throttled(e)
  <2> DEFINE f == [drawn EXCEPT !.look = cfg, !.rebuilt = now]
  <2>1. Refresh(e, ready, ok) = f
    BY <1>2, <1>6 DEF Refresh
  <2>2. /\ f \in Entry /\ Same(drawn, f)
        /\ f.opacity = drawn.opacity /\ f.expired = drawn.expired
        /\ f.look = cfg /\ f.ink = drawn.ink
    BY <1>3 DEF Entry, Same
  <2> HIDE DEF f
  <2>3. Same(e, f) /\ ~f.expired /\ f.opacity = e.opacity
    BY <1>3, <1>6, <2>2 DEF Same
  <2> QED
    BY <1>3, <1>6, <2>1, <2>2, <2>3
<1>7. CASE /\ ~e.expired /\ ~(now - e.start >= e.duration)
           /\ ~(NeedsRebuild(e) /\ ~Throttled(e))
  <2>1. Refresh(e, ready, ok) = e
    BY <1>7 DEF Refresh
  <2>2. ~Changed(e, "font") /\ ~Changed(e, "colour")
    BY <1>7 DEF NeedsRebuild, Throttled
  <2> QED
    BY <1>7, <2>1, <2>2 DEF Changed, Same
<1> QED
  BY <1>4, <1>5, <1>6, <1>7

\* The fade-out loop lowers the opacity of expired entries; one it makes
\* transparent loses its texture.
LEMMA FadeOutKeeps ==
  ASSUME NEW e \in Entry, NEW dt \in Nat
  PROVE  LET f == FadeOut(e, dt)
         IN  /\ f \in Entry
             /\ Same(e, f)
             /\ f.expired = e.expired /\ f.look = e.look /\ f.ink = e.ink
             /\ f.opacity <= e.opacity
             /\ ~e.expired \/ e.opacity = 0 => f = e
             /\ f.opacity = 0 => e.opacity = 0 \/ f.tex = NoTexture
<1>1. dt * FadeOutRate \in Nat
  BY FadeAssumption
<1>2. e.opacity \in 0..Opaque /\ Opaque \in Nat
  BY FadeAssumption DEF Entry
<1>3. CASE ~e.expired \/ e.opacity = 0
  BY <1>2, <1>3 DEF FadeOut, Same
<1>4. CASE ~(~e.expired \/ e.opacity = 0) /\ e.opacity > dt * FadeOutRate
  <2> DEFINE less == e.opacity - dt * FadeOutRate
  <2>1. less \in 0..Opaque /\ less > 0 /\ less <= e.opacity
    BY <1>1, <1>2, <1>4
  <2>2. FadeOut(e, dt) = [e EXCEPT !.opacity = less]
    BY <1>4 DEF FadeOut
  <2> QED
    BY <1>4, <2>1, <2>2 DEF Entry, Same
<1>5. CASE ~(~e.expired \/ e.opacity = 0) /\ ~(e.opacity > dt * FadeOutRate)
  <2> DEFINE gone == [e EXCEPT !.opacity = 0, !.tex = NoTexture]
  <2>1. FadeOut(e, dt) = gone
    BY <1>5 DEF FadeOut
  <2>2. 0 \in 0..Opaque
    BY FadeAssumption
  <2>3. gone \in Entry
    BY <2>2 DEF Entry
  <2>4. /\ Same(e, gone)
        /\ gone.expired = e.expired /\ gone.look = e.look /\ gone.ink = e.ink
        /\ gone.opacity = 0 /\ gone.tex = NoTexture
    BY DEF Entry, Same
  <2> HIDE DEF gone
  <2> QED
    BY <1>2, <1>5, <2>1, <2>3, <2>4 DEF Entry, Same
<1> QED
  BY <1>3, <1>4, <1>5

\* The fade-in loop raises the opacity of live entries whose time has come.
LEMMA FadeInKeeps ==
  ASSUME NEW e \in Entry, NEW dt \in Nat
  PROVE  LET f == FadeIn(e, dt)
         IN  /\ f \in Entry
             /\ Same(e, f)
             /\ f.expired = e.expired /\ f.look = e.look
             /\ f.ink = e.ink /\ f.tex = e.tex
             /\ f.opacity >= e.opacity
             /\ e.expired \/ now < e.start => f = e
<1>1. dt * FadeInRate \in Nat
  BY FadeAssumption
<1>2. e.opacity \in 0..Opaque /\ Opaque \in Nat
  BY FadeAssumption DEF Entry
<1> DEFINE more == IF e.part.sfx \/ e.opacity + dt * FadeInRate > Opaque
                   THEN Opaque ELSE e.opacity + dt * FadeInRate
<1>3. more \in 0..Opaque /\ more >= e.opacity
  BY <1>1, <1>2
<1>4. FadeIn(e, dt) = IF e.expired \/ now < e.start THEN e
                      ELSE [e EXCEPT !.opacity = more]
  BY DEF FadeIn
<1> HIDE DEF more
<1> QED
  BY <1>2, <1>3, <1>4 DEF Entry, Same

\* All the loops of UpdateQueue.
LEMMA UpdatedKeeps ==
  ASSUME NEW e \in Entry, NEW ready \in BOOLEAN, NEW ok \in BOOLEAN,
         NEW dt \in Nat, now \in Nat, cfg \in Looks
  PROVE  LET f == Updated(e, ready, ok, dt)
         IN  /\ f \in Entry
             /\ Same(e, f)
             /\ e.expired => f.expired
             /\ f.expired => e.expired \/ now >= e.start + e.duration
             /\ IF f.expired THEN f.opacity <= e.opacity
                             ELSE f.opacity >= e.opacity
             /\ now < e.start => f.opacity <= e.opacity
             /\ f.opacity = 0 => e.opacity = 0 \/ f.tex = NoTexture
             /\ ~f.expired => f.look["font"] = cfg["font"]
                           /\ f.look["colour"] = cfg["colour"]
             /\ e.look["colour"] = cfg["colour"] =>
                  f.ink = e.ink /\ f.look["colour"] = cfg["colour"]
             /\ ~FontStale /\ ~f.expired /\ e.look["colour"] # cfg["colour"] =>
                  f.ink = cfg["colour"]
<1> DEFINE a == IF FontStale THEN Reload(e, ready, ok, cfg) ELSE e
           b == Refresh(a, ready, ok)
           c == FadeOut(b, dt)
           f == FadeIn(c, dt)
<1>1. f = Updated(e, ready, ok, dt)
  BY DEF Updated
<1>2. /\ a \in Entry
      /\ Same(e, a)
      /\ a.opacity = e.opacity /\ a.expired = e.expired /\ a.ink = e.ink
      /\ e.look["colour"] = cfg["colour"] => a.look["colour"] = cfg["colour"]
      /\ ~FontStale => a = e
  BY ReloadKeeps DEF Same
<1> HIDE DEF a
<1>3. /\ b \in Entry
      /\ Same(a, b)
      /\ b.opacity = a.opacity
      /\ a.expired => b = a
      /\ b.expired /\ ~a.expired => now >= a.start + a.duration
      /\ ~b.expired => b.look["font"] = cfg["font"] /\ b.look["colour"] = cfg["colour"]
      /\ a.look["colour"] = cfg["colour"] =>
           b.ink = a.ink /\ b.look["colour"] = cfg["colour"]
      /\ ~b.expired /\ a.look["colour"] # cfg["colour"] => b.ink = cfg["colour"]
  BY <1>2, RefreshKeeps
<1> HIDE DEF b
<1>4. /\ c \in Entry
      /\ Same(b, c)
      /\ c.expired = b.expired /\ c.look = b.look /\ c.ink = b.ink
      /\ c.opacity <= b.opacity
      /\ ~b.expired \/ b.opacity = 0 => c = b
      /\ c.opacity = 0 => b.opacity = 0 \/ c.tex = NoTexture
  BY <1>3, FadeOutKeeps
<1> HIDE DEF c
<1>5. /\ f \in Entry
      /\ Same(c, f)
      /\ f.expired = c.expired /\ f.look = c.look
      /\ f.ink = c.ink /\ f.tex = c.tex
      /\ f.opacity >= c.opacity
      /\ c.expired \/ now < c.start => f = c
  BY <1>4, FadeInKeeps
<1> HIDE DEF f
<1>6. Same(e, f)
  BY <1>2, <1>3, <1>4, <1>5 DEF Same
<1>7. /\ e.opacity \in Nat /\ b.opacity \in Nat /\ c.opacity \in Nat /\ f.opacity \in Nat
      /\ e.expired \in BOOLEAN /\ a.expired \in BOOLEAN /\ b.expired \in BOOLEAN
      /\ c.expired \in BOOLEAN /\ f.expired \in BOOLEAN
  BY <1>2, <1>3, <1>4, <1>5, FadeAssumption DEF Entry
<1>8. /\ e.expired => f.expired
      /\ f.expired => e.expired \/ now >= e.start + e.duration
  BY <1>2, <1>3, <1>4, <1>5, <1>7 DEF Same
<1>9. /\ IF f.expired THEN f.opacity <= e.opacity ELSE f.opacity >= e.opacity
      /\ now < e.start => f.opacity <= e.opacity
  BY <1>2, <1>3, <1>4, <1>5, <1>6, <1>7 DEF Same
<1>10. f.opacity = 0 => e.opacity = 0 \/ f.tex = NoTexture
  BY <1>2, <1>3, <1>4, <1>5, <1>7
<1>11. /\ ~f.expired => f.look["font"] = cfg["font"] /\ f.look["colour"] = cfg["colour"]
       /\ e.look["colour"] = cfg["colour"] =>
            f.ink = e.ink /\ f.look["colour"] = cfg["colour"]
       /\ ~FontStale /\ ~f.expired /\ e.look["colour"] # cfg["colour"] =>
            f.ink = cfg["colour"]
  BY <1>2, <1>3, <1>4, <1>5, <1>7
<1> QED
  BY <1>1, <1>5, <1>6, <1>8, <1>9, <1>10, <1>11

\* An entry whose time is over has expired when the loops are done.
LEMMA UpdatedExpires ==
  ASSUME NEW e \in Entry, NEW ready \in BOOLEAN, NEW ok \in BOOLEAN,
         NEW dt \in Nat, now \in Nat, cfg \in Looks, now >= e.start + e.duration
  PROVE  Updated(e, ready, ok, dt).expired
<1> DEFINE a == IF FontStale THEN Reload(e, ready, ok, cfg) ELSE e
           b == Refresh(a, ready, ok)
           c == FadeOut(b, dt)
<1>1. a \in Entry /\ Same(e, a)
  BY ReloadKeeps DEF Same
<1> HIDE DEF a
<1>2. b \in Entry /\ b.expired
  <2>1. now - a.start >= a.duration
    BY <1>1 DEF Same, Entry
  <2> DEFINE over == [a EXCEPT !.expired = TRUE]
  <2>2. over \in Entry /\ over.expired
    BY <1>1 DEF Entry
  <2>3. b = IF a.expired THEN a ELSE over
    BY <2>1 DEF Refresh
  <2> HIDE DEF over, b
  <2> QED
    BY <1>1, <2>2, <2>3
<1> HIDE DEF b
<1>3. c \in Entry /\ c.expired
  BY <1>2, FadeOutKeeps
<1> HIDE DEF c
<1>4. Updated(e, ready, ok, dt) = FadeIn(c, dt)
  BY DEF Updated, a, b, c
<1> QED
  BY <1>3, <1>4, FadeInKeeps

\* The entry that SetCaptionText builds for a part.
LEMMA NewEntryKeeps ==
  ASSUME NEW part \in Part, NEW start \in Nat, NEW duration \in Nat,
         NEW origin \in {"game", "preview"}, NEW ok \in BOOLEAN, TypeOK
  PROVE  LET f == NewEntry(part, start, duration, origin, ok)
         IN  /\ f \in Entry
             /\ f.start = start /\ f.opacity = 0 /\ ~f.expired /\ ~f.isPreview
             /\ f.look = cfg /\ f.origin = origin
             /\ f.ink = IF f.part.tagged THEN TagInk ELSE cfg["colour"]
<1> DEFINE bare == [part |-> part, start |-> start, duration |-> duration + Extra,
                    opacity |-> 0, expired |-> FALSE, isPreview |-> FALSE,
                    origin |-> origin, early |-> ~imgui \/ ~shaper, sig |-> {},
                    look |-> cfg,
                    ink |-> IF part.tagged THEN TagInk ELSE cfg["colour"],
                    rebuilt |-> 0, tex |-> NoTexture]
           signed == [bare EXCEPT !.sig = ActivePhrases(bare, now)]
           drawn == RenderEntryTexture(signed, shaper, ok, cfg)
           Fresh(f) == /\ f \in Entry
                       /\ f.start = start /\ f.opacity = 0 /\ ~f.expired /\ ~f.isPreview
                       /\ f.look = cfg /\ f.origin = origin
                       /\ f.ink = IF f.part.tagged THEN TagInk ELSE cfg["colour"]
<1>1. NewEntry(part, start, duration, origin, ok) =
        IF imgui /\ ShownPhrases(bare, now) # {}
        THEN [drawn EXCEPT !.rebuilt = now] ELSE signed
  BY DEF NewEntry
<1>2. Fresh(bare) /\ bare.part = part
  <2>1. /\ cfg["colour"] \in Inks /\ TagInk \in Inks /\ cfg \in Looks
        /\ 0 \in 0..Opaque /\ duration + Extra \in Nat
        /\ imgui \in BOOLEAN /\ shaper \in BOOLEAN
    BY CaptionColour, FadeAssumption, TimeAssumption DEF TypeOK, Inks
  <2> QED
    BY <2>1 DEF Entry
<1> HIDE DEF bare
<1>3. Fresh(signed) /\ signed.part = part
  BY <1>2, PhrasesType DEF Entry
<1> HIDE DEF signed
<1>4. Fresh(drawn) /\ drawn.part = part
  <2>1. shaper \in BOOLEAN /\ cfg \in Looks
    BY DEF TypeOK
  <2> QED
    BY <1>3, <2>1, RenderKeeps DEF Same
<1> HIDE DEF drawn
<1>5. Fresh([drawn EXCEPT !.rebuilt = now])
  BY <1>4 DEF TypeOK, Entry
<1> QED
  BY <1>1, <1>3, <1>5

\* SetCaptionText appends fresh entries and leaves the others alone.
LEMMA PushKeeps ==
  ASSUME NEW text \in Texts \cup PreviewTexts, NEW origin \in {"game", "preview"},
         TypeOK, SetCaptionText(text, origin)
  PROVE  /\ pushed' \in Nat /\ pushed <= pushed'
         /\ DOMAIN queue \subseteq DOMAIN queue'
         /\ DOMAIN queue' \subseteq 1..pushed'
         /\ \A i \in DOMAIN queue : queue'[i] = queue[i]
         /\ \A i \in DOMAIN queue' \ DOMAIN queue :
              /\ i > pushed
              /\ queue'[i] \in Entry
              /\ queue'[i].opacity = 0 /\ ~queue'[i].expired
              /\ queue'[i].look = cfg /\ queue'[i].start >= now
              /\ queue'[i].origin = origin
              /\ queue'[i].ink = IF queue'[i].part.tagged THEN TagInk ELSE cfg["colour"]
<1> DEFINE added == pushed + 1 .. pushed + Len(text.parts)
<1>1. /\ text.parts \in Seq(Part) /\ text.duration \in Nat
      /\ Len(text.parts) \in Nat
  BY TextsAssumption DEF Text
<1>2. PICK offset \in Offsets(text), ok \in [added -> BuildOutcomes] :
        queue' = [i \in DOMAIN queue \cup added |->
                    IF i \in DOMAIN queue THEN queue[i]
                    ELSE NewEntry(text.parts[i - pushed],
                                  now + offset[i - pushed],
                                  PartDuration(text, i - pushed),
                                  origin, ok[i])]
  BY DEF SetCaptionText
<1>3. /\ pushed \in Nat /\ now \in Nat
      /\ DOMAIN queue \subseteq 1..pushed
      /\ pushed' = pushed + Len(text.parts)
  BY DEF SetCaptionText, TypeOK
<1>4. ASSUME NEW i \in DOMAIN queue' \ DOMAIN queue
      PROVE  /\ i > pushed
             /\ queue'[i] \in Entry
             /\ queue'[i].opacity = 0 /\ ~queue'[i].expired
             /\ queue'[i].look = cfg /\ queue'[i].start >= now
             /\ queue'[i].origin = origin
             /\ queue'[i].ink = IF queue'[i].part.tagged THEN TagInk ELSE cfg["colour"]
  <2>1. i \in added /\ i - pushed \in 1..Len(text.parts) /\ i > pushed
    BY <1>1, <1>2, <1>3
  <2>2. text.parts[i - pushed] \in Part
    BY <1>1, <2>1
  <2>3. offset[i - pushed] \in Nat
    BY <1>1, <2>1 DEF Offsets
  <2>4. PartDuration(text, i - pushed) \in Nat
    BY <1>1, <2>1, PartDurationAssumption
  <2>5. ok[i] \in BOOLEAN
    BY <2>1, OutcomesAssumption
  <2>6. /\ now + offset[i - pushed] \in Nat
        /\ now + offset[i - pushed] >= now
    BY <1>3, <2>3
  <2>7. queue'[i] = NewEntry(text.parts[i - pushed], now + offset[i - pushed],
                             PartDuration(text, i - pushed), origin, ok[i])
    BY <1>2, <2>1
  <2> QED
    BY <2>1, <2>2, <2>4, <2>5, <2>6, <2>7, NewEntryKeeps
<1>5. DOMAIN queue' = DOMAIN queue \cup added
  BY <1>2
<1>6. \A i \in DOMAIN queue : queue'[i] = queue[i]
  BY <1>2
<1>7. /\ pushed' \in Nat /\ pushed <= pushed'
      /\ DOMAIN queue' \subseteq 1..pushed'
  BY <1>1, <1>3, <1>5
<1> QED
  BY <1>4, <1>5, <1>6, <1>7

\* UpdateQueue as a step: the entries that stay are updated, the finished ones
\* leave, and the history records what was visible and what leaked.
LEMMA UpdateKeeps ==
  ASSUME TypeOK, lastFrame <= now, UpdateQueue
  PROVE  \E f :
           /\ \A i \in DOMAIN queue :
                \E ready \in BOOLEAN, ok \in BOOLEAN :
                  f[i] = Updated(queue[i], ready, ok, now - lastFrame)
           /\ DOMAIN queue' \subseteq DOMAIN queue
           /\ \A i \in DOMAIN queue' : queue'[i] = f[i] /\ ~Finished(f[i])
           /\ \A i \in DOMAIN queue \ DOMAIN queue' : Finished(f[i])
           /\ leaked' = leaked \cup {i \in DOMAIN queue \ DOMAIN queue' :
                                       f[i].tex # NoTexture}
           /\ seen' = seen \cup {i \in DOMAIN queue : f[i].opacity > 0}
           /\ shaper' \in BOOLEAN
<1>1. PICK ok \in [DOMAIN queue -> BuildOutcomes],
           ready \in IF FontStale THEN FontOutcomes ELSE {shaper} :
        LET faded == [i \in DOMAIN queue |->
                        Updated(queue[i], ready, ok[i], now - lastFrame)]
            done == {i \in DOMAIN queue : Finished(faded[i])}
        IN  /\ queue' = [i \in DOMAIN queue \ done |-> faded[i]]
            /\ shaper' = ready
            /\ leaked' = leaked \cup {i \in done : faded[i].tex # NoTexture}
            /\ seen' = seen \cup {i \in DOMAIN queue : faded[i].opacity > 0}
  BY DEF UpdateQueue
<1> DEFINE f == [i \in DOMAIN queue |->
                   Updated(queue[i], ready, ok[i], now - lastFrame)]
           done == {i \in DOMAIN queue : Finished(f[i])}
<1>2. ready \in BOOLEAN
  BY OutcomesAssumption DEF TypeOK
<1>3. \A i \in DOMAIN queue : ok[i] \in BOOLEAN
  BY OutcomesAssumption
<1>4. /\ queue' = [i \in DOMAIN queue \ done |-> f[i]]
      /\ shaper' = ready
      /\ leaked' = leaked \cup {i \in done : f[i].tex # NoTexture}
      /\ seen' = seen \cup {i \in DOMAIN queue : f[i].opacity > 0}
  BY <1>1
<1>5. \A i \in DOMAIN queue :
        f[i] = Updated(queue[i], ready, ok[i], now - lastFrame)
  OBVIOUS
<1> HIDE DEF f
<1>6. DOMAIN queue' = DOMAIN queue \ done
  BY <1>4
<1>7. done = DOMAIN queue \ DOMAIN queue'
  BY <1>6
<1> QED
  BY <1>2, <1>3, <1>4, <1>5, <1>6, <1>7
-----------------------------------------------------------------------------
(* The inductive invariant. *)

\* Time does not run backwards between two frames.
ClockForward == lastFrame <= now

\* An expired entry is one whose time is over.
ExpiredIsOver ==
  \A i \in DOMAIN queue :
    queue[i].expired => now >= queue[i].start + queue[i].duration

\* What was ever visible is visible as long as it is in the queue, and so is what
\* has expired; what leaked has left it.
SeenIsVisible ==
  \A i \in DOMAIN queue :
    /\ i \in seen \/ queue[i].expired => queue[i].opacity > 0
    /\ i \notin leaked

\* As long as the user has not changed the text colour under an entry, its
\* snapshot holds that colour.
ColourSnapshotCurrent ==
  \A i \in DOMAIN queue :
    i \notin recoloured => queue[i].look["colour"] = cfg["colour"]

Inv ==
  /\ TypeOK
  /\ ClockForward
  /\ ExpiredIsOver
  /\ SeenIsVisible
  /\ ColourSnapshotCurrent
  /\ FutureInvisible
  /\ LeakOnlyUnseen
  /\ TagColourKept
  /\ FontSnapshotCurrent
  /\ DrawnTexturesAlive

\* The invariant holds before the first frame.
LEMMA InitInv == Init => Inv
<1> SUFFICES ASSUME Init PROVE Inv
  OBVIOUS
<1>1. DOMAIN queue = {} /\ DOMAIN drawList = {}
  BY DEF Init
<1>2. TypeOK
  BY <1>1, LooksAssumption DEF Init, TypeOK, Stages
<1> QED
  BY <1>1, <1>2 DEF Init, Inv, ClockForward, ExpiredIsOver, SeenIsVisible,
     ColourSnapshotCurrent, FutureInvisible, LeakOnlyUnseen, TagColourKept,
     FontSnapshotCurrent, DrawnTexturesAlive

\* The parts of the invariant that only the queue, the clocks, the settings and
\* the history matter to.
QueueInv ==
  /\ ClockForward
  /\ ExpiredIsOver
  /\ SeenIsVisible
  /\ ColourSnapshotCurrent
  /\ FutureInvisible
  /\ LeakOnlyUnseen
  /\ TagColourKept
  /\ FontSnapshotCurrent

\* A step that takes entries out, or changes their marks, and nothing else.
LEMMA KeepQueueInv ==
  ASSUME Inv,
         DOMAIN queue' \subseteq DOMAIN queue,
         \A i \in DOMAIN queue' :
           /\ queue'[i].part = queue[i].part
           /\ queue'[i].start = queue[i].start
           /\ queue'[i].duration = queue[i].duration
           /\ queue'[i].opacity = queue[i].opacity
           /\ queue'[i].expired = queue[i].expired
           /\ queue'[i].look = queue[i].look
           /\ queue'[i].ink = queue[i].ink,
         UNCHANGED <<now, lastFrame, leaked, seen, recoloured>>,
         cfg' = cfg \/ DOMAIN queue' = {}
  PROVE  QueueInv'
BY DEF Inv, TypeOK, QueueInv, ClockForward, ExpiredIsOver, SeenIsVisible,
   ColourSnapshotCurrent, FutureInvisible, LeakOnlyUnseen, TagColourKept,
   FontSnapshotCurrent

\* SetCaptionText preserves the part of the invariant that speaks of the queue.
LEMMA PushQueueInv ==
  ASSUME Inv, NEW text \in Texts \cup PreviewTexts, NEW origin \in {"game", "preview"},
         SetCaptionText(text, origin),
         UNCHANGED <<now, lastFrame, cfg, leaked, seen, recoloured>>
  PROVE  QueueInv'
<1>1. /\ DOMAIN queue' \subseteq 1..pushed' /\ pushed' \in Nat
      /\ \A i \in DOMAIN queue : queue'[i] = queue[i]
      /\ \A i \in DOMAIN queue' \ DOMAIN queue :
           /\ i > pushed
           /\ queue'[i] \in Entry
           /\ queue'[i].opacity = 0 /\ ~queue'[i].expired
           /\ queue'[i].look = cfg /\ queue'[i].start >= now
           /\ queue'[i].part.tagged => queue'[i].ink = TagInk
  BY PushKeeps DEF Inv
<1>2. \A i \in DOMAIN queue' \ DOMAIN queue :
        i \notin leaked /\ i \notin seen /\ i \notin recoloured
  BY <1>1 DEF Inv, TypeOK
<1>3. ClockForward' /\ LeakOnlyUnseen'
  BY DEF Inv, ClockForward, LeakOnlyUnseen
<1>4. ExpiredIsOver' /\ FutureInvisible'
  BY <1>1 DEF Inv, ExpiredIsOver, FutureInvisible
<1>5. SeenIsVisible'
  BY <1>1, <1>2 DEF Inv, SeenIsVisible
<1>6. ColourSnapshotCurrent' /\ TagColourKept' /\ FontSnapshotCurrent'
  BY <1>1 DEF Inv, ColourSnapshotCurrent, TagColourKept, FontSnapshotCurrent
<1> QED
  BY <1>3, <1>4, <1>5, <1>6 DEF QueueInv

\* UpdateQueue preserves the part of the invariant that speaks of the queue.
LEMMA UpdateQueueInv ==
  ASSUME Inv, UpdateQueue
  PROVE  TypeOK' /\ QueueInv'
<1>1. PICK f :
        /\ \A i \in DOMAIN queue :
             \E ready \in BOOLEAN, ok \in BOOLEAN :
               f[i] = Updated(queue[i], ready, ok, now - lastFrame)
        /\ DOMAIN queue' \subseteq DOMAIN queue
        /\ \A i \in DOMAIN queue' : queue'[i] = f[i] /\ ~Finished(f[i])
        /\ \A i \in DOMAIN queue \ DOMAIN queue' : Finished(f[i])
        /\ leaked' = leaked \cup {i \in DOMAIN queue \ DOMAIN queue' :
                                    f[i].tex # NoTexture}
        /\ seen' = seen \cup {i \in DOMAIN queue : f[i].opacity > 0}
        /\ shaper' \in BOOLEAN
  BY UpdateKeeps DEF Inv, ClockForward
<1>2. UNCHANGED <<now, cfg, pushed, imgui, before, drawList, recoloured,
                    miscoloured>>
      /\ lastFrame' = now /\ rpc' = "updated"
  BY DEF UpdateQueue
<1>3. ASSUME NEW i \in DOMAIN queue
      PROVE  /\ queue[i] \in Entry /\ f[i] \in Entry
             /\ Same(queue[i], f[i])
             /\ queue[i].expired => f[i].expired
             /\ f[i].expired => \/ queue[i].expired
                                \/ now >= queue[i].start + queue[i].duration
             /\ IF f[i].expired THEN f[i].opacity <= queue[i].opacity
                                ELSE f[i].opacity >= queue[i].opacity
             /\ now < queue[i].start => f[i].opacity <= queue[i].opacity
             /\ f[i].opacity = 0 => queue[i].opacity = 0 \/ f[i].tex = NoTexture
             /\ ~f[i].expired => f[i].look["font"] = cfg["font"]
             /\ queue[i].look["colour"] = cfg["colour"] =>
                  f[i].ink = queue[i].ink /\ f[i].look["colour"] = cfg["colour"]
  <2>1. queue[i] \in Entry /\ now \in Nat /\ cfg \in Looks /\ now - lastFrame \in Nat
    BY DEF Inv, TypeOK, ClockForward
  <2>2. PICK ready \in BOOLEAN, ok \in BOOLEAN :
          f[i] = Updated(queue[i], ready, ok, now - lastFrame)
    BY <1>1
  <2> QED
    BY <2>1, <2>2, UpdatedKeeps
<1>4. \A i \in DOMAIN queue :
        /\ queue[i].opacity \in Nat /\ f[i].opacity \in Nat
        /\ queue[i].start \in Int
        /\ queue[i].expired \in BOOLEAN /\ f[i].expired \in BOOLEAN
  BY <1>3, FadeAssumption DEF Entry
<1>5. TypeOK'
  BY <1>1, <1>2, <1>3 DEF Inv, TypeOK, Stages
<1>6. ClockForward'
  BY <1>2 DEF Inv, TypeOK, ClockForward
<1>7. ExpiredIsOver'
  BY <1>1, <1>2, <1>3, <1>4 DEF Inv, ExpiredIsOver, Same
<1>8. SeenIsVisible'
  <2> SUFFICES ASSUME NEW i \in DOMAIN queue'
               PROVE  /\ i \in seen' \/ f[i].expired => f[i].opacity > 0
                      /\ i \notin leaked'
    BY <1>1 DEF SeenIsVisible
  <2>1. i \in seen => queue[i].opacity > 0
    BY <1>1 DEF Inv, SeenIsVisible
  <2>2. i \in seen \/ f[i].expired => f[i].opacity > 0
    <3>1. CASE f[i].expired
      BY <1>1, <1>4, <3>1 DEF Finished
    <3>2. CASE ~f[i].expired
      BY <1>1, <1>3, <1>4, <2>1, <3>2
    <3> QED
      BY <1>1, <1>4, <2>1, <3>1, <3>2
  <2> QED
    BY <1>1, <2>2 DEF Inv, SeenIsVisible
<1>9. ColourSnapshotCurrent' /\ TagColourKept'
  BY <1>1, <1>2, <1>3 DEF Inv, ColourSnapshotCurrent, TagColourKept, Same
<1>10. FontSnapshotCurrent'
  BY <1>1, <1>2, <1>3 DEF FontSnapshotCurrent
<1>11. FutureInvisible'
  <2> SUFFICES ASSUME NEW i \in DOMAIN queue', now < f[i].start
               PROVE  f[i].opacity = 0
    BY <1>1, <1>2 DEF FutureInvisible
  <2>1. now < queue[i].start /\ lastFrame < queue[i].start
    BY <1>1, <1>3, <1>4 DEF Same, Inv, TypeOK, ClockForward
  <2> QED
    BY <1>1, <1>3, <1>4, <2>1 DEF Inv, FutureInvisible
<1>12. LeakOnlyUnseen'
  <2> SUFFICES ASSUME NEW i \in leaked', i \in seen'
               PROVE  FALSE
    BY DEF LeakOnlyUnseen
  <2>1. CASE i \in leaked
    <3>1. i \notin DOMAIN queue
      BY <2>1 DEF Inv, SeenIsVisible
    <3> QED
      BY <1>1, <2>1, <3>1 DEF Inv, LeakOnlyUnseen
  <2>2. CASE i \in DOMAIN queue /\ Finished(f[i]) /\ f[i].tex # NoTexture
    <3>1. queue[i].opacity = 0 /\ f[i].opacity = 0
      BY <1>3, <2>2 DEF Finished
    <3> QED
      BY <1>1, <2>2, <3>1 DEF Inv, SeenIsVisible
  <2> QED
    BY <1>1, <2>1, <2>2
<1> QED
  BY <1>5, <1>6, <1>7, <1>8, <1>9, <1>10, <1>11, <1>12 DEF QueueInv

\* The live poll, entry by entry: a snapshot is replaced as a whole, and is
\* replaced in every live entry when a font path changes.
LEMMA PollKeeps ==
  ASSUME TypeOK, NEW look \in Looks, PollConfig(look)
  PROVE  /\ DOMAIN queue' = DOMAIN queue
         /\ shaper' \in BOOLEAN
         /\ \A i \in DOMAIN queue :
              /\ queue'[i] \in Entry
              /\ Same(queue[i], queue'[i])
              /\ queue'[i].opacity = queue[i].opacity
              /\ queue'[i].expired = queue[i].expired
              /\ queue'[i].ink = queue[i].ink
              /\ queue'[i].look \in {queue[i].look, look}
              /\ look["font"] # cfg["font"] /\ ~queue[i].expired =>
                   queue'[i].look = look
<1>1. /\ DOMAIN queue' = DOMAIN queue
      /\ shaper' \in BOOLEAN
      /\ \A i \in DOMAIN queue :
           \/ look["font"] = cfg["font"] /\ queue'[i] = queue[i]
           \/ \E ready \in BOOLEAN, ok \in BOOLEAN :
                queue'[i] = Reload(queue[i], ready, ok, look)
  <2>1. CASE look["font"] = cfg["font"]
    BY <2>1 DEF PollConfig, TypeOK
  <2>2. CASE look["font"] # cfg["font"]
    <3>1. PICK ready \in FontOutcomes, ok \in [DOMAIN queue -> BuildOutcomes] :
            /\ shaper' = ready
            /\ queue' = [i \in DOMAIN queue |-> Reload(queue[i], ready, ok[i], look)]
      BY <2>2 DEF PollConfig
    <3>2. ready \in BOOLEAN /\ \A i \in DOMAIN queue : ok[i] \in BOOLEAN
      BY OutcomesAssumption
    <3>3. \A i \in DOMAIN queue : queue'[i] = Reload(queue[i], ready, ok[i], look)
      BY <3>1
    <3> QED
      BY <3>1, <3>2, <3>3
  <2> QED
    BY <2>1, <2>2
<1>2. ASSUME NEW i \in DOMAIN queue
      PROVE  /\ queue'[i] \in Entry
             /\ Same(queue[i], queue'[i])
             /\ queue'[i].opacity = queue[i].opacity
             /\ queue'[i].expired = queue[i].expired
             /\ queue'[i].ink = queue[i].ink
             /\ queue'[i].look \in {queue[i].look, look}
             /\ look["font"] # cfg["font"] /\ ~queue[i].expired => queue'[i].look = look
  <2>1. queue[i] \in Entry /\ now \in Nat
    BY DEF TypeOK
  <2>2. CASE look["font"] = cfg["font"] /\ queue'[i] = queue[i]
    BY <2>1, <2>2 DEF Same
  <2>3. CASE \E ready \in BOOLEAN, ok \in BOOLEAN :
               queue'[i] = Reload(queue[i], ready, ok, look)
    <3>1. PICK ready \in BOOLEAN, ok \in BOOLEAN :
            queue'[i] = Reload(queue[i], ready, ok, look)
      BY <2>3
    <3>2. queue[i].expired \in BOOLEAN
      BY <2>1 DEF Entry
    <3> DEFINE f == Reload(queue[i], ready, ok, look)
    <3>3. /\ f \in Entry
          /\ Same(queue[i], f)
          /\ f.opacity = queue[i].opacity /\ f.expired = queue[i].expired
          /\ f.ink = queue[i].ink
          /\ ~queue[i].expired => f.look = look
          /\ queue[i].expired => f.look = queue[i].look
      BY <2>1, ReloadKeeps
    <3>4. queue'[i] = f
      BY <3>1
    <3> HIDE DEF f
    <3> QED
      BY <3>2, <3>3, <3>4
  <2> QED
    BY <1>1, <2>2, <2>3
<1> QED
  BY <1>1, <1>2

\* The live poll preserves the part of the invariant that speaks of the queue.
LEMMA PollQueueInv ==
  ASSUME Inv, NEW look \in Looks, PollConfig(look)
  PROVE  TypeOK' /\ QueueInv'
<1>1. /\ UNCHANGED <<now, lastFrame, pushed, imgui, before, drawList, leaked, seen>>
      /\ cfg' = look /\ rpc' = "idle"
      /\ NoteColour(look)
      /\ recoloured' = IF look["colour"] = cfg["colour"] THEN recoloured
                       ELSE recoloured \cup DOMAIN queue
      /\ miscoloured' \in {miscoloured, {}, DOMAIN queue}
  BY DEF PollConfig, RenderStep, NoteColour
<1>2. /\ DOMAIN queue' = DOMAIN queue
      /\ shaper' \in BOOLEAN
  BY PollKeeps DEF Inv
<1>3. \A i \in DOMAIN queue :
        /\ queue'[i] \in Entry
        /\ Same(queue[i], queue'[i])
        /\ queue'[i].opacity = queue[i].opacity
        /\ queue'[i].expired = queue[i].expired
        /\ queue'[i].ink = queue[i].ink
        /\ queue'[i].look \in {queue[i].look, look}
        /\ look["font"] # cfg["font"] /\ ~queue[i].expired => queue'[i].look = look
  BY PollKeeps DEF Inv
<1>4. TypeOK'
  BY <1>1, <1>2, <1>3 DEF Inv, TypeOK, Stages
<1>5. ClockForward' /\ ExpiredIsOver' /\ SeenIsVisible' /\ FutureInvisible' /\ LeakOnlyUnseen'
  BY <1>1, <1>2, <1>3 DEF Inv, ClockForward, ExpiredIsOver, SeenIsVisible,
     FutureInvisible, LeakOnlyUnseen, Same
<1>6. FontSnapshotCurrent'
  BY <1>1, <1>2, <1>3 DEF Inv, FontSnapshotCurrent
<1>7. ColourSnapshotCurrent' /\ TagColourKept'
  BY <1>1, <1>2, <1>3 DEF Inv, ColourSnapshotCurrent, TagColourKept, Same
<1> QED
  BY <1>4, <1>5, <1>6, <1>7 DEF QueueInv

\* The marks of ShowPreview change nothing but isPreview.
LEMMA MarkKeeps ==
  ASSUME TypeOK, ShowPreviewMark
  PROVE  /\ DOMAIN queue' = DOMAIN queue
         /\ \A i \in DOMAIN queue :
              /\ queue'[i] \in Entry
              /\ queue'[i].part = queue[i].part
              /\ queue'[i].start = queue[i].start
              /\ queue'[i].duration = queue[i].duration
              /\ queue'[i].opacity = queue[i].opacity
              /\ queue'[i].expired = queue[i].expired
              /\ queue'[i].look = queue[i].look
              /\ queue'[i].ink = queue[i].ink
<1>1. DOMAIN queue' = DOMAIN queue
  BY DEF ShowPreviewMark
<1>2. ASSUME NEW i \in DOMAIN queue
      PROVE  /\ queue'[i] \in Entry
             /\ queue'[i].part = queue[i].part
             /\ queue'[i].start = queue[i].start
             /\ queue'[i].duration = queue[i].duration
             /\ queue'[i].opacity = queue[i].opacity
             /\ queue'[i].expired = queue[i].expired
             /\ queue'[i].look = queue[i].look
             /\ queue'[i].ink = queue[i].ink
  <2> DEFINE marked == [queue[i] EXCEPT !.isPreview = TRUE]
  <2>1. queue[i] \in Entry
    BY DEF TypeOK
  <2>2. /\ marked \in Entry
        /\ marked.part = queue[i].part
        /\ marked.start = queue[i].start
        /\ marked.duration = queue[i].duration
        /\ marked.opacity = queue[i].opacity
        /\ marked.expired = queue[i].expired
        /\ marked.look = queue[i].look
        /\ marked.ink = queue[i].ink
    BY <2>1 DEF Entry
  <2>3. queue'[i] \in {queue[i], marked}
    BY DEF ShowPreviewMark
  <2> HIDE DEF marked
  <2> QED
    BY <2>1, <2>2, <2>3
<1> QED
  BY <1>1, <1>2

\* Every step of the game thread, the render thread and the clock preserves the
\* invariant.
LEMMA NextInv == Inv /\ [Next]_vars => Inv'
<1> SUFFICES ASSUME Inv, [Next]_vars PROVE Inv'
  OBVIOUS
<1> USE DEF RenderStep, history
<1>1. CASE UNCHANGED vars
  BY <1>1 DEF vars, Inv, TypeOK, ClockForward, ExpiredIsOver, SeenIsVisible,
     ColourSnapshotCurrent, FutureInvisible, LeakOnlyUnseen, TagColourKept,
     FontSnapshotCurrent, DrawnTexturesAlive
<1>2. CASE Tick
  <2>1. now' = now + 1 /\ UNCHANGED <<lastFrame, cfg, queue, pushed, imgui, shaper,
          rpc, before, drawList, leaked, seen, recoloured, miscoloured>>
    BY <1>2 DEF Tick
  <2>2. \A i \in DOMAIN queue : queue[i].start \in Int /\ queue[i].duration \in Nat
    BY DEF Inv, TypeOK, Entry
  <2> QED
    BY <2>1, <2>2 DEF Inv, TypeOK, ClockForward, ExpiredIsOver, SeenIsVisible,
       ColourSnapshotCurrent, FutureInvisible, LeakOnlyUnseen, TagColourKept,
       FontSnapshotCurrent, DrawnTexturesAlive
<1>3. CASE InitImGui \/ NewShaper \/ InitShaper \/ DrawCaptions
           \/ SubmitDrawData \/ SkipUI \/ ShowPreviewSize
  <2>1. UNCHANGED <<now, lastFrame, cfg, queue, pushed, leaked, seen, recoloured,
                    miscoloured>>
    BY <1>3 DEF InitImGui, NewShaper, InitShaper, DrawCaptions,
       SubmitDrawData, SkipUI, ShowPreviewSize
  <2>2. QueueInv'
    BY <2>1, KeepQueueInv
  <2>3. /\ imgui' \in BOOLEAN /\ shaper' \in BOOLEAN
        /\ rpc' \in Stages
    BY <1>3, OutcomesAssumption DEF InitImGui, NewShaper, InitShaper,
       DrawCaptions, SubmitDrawData, SkipUI, ShowPreviewSize, Inv, TypeOK, Stages
  <2>4. before' \in Nat
    <3>1. CASE ShowPreviewSize
      <4>0. pushed \in Nat /\ DOMAIN queue \subseteq 1..pushed
        BY DEF Inv, TypeOK
      <4>1. IsFiniteSet(1..pushed)
        BY <4>0, FS_Interval
      <4>2. IsFiniteSet(DOMAIN queue)
        BY <4>0, <4>1, FS_Subset
      <4> QED
        BY <3>1, <4>2, FS_CardinalityType DEF ShowPreviewSize
    <3>2. CASE ~ShowPreviewSize
      BY <1>3, <3>2 DEF InitImGui, NewShaper, InitShaper,
         DrawCaptions, SubmitDrawData, SkipUI, Inv, TypeOK
    <3> QED
      BY <3>1, <3>2
  <2>5. /\ \A i \in DOMAIN drawList' : drawList'[i] \in Texture
        /\ DrawnTexturesAlive'
    <3>1. CASE DrawCaptions
      <4>1. PICK shown \in {Drawable, {}} : drawList' = [i \in shown |-> queue[i].tex]
        BY <3>1 DEF DrawCaptions
      <4>2. \A i \in shown : i \in DOMAIN queue /\ queue[i].tex \in Texture
        BY DEF Drawable, Inv, TypeOK, Entry
      <4> QED
        BY <2>1, <4>1, <4>2 DEF DrawnTexturesAlive
    <3>2. CASE SubmitDrawData
      BY <3>2 DEF SubmitDrawData, DrawnTexturesAlive
    <3>3. CASE ~DrawCaptions /\ ~SubmitDrawData
      BY <1>3, <2>1, <3>3 DEF InitImGui, NewShaper, InitShaper, SkipUI,
         ShowPreviewSize, Inv, TypeOK, DrawnTexturesAlive
    <3> QED
      BY <3>1, <3>2, <3>3
  <2> QED
    BY <2>1, <2>2, <2>3, <2>4, <2>5 DEF Inv, QueueInv, TypeOK
<1>4. CASE UpdateQueue
  <2>1. rpc' = "updated"
    BY <1>4 DEF UpdateQueue
  <2> QED
    BY <1>4, <2>1, UpdateQueueInv DEF Inv, QueueInv, DrawnTexturesAlive
<1>5. CASE Save \/ Reset
  <2>1. PICK look \in Looks : SaveOrReset(look)
    BY <1>5, LooksAssumption DEF Save, Reset
  <2>2. /\ DOMAIN queue' = {}
        /\ UNCHANGED <<now, lastFrame, pushed, imgui, before, drawList,
                       leaked, seen, recoloured, miscoloured>>
        /\ cfg' \in Looks /\ shaper' \in BOOLEAN /\ rpc' = "preview"
    BY <2>1, OutcomesAssumption DEF SaveOrReset
  <2>3. QueueInv'
    BY <2>2, KeepQueueInv
  <2> QED
    BY <2>2, <2>3 DEF Inv, QueueInv, TypeOK, Stages, DrawnTexturesAlive
<1>6. CASE ClearPreview \/ ShowPreviewClear
  <2>1. /\ queue' = WithoutPreviews
        /\ UNCHANGED <<now, lastFrame, cfg, pushed, imgui, shaper, before, drawList,
                       leaked, seen, recoloured, miscoloured>>
        /\ rpc' \in {"clearing", "poll", "sizing"}
    BY <1>6 DEF ClearPreview, ShowPreviewClear
  <2>2. DOMAIN queue' \subseteq DOMAIN queue
        /\ \A i \in DOMAIN queue' : queue'[i] = queue[i]
    BY <2>1 DEF WithoutPreviews
  <2>3. QueueInv'
    BY <2>1, <2>2, KeepQueueInv
  <2> QED
    BY <2>1, <2>2, <2>3 DEF Inv, QueueInv, TypeOK, Stages, DrawnTexturesAlive
<1>7. CASE ShowPreviewMark
  <2>1. /\ UNCHANGED <<now, lastFrame, cfg, pushed, imgui, shaper, drawList,
                       leaked, seen, recoloured, miscoloured>>
        /\ rpc' = "clearing" /\ before' = 0
    BY <1>7 DEF ShowPreviewMark
  <2>2. DOMAIN queue' = DOMAIN queue
    BY <1>7, MarkKeeps DEF Inv
  <2>3. \A i \in DOMAIN queue :
          /\ queue'[i] \in Entry
          /\ queue'[i].part = queue[i].part
          /\ queue'[i].start = queue[i].start
          /\ queue'[i].duration = queue[i].duration
          /\ queue'[i].opacity = queue[i].opacity
          /\ queue'[i].expired = queue[i].expired
          /\ queue'[i].look = queue[i].look
          /\ queue'[i].ink = queue[i].ink
    BY <1>7, MarkKeeps DEF Inv
  <2>4. QueueInv'
    BY <2>1, <2>2, <2>3, KeepQueueInv
  <2> QED
    BY <2>1, <2>2, <2>3, <2>4 DEF Inv, QueueInv, TypeOK, Stages, DrawnTexturesAlive
<1>8. CASE \E text \in PreviewTexts : ShowPreviewPush(text)
  <2>1. PICK text \in PreviewTexts : ShowPreviewPush(text)
    BY <1>8
  <2>2. /\ SetCaptionText(text, "preview")
        /\ rpc' = "marking"
        /\ UNCHANGED <<now, lastFrame, cfg, imgui, shaper, before, drawList,
                       leaked, seen, recoloured, miscoloured>>
    BY <2>1 DEF ShowPreviewPush
  <2>3. QueueInv'
    BY <2>2, PushQueueInv
  <2>4. TypeOK'
    <3>1. /\ pushed' \in Nat /\ pushed <= pushed'
          /\ DOMAIN queue' \subseteq 1..pushed'
          /\ \A i \in DOMAIN queue' : queue'[i] \in Entry
      BY <2>2, PushKeeps DEF Inv, TypeOK
    <3>2. 1..pushed \subseteq 1..pushed'
      BY <3>1 DEF Inv, TypeOK
    <3> QED
      BY <2>2, <3>1, <3>2 DEF Inv, TypeOK, Stages
  <2> QED
    BY <2>2, <2>3, <2>4 DEF Inv, QueueInv, DrawnTexturesAlive
<1>9. CASE \E look \in Looks : PollConfig(look)
  <2>1. rpc' = "idle"
    BY <1>9 DEF PollConfig
  <2> QED
    BY <1>9, <2>1, PollQueueInv DEF Inv, QueueInv, DrawnTexturesAlive
<1>10. CASE \E text \in Texts : GameCaption(text)
  <2>1. PICK text \in Texts : GameCaption(text)
    BY <1>10
  <2>2. /\ SetCaptionText(text, "game")
        /\ UNCHANGED <<now, lastFrame, cfg, imgui, shaper, rpc, before, drawList,
                       leaked, seen, recoloured, miscoloured>>
    BY <2>1 DEF GameCaption
  <2>3. QueueInv'
    BY <2>2, PushQueueInv
  <2>4. TypeOK'
    <3>1. /\ pushed' \in Nat /\ pushed <= pushed'
          /\ DOMAIN queue' \subseteq 1..pushed'
          /\ \A i \in DOMAIN queue' : queue'[i] \in Entry
      BY <2>2, PushKeeps DEF Inv, TypeOK
    <3>2. 1..pushed \subseteq 1..pushed'
      BY <3>1 DEF Inv, TypeOK
    <3> QED
      BY <2>2, <3>1, <3>2 DEF Inv, TypeOK, Stages
  <2>5. DrawnTexturesAlive'
    BY <2>2, PushKeeps DEF Inv, DrawnTexturesAlive
  <2> QED
    BY <2>3, <2>4, <2>5 DEF Inv, QueueInv
<1> QED
  BY <1>1, <1>2, <1>3, <1>4, <1>5, <1>6, <1>7, <1>8, <1>9, <1>10 DEF Next, Present

\* The inductive invariant of the queue: it carries every safety theorem below.
THEOREM Invariance == Spec => []Inv
<1>1. Init => Inv
  BY InitInv
<1>2. Inv /\ [Next]_vars => Inv'
  BY NextInv
<1> QED
  BY <1>1, <1>2, PTL DEF Spec
-----------------------------------------------------------------------------
(* The properties. *)

\* The variables keep their types: an entry is well formed after any sequence of
\* pushes, updates, font reloads and previews.
THEOREM TypeCorrect == Spec => []TypeOK
<1>1. Inv => TypeOK
  BY DEF Inv
<1> QED
  BY <1>1, Invariance, PTL

\* No part of an <sb> caption is visible before its window starts.
THEOREM NothingAheadOfTime == Spec => []FutureInvisible
<1>1. Inv => FutureInvisible
  BY DEF Inv
<1> QED
  BY <1>1, Invariance, PTL

\* UpdateQueue loses no texture of a caption that was ever visible.
THEOREM NoVisibleLeak == Spec => []LeakOnlyUnseen
<1>1. Inv => LeakOnlyUnseen
  BY DEF Inv
<1> QED
  BY <1>1, Invariance, PTL

\* The colours of tags survive every rebuild until the user changes the text
\* colour.
THEOREM TagColoursSurvive == Spec => []TagColourKept
<1>1. Inv => TagColourKept
  BY DEF Inv
<1> QED
  BY <1>1, Invariance, PTL

\* The font check at the head of UpdateQueue never finds a stale font.
THEOREM FontCheckIsIdle == Spec => [](FontSnapshotCurrent /\ ~FontStale)
<1>1. Inv => FontSnapshotCurrent /\ ~FontStale
  BY DEF Inv, FontSnapshotCurrent, FontStale, Changed
<1> QED
  BY <1>1, Invariance, PTL

\* The draw list refers to live textures only, whatever the game thread does
\* between DrawCaptions and RenderDrawData.
THEOREM DrawListIsSafe == Spec => []DrawnTexturesAlive
<1>1. Inv => DrawnTexturesAlive
  BY DEF Inv
<1> QED
  BY <1>1, Invariance, PTL
-----------------------------------------------------------------------------
(* What a step may never do. *)

\* UpdateQueue, entry by entry: an entry that leaves has expired.
LEMMA UpdateRelates ==
  ASSUME Inv, UpdateQueue, NEW i \in DOMAIN queue
  PROVE  /\ i \notin DOMAIN queue' => now >= queue[i].start + queue[i].duration
         /\ i \in DOMAIN queue' =>
              IF queue'[i].expired THEN queue'[i].opacity <= queue[i].opacity
              ELSE ~queue[i].expired /\ queue'[i].opacity >= queue[i].opacity
<1>1. /\ queue[i] \in Entry /\ now \in Nat /\ cfg \in Looks
      /\ now - lastFrame \in Nat /\ lastFrame <= now
      /\ queue[i].expired => now >= queue[i].start + queue[i].duration
  BY DEF Inv, TypeOK, ClockForward, ExpiredIsOver
<1>2. PICK f :
        /\ \A j \in DOMAIN queue :
             \E ready \in BOOLEAN, ok \in BOOLEAN :
               f[j] = Updated(queue[j], ready, ok, now - lastFrame)
        /\ \A j \in DOMAIN queue' : queue'[j] = f[j]
        /\ \A j \in DOMAIN queue \ DOMAIN queue' : Finished(f[j])
  BY <1>1, UpdateKeeps DEF Inv
<1>3. PICK ready \in BOOLEAN, ok \in BOOLEAN :
        f[i] = Updated(queue[i], ready, ok, now - lastFrame)
  BY <1>2
<1>4. /\ f[i] \in Entry
      /\ queue[i].expired => f[i].expired
      /\ f[i].expired => \/ queue[i].expired
                         \/ now >= queue[i].start + queue[i].duration
      /\ IF f[i].expired THEN f[i].opacity <= queue[i].opacity
                         ELSE f[i].opacity >= queue[i].opacity
  BY <1>1, <1>3, UpdatedKeeps
<1>5. queue[i].expired \in BOOLEAN /\ f[i].expired \in BOOLEAN
  BY <1>1, <1>4 DEF Entry
<1>6. i \notin DOMAIN queue' => now >= queue[i].start + queue[i].duration
  BY <1>1, <1>2, <1>4 DEF Finished
<1>7. i \in DOMAIN queue' => queue'[i] = f[i]
  BY <1>2
<1> QED
  BY <1>4, <1>5, <1>6, <1>7

\* Every other step leaves opacity and expiry alone, and removes previews only
\* or, in the stage of Save and Reset, everything.
LEMMA OthersRelate ==
  ASSUME Inv, Next, ~UpdateQueue, NEW i \in DOMAIN queue
  PROVE  /\ i \notin DOMAIN queue' => queue[i].isPreview \/ rpc = "ui"
         /\ i \in DOMAIN queue' => /\ queue'[i].opacity = queue[i].opacity
                                   /\ queue'[i].expired = queue[i].expired
<1> USE DEF RenderStep
<1>1. CASE Tick \/ InitImGui \/ NewShaper \/ InitShaper \/ DrawCaptions
           \/ SubmitDrawData \/ SkipUI \/ ShowPreviewSize
  BY <1>1 DEF Tick, InitImGui, NewShaper, InitShaper, DrawCaptions,
     SubmitDrawData, SkipUI, ShowPreviewSize
<1>2. CASE Save \/ Reset
  BY <1>2 DEF Save, Reset, SaveOrReset
<1>3. CASE ClearPreview \/ ShowPreviewClear
  BY <1>3 DEF ClearPreview, ShowPreviewClear, WithoutPreviews
<1>4. CASE ShowPreviewMark
  BY <1>4, MarkKeeps DEF Inv
<1>5. CASE \E text \in PreviewTexts : ShowPreviewPush(text)
  BY <1>5, PushKeeps DEF ShowPreviewPush, Inv
<1>6. CASE \E text \in Texts : GameCaption(text)
  BY <1>6, PushKeeps DEF GameCaption, Inv
<1>7. CASE \E look \in Looks : PollConfig(look)
  BY <1>7, PollKeeps DEF Inv
<1> QED
  BY <1>1, <1>2, <1>3, <1>4, <1>5, <1>6, <1>7 DEF Next, Present

\* Nothing but Save, Reset and the end of a preview removes a caption whose time
\* is not over.
THEOREM NothingRemovedEarly == Spec => NoEarlyRemoval
<1>1. Inv /\ [Next]_vars =>
        [\A i \in DOMAIN queue \ DOMAIN queue' :
           \/ now >= queue[i].start + queue[i].duration
           \/ queue[i].isPreview
           \/ rpc = "ui"]_vars
  BY UpdateRelates, OthersRelate
<1> QED
  BY <1>1, Invariance, PTL DEF Spec, NoEarlyRemoval

\* Opacity is monotone within the two lives of an entry, and expiry is final.
THEOREM FadesOneWay == Spec => FadeDirection
<1>1. Inv /\ [Next]_vars =>
        [\A i \in DOMAIN queue \cap DOMAIN queue' :
           IF queue'[i].expired THEN queue'[i].opacity <= queue[i].opacity
           ELSE ~queue[i].expired /\ queue'[i].opacity >= queue[i].opacity]_vars
  <2> SUFFICES ASSUME Inv, Next, NEW i \in DOMAIN queue, i \in DOMAIN queue'
               PROVE  IF queue'[i].expired THEN queue'[i].opacity <= queue[i].opacity
                      ELSE ~queue[i].expired /\ queue'[i].opacity >= queue[i].opacity
    OBVIOUS
  <2>1. CASE UpdateQueue
    BY <2>1, UpdateRelates
  <2>2. CASE ~UpdateQueue
    <3>1. queue[i].opacity \in Nat
      BY FadeAssumption DEF Inv, TypeOK, Entry
    <3> QED
      BY <2>2, <3>1, OthersRelate
  <2> QED
    BY <2>1, <2>2
<1> QED
  BY <1>1, Invariance, PTL DEF Spec, FadeDirection
-----------------------------------------------------------------------------
(* CaptionQueue implements CaptionLife. *)

\* A step that leaves queue, pushed and the clock alone leaves the abstract
\* captions alone.
LEMMA LivesUnchanged ==
  ASSUME DOMAIN queue' = DOMAIN queue,
         \A i \in DOMAIN queue :
           /\ queue'[i].start = queue[i].start
           /\ queue'[i].duration = queue[i].duration
           /\ queue'[i].opacity = queue[i].opacity
           /\ queue'[i].expired = queue[i].expired
  PROVE  Lives' = Lives
BY DEF Lives, Stage

\* UpdateQueue is a Frame of CaptionLife.
LEMMA UpdateIsFrame ==
  ASSUME Inv, UpdateQueue
  PROVE  Life!Frame
<1>1. /\ now \in Nat /\ cfg \in Looks /\ now - lastFrame \in Nat /\ lastFrame <= now
      /\ \A i \in DOMAIN queue : queue[i] \in Entry
  BY DEF Inv, TypeOK, ClockForward
<1>2. PICK f :
        /\ \A i \in DOMAIN queue :
             \E ready \in BOOLEAN, ok \in BOOLEAN :
               f[i] = Updated(queue[i], ready, ok, now - lastFrame)
        /\ DOMAIN queue' \subseteq DOMAIN queue
        /\ \A i \in DOMAIN queue' : queue'[i] = f[i] /\ ~Finished(f[i])
        /\ \A i \in DOMAIN queue \ DOMAIN queue' : Finished(f[i])
  BY <1>1, UpdateKeeps DEF Inv
<1>3. UNCHANGED <<now, pushed>> /\ rpc \in {"idle", "ready"} /\ rpc' = "updated"
  BY DEF UpdateQueue
<1>4. \A i \in DOMAIN queue \ DOMAIN queue' : now >= Lives[i].until
  BY UpdateRelates DEF Lives
<1>5. ASSUME NEW i \in DOMAIN queue'
      PROVE  Life!Moved(Lives[i], Lives'[i])
  <2> DEFINE e == queue[i]
             g == queue'[i]
  <2>1. PICK ready \in BOOLEAN, ok \in BOOLEAN :
          g = Updated(e, ready, ok, now - lastFrame)
    BY <1>2
  <2>2. /\ e \in Entry /\ g \in Entry /\ Same(e, g)
        /\ e.expired => g.expired
        /\ g.expired => e.expired \/ now >= e.start + e.duration
        /\ IF g.expired THEN g.opacity <= e.opacity ELSE g.opacity >= e.opacity
        /\ now < e.start => g.opacity <= e.opacity
        /\ ~Finished(g)
    <3> DEFINE h == Updated(e, ready, ok, now - lastFrame)
    <3>1. e \in Entry
      BY <1>1, <1>2
    <3>2. /\ h \in Entry /\ Same(e, h)
          /\ e.expired => h.expired
          /\ h.expired => e.expired \/ now >= e.start + e.duration
          /\ IF h.expired THEN h.opacity <= e.opacity ELSE h.opacity >= e.opacity
          /\ now < e.start => h.opacity <= e.opacity
      BY <1>1, <3>1, UpdatedKeeps
    <3>3. g = h /\ ~Finished(g)
      BY <1>2, <2>1
    <3> HIDE DEF h, e, g
    <3> QED
      BY <3>1, <3>2, <3>3
  <2>3. now >= e.start + e.duration => g.expired
    BY <1>1, <1>2, <2>1, UpdatedExpires
  <2>4. /\ e.expired => now >= e.start + e.duration
        /\ e.expired => e.opacity > 0
        /\ lastFrame < e.start => e.opacity = 0
    BY <1>2 DEF Inv, ExpiredIsOver, SeenIsVisible, FutureInvisible
  <2>5. /\ e.opacity \in Nat /\ g.opacity \in Nat /\ e.start \in Int /\ e.duration \in Nat
        /\ e.expired \in BOOLEAN /\ g.expired \in BOOLEAN
        /\ lastFrame \in Nat
    BY <2>2, FadeAssumption DEF Entry, Inv, TypeOK
  <2>6. /\ Lives[i] = [stage |-> Stage(e), from |-> e.start, until |-> e.start + e.duration]
        /\ Lives'[i] = [stage |-> Stage(g), from |-> g.start, until |-> g.start + g.duration]
    BY <1>2 DEF Lives, Stage
  <2>7. g.start = e.start /\ g.duration = e.duration
    BY <2>2 DEF Same
  <2> HIDE DEF e, g
  <2>8. CASE now >= e.start + e.duration
    <3>1. g.expired /\ g.opacity > 0 /\ e.opacity > 0
      BY <2>2, <2>3, <2>5, <2>8 DEF Finished
    <3> QED
      BY <2>5, <2>6, <2>7, <2>8, <3>1 DEF Life!Moved, Stage
  <2>9. CASE ~(now >= e.start + e.duration) /\ now >= e.start
    <3>1. ~g.expired /\ ~e.expired /\ g.opacity >= e.opacity
      BY <2>2, <2>4, <2>5, <2>9
    <3> QED
      BY <2>5, <2>6, <2>7, <2>9, <3>1 DEF Life!Moved, Stage
  <2>10. CASE ~(now >= e.start + e.duration) /\ ~(now >= e.start)
    <3>1. ~g.expired /\ ~e.expired /\ g.opacity = 0 /\ e.opacity = 0
      BY <1>1, <2>2, <2>4, <2>5, <2>10
    <3> QED
      BY <2>5, <2>6, <2>7, <2>10, <3>1 DEF Life!Moved, Stage
  <2> QED
    BY <2>8, <2>9, <2>10
<1>6. /\ DOMAIN Lives = DOMAIN queue
      /\ DOMAIN Lives' = DOMAIN queue'
  BY DEF Lives
<1>7. UNCHANGED (rpc \in {"ui", "preview", "clearing"})
  BY <1>3
<1> QED
  BY <1>2, <1>3, <1>4, <1>5, <1>6, <1>7 DEF Life!Frame

\* SetCaptionText is a Send of CaptionLife.
LEMMA PushIsSend ==
  ASSUME Inv, NEW text \in Texts \cup PreviewTexts, NEW origin \in {"game", "preview"},
         SetCaptionText(text, origin), now' = now,
         UNCHANGED (rpc \in {"ui", "preview", "clearing"})
  PROVE  Life!Send
<1>1. /\ pushed' \in Nat /\ pushed <= pushed'
      /\ DOMAIN queue \subseteq DOMAIN queue'
      /\ DOMAIN queue' \subseteq 1..pushed'
      /\ \A i \in DOMAIN queue : queue'[i] = queue[i]
      /\ \A i \in DOMAIN queue' \ DOMAIN queue :
           /\ i > pushed
           /\ queue'[i] \in Entry
           /\ queue'[i].opacity = 0 /\ ~queue'[i].expired
           /\ queue'[i].start >= now
  BY PushKeeps DEF Inv
<1>2. pushed \in Nat /\ now \in Nat
  BY DEF Inv, TypeOK
<1>3. /\ DOMAIN Lives = DOMAIN queue
      /\ DOMAIN Lives' = DOMAIN queue'
  BY DEF Lives
<1>4. \A i \in DOMAIN queue : Lives'[i] = Lives[i]
  BY <1>1 DEF Lives, Stage
<1>5. ASSUME NEW i \in DOMAIN queue' \ DOMAIN queue
      PROVE  /\ Lives'[i].stage = "waiting"
             /\ Lives'[i].from >= now
             /\ Lives'[i].until >= Lives'[i].from
             /\ i \in pushed + 1 .. pushed'
  <2>1. /\ Lives'[i].stage = "waiting"
        /\ Lives'[i].from = queue'[i].start
        /\ Lives'[i].until = queue'[i].start + queue'[i].duration
    BY <1>1 DEF Lives, Stage
  <2>2. queue'[i].start \in Int /\ queue'[i].duration \in Nat
    BY <1>1 DEF Entry
  <2>3. i \in pushed + 1 .. pushed'
    BY <1>1, <1>2
  <2> QED
    BY <1>1, <2>1, <2>2, <2>3
<1> QED
  BY <1>1, <1>3, <1>4, <1>5 DEF Life!Send

\* Every step of CaptionQueue is a step of CaptionLife or changes nothing there.
LEMMA NextImplements == Inv /\ [Next]_vars => [Life!Next]_Life!vars
<1> SUFFICES ASSUME Inv, [Next]_vars PROVE [Life!Next]_Life!vars
  OBVIOUS
<1> DEFINE Panel == rpc \in {"ui", "preview", "clearing"}
<1> USE DEF RenderStep
<1>1. CASE UNCHANGED vars
  BY <1>1 DEF vars, Life!vars, Lives, Stage
<1>2. CASE Tick
  BY <1>2 DEF Tick, Life!Next, Life!Pass, Lives, Stage
<1>3. CASE InitImGui \/ NewShaper \/ InitShaper \/ DrawCaptions
           \/ ShowPreviewSize
  <2>1. UNCHANGED <<now, pushed, queue>> /\ ~Panel /\ ~Panel'
    BY <1>3 DEF InitImGui, NewShaper, InitShaper, DrawCaptions,
       ShowPreviewSize
  <2> QED
    BY <2>1 DEF Life!vars, Lives, Stage
<1>4. CASE SubmitDrawData \/ ShowPreviewMark
  <2>1. UNCHANGED <<now, pushed>> /\ Panel' = TRUE
    BY <1>4 DEF SubmitDrawData, ShowPreviewMark
  <2>2. UpdateQueue => rpc' = "updated"
    BY DEF UpdateQueue
  <2>3. ~UpdateQueue /\ Next
    BY <1>4, <2>2 DEF SubmitDrawData, ShowPreviewMark, Next, Present
  <2>4. DOMAIN queue' = DOMAIN queue
    BY <1>4 DEF SubmitDrawData, ShowPreviewMark
  <2>5. \A i \in DOMAIN queue :
          queue'[i].start = queue[i].start /\ queue'[i].duration = queue[i].duration
    BY <1>4, MarkKeeps DEF SubmitDrawData, Inv
  <2>6. Lives' = Lives
    BY <2>3, <2>4, <2>5, OthersRelate, LivesUnchanged
  <2> QED
    BY <2>1, <2>6 DEF Life!Next, Life!PanelStarts
<1>5. CASE SkipUI
  <2>1. UNCHANGED <<now, pushed, queue>> /\ Lives' = Lives
    BY <1>5 DEF SkipUI, Lives, Stage
  <2>2. CASE Panel
    BY <2>1, <2>2 DEF Life!Next, Life!Withdraw
  <2>3. CASE ~Panel
    <3>1. Panel' = Panel
      BY <1>5, <2>3 DEF SkipUI
    <3> QED
      BY <2>1, <3>1 DEF Life!vars
  <2> QED
    BY <2>2, <2>3
<1>6. CASE Save \/ Reset \/ ClearPreview \/ ShowPreviewClear
  <2>1. /\ UNCHANGED <<now, pushed>> /\ Panel
        /\ DOMAIN queue' \subseteq DOMAIN queue
        /\ \A i \in DOMAIN queue' : queue'[i] = queue[i]
    BY <1>6 DEF Save, Reset, SaveOrReset, ClearPreview, ShowPreviewClear,
       WithoutPreviews
  <2>2. /\ DOMAIN Lives' \subseteq DOMAIN Lives
        /\ \A i \in DOMAIN Lives' : Lives'[i] = Lives[i]
    BY <2>1 DEF Lives, Stage
  <2> QED
    BY <2>1, <2>2 DEF Life!Next, Life!Withdraw
<1>7. CASE UpdateQueue
  BY <1>7, UpdateIsFrame DEF Life!Next
<1>8. CASE \E text \in PreviewTexts : ShowPreviewPush(text)
  <2>1. PICK text \in PreviewTexts : ShowPreviewPush(text)
    BY <1>8
  <2>2. SetCaptionText(text, "preview") /\ now' = now /\ ~Panel /\ ~Panel'
    BY <2>1 DEF ShowPreviewPush
  <2>3. Life!Send
    BY <2>2, PushIsSend
  <2> QED
    BY <2>3 DEF Life!Next
<1>9. CASE \E text \in Texts : GameCaption(text)
  <2>1. PICK text \in Texts : GameCaption(text)
    BY <1>9
  <2>2. SetCaptionText(text, "game") /\ now' = now /\ rpc' = rpc
    BY <2>1 DEF GameCaption
  <2>3. Life!Send
    BY <2>2, PushIsSend
  <2> QED
    BY <2>3 DEF Life!Next
<1>10. CASE \E look \in Looks : PollConfig(look)
  <2>1. PICK look \in Looks : PollConfig(look)
    BY <1>10
  <2>2. UNCHANGED <<now, pushed>> /\ ~Panel /\ ~Panel'
    BY <2>1 DEF PollConfig
  <2>3. /\ DOMAIN queue' = DOMAIN queue
        /\ \A i \in DOMAIN queue :
             /\ queue'[i].start = queue[i].start
             /\ queue'[i].duration = queue[i].duration
             /\ queue'[i].opacity = queue[i].opacity
             /\ queue'[i].expired = queue[i].expired
    BY <2>1, PollKeeps DEF Inv, TypeOK, Same
  <2>4. Lives' = Lives
    BY <2>3, LivesUnchanged
  <2> QED
    BY <2>2, <2>4 DEF Life!vars
<1> QED
  BY <1>1, <1>2, <1>3, <1>4, <1>5, <1>6, <1>7, <1>8, <1>9, <1>10 DEF Next, Present

\* Whatever the game thread and the render thread interleave, every caption
\* waits, is shown, leaves and is gone as CaptionLife says.
THEOREM Implements == Spec => LifeSpec
<1>1. Init => Life!Init
  BY DEF Init, Life!Init, Lives
<1>2. Inv /\ [Next]_vars => [Life!Next]_Life!vars
  BY NextImplements
<1> QED
  BY <1>1, <1>2, Invariance, PTL DEF Spec, LifeSpec, Life!Spec
-----------------------------------------------------------------------------
(* What is drawn: the marks of previews, the colours of runs, and that what is *)
(* drawn is what is configured and due.                                        *)

USE DEF RenderStep, history
-----------------------------------------------------------------------------
(* The marks of ShowPreview. *)

Below(i) == {j \in DOMAIN queue : j < i}

\* Until ShowPreviewMark runs, every unmarked preview has an index from `before'
\* on: the captions that were in the queue when its size was taken are below it.
PreviewInv ==
  /\ \A i \in DOMAIN queue : queue[i].origin = "preview" =>
       \/ queue[i].isPreview
       \/ rpc = "marking" /\ before <= Cardinality(Below(i))
  /\ rpc = "pushing" => before <= Cardinality(DOMAIN queue)

\* A set of entry numbers is finite, and its subsets are no larger.
LEMMA NumbersFinite ==
  ASSUME NEW n \in Nat, NEW S \in SUBSET (1..n), NEW R \in SUBSET S
  PROVE  /\ IsFiniteSet(S)
         /\ Cardinality(S) \in Nat /\ Cardinality(R) \in Nat
         /\ Cardinality(R) <= Cardinality(S)
<1>1. 1 \in Int /\ n \in Int
  OBVIOUS
<1>2. IsFiniteSet(1..n)
  BY <1>1, FS_Interval
<1>3. IsFiniteSet(S)
  BY <1>2, FS_Subset
<1>4. IsFiniteSet(R) /\ Cardinality(R) <= Cardinality(S)
  BY <1>3, FS_Subset
<1> QED
  BY <1>3, <1>4, FS_CardinalityType

\* The queue is finite, and so is what lies below an index.
LEMMA QueueFinite ==
  ASSUME TypeOK
  PROVE  /\ Cardinality(DOMAIN queue) \in Nat
         /\ \A S \in SUBSET DOMAIN queue :
              Cardinality(S) \in Nat /\ Cardinality(S) <= Cardinality(DOMAIN queue)
<1>1. pushed \in Nat /\ DOMAIN queue \in SUBSET (1..pushed)
  BY DEF TypeOK
<1> QED
  BY <1>1, NumbersFinite

LEMMA PreviewStep == Inv /\ PreviewInv /\ [Next]_vars => PreviewInv'
<1> SUFFICES ASSUME Inv, PreviewInv, [Next]_vars PROVE PreviewInv'
  OBVIOUS
<1>0. TypeOK /\ pushed \in Nat /\ before \in Nat /\ DOMAIN queue \subseteq 1..pushed
  BY DEF Inv, TypeOK
<1>1. CASE UNCHANGED vars
  BY <1>1 DEF vars, PreviewInv, Below
<1>2. CASE Tick
  BY <1>2 DEF Tick, PreviewInv, Below
<1>3. CASE InitImGui \/ NewShaper \/ InitShaper \/ DrawCaptions
           \/ SubmitDrawData \/ SkipUI
  BY <1>3 DEF InitImGui, NewShaper, InitShaper, DrawCaptions, SubmitDrawData,
     SkipUI, PreviewInv, Below
<1>4. CASE ShowPreviewSize
  BY <1>0, <1>4, QueueFinite DEF ShowPreviewSize, PreviewInv, Below
<1>5. CASE UpdateQueue
  <2>1. /\ now \in Nat /\ cfg \in Looks /\ now - lastFrame \in Nat /\ lastFrame <= now
        /\ \A i \in DOMAIN queue : queue[i] \in Entry
    BY DEF Inv, TypeOK, ClockForward
  <2>2. PICK f :
          /\ \A j \in DOMAIN queue :
               \E ready \in BOOLEAN, ok \in BOOLEAN :
                 f[j] = Updated(queue[j], ready, ok, now - lastFrame)
          /\ DOMAIN queue' \subseteq DOMAIN queue
          /\ \A j \in DOMAIN queue' : queue'[j] = f[j]
    BY <1>0, <1>5, <2>1, UpdateKeeps
  <2>3. \A i \in DOMAIN queue' : queue'[i].origin = queue[i].origin
                                 /\ queue'[i].isPreview = queue[i].isPreview
    <3> SUFFICES ASSUME NEW i \in DOMAIN queue'
                 PROVE  queue'[i].origin = queue[i].origin
                        /\ queue'[i].isPreview = queue[i].isPreview
      OBVIOUS
    <3>1. PICK ready \in BOOLEAN, ok \in BOOLEAN :
            queue'[i] = Updated(queue[i], ready, ok, now - lastFrame)
      BY <2>2
    <3>2. queue[i] \in Entry
      BY <2>1, <2>2
    <3>3. Same(queue[i], Updated(queue[i], ready, ok, now - lastFrame))
      BY <2>1, <3>2, UpdatedKeeps
    <3> QED
      BY <3>1, <3>3 DEF Same
  <2>4. rpc \in {"idle", "ready"} /\ rpc' = "updated"
    BY <1>5 DEF UpdateQueue
  <2> QED
    BY <2>2, <2>3, <2>4 DEF PreviewInv
<1>6. CASE Save \/ Reset
  BY <1>6 DEF Save, Reset, SaveOrReset, PreviewInv
<1>7. CASE ClearPreview \/ ShowPreviewClear
  BY <1>7 DEF ClearPreview, ShowPreviewClear, WithoutPreviews, PreviewInv
<1>8. CASE ShowPreviewMark
  <2>1. /\ rpc = "marking" /\ rpc' = "clearing"
        /\ queue' = [i \in DOMAIN queue |->
                       IF Cardinality(Below(i)) >= before
                       THEN [queue[i] EXCEPT !.isPreview = TRUE] ELSE queue[i]]
    BY <1>8 DEF ShowPreviewMark, Below
  <2>2. ASSUME NEW i \in DOMAIN queue', queue'[i].origin = "preview"
        PROVE  queue'[i].isPreview
    <3>1. queue[i] \in Entry
      BY <1>0, <2>1 DEF TypeOK
    <3>2. [queue[i] EXCEPT !.isPreview = TRUE].isPreview
      BY <3>1 DEF Entry
    <3>3. queue[i].origin = "preview"
      BY <2>1, <2>2, <3>1 DEF Entry
    <3>4. queue[i].isPreview \/ Cardinality(Below(i)) >= before
      <4>1. Cardinality(Below(i)) \in Nat
        BY <1>0, QueueFinite DEF Below
      <4> QED BY <1>0, <2>1, <3>3, <4>1 DEF PreviewInv
    <3> QED BY <2>1, <3>2, <3>4
  <2> QED BY <2>1, <2>2 DEF PreviewInv
<1>9. CASE \E text \in PreviewTexts : ShowPreviewPush(text)
  <2>1. PICK text \in PreviewTexts : ShowPreviewPush(text)
    BY <1>9
  <2>2. /\ rpc = "pushing" /\ rpc' = "marking" /\ before' = before
        /\ SetCaptionText(text, "preview")
    BY <2>1 DEF ShowPreviewPush
  <2>3. /\ DOMAIN queue \subseteq DOMAIN queue' /\ DOMAIN queue' \subseteq 1..pushed'
        /\ \A i \in DOMAIN queue : queue'[i] = queue[i]
        /\ \A i \in DOMAIN queue' \ DOMAIN queue : i > pushed
        /\ pushed' \in Nat
    BY <1>0, <2>2, PushKeeps
  <2>4. ASSUME NEW i \in DOMAIN queue' \ DOMAIN queue
        PROVE  before <= Cardinality(Below(i)')
    <3>1. DOMAIN queue \subseteq Below(i)'
      BY <1>0, <2>3 DEF Below
    <3>2. Below(i)' \in SUBSET (1..pushed') /\ DOMAIN queue \in SUBSET Below(i)'
      BY <2>3, <3>1 DEF Below
    <3>3. /\ Cardinality(Below(i)') \in Nat
          /\ Cardinality(DOMAIN queue) <= Cardinality(Below(i)')
      BY <2>3, <3>2, NumbersFinite
    <3> QED BY <1>0, <2>2, <3>3, QueueFinite DEF PreviewInv
  <2> QED BY <2>2, <2>3, <2>4 DEF PreviewInv
<1>10. CASE \E look \in Looks : PollConfig(look)
  <2>1. rpc = "poll" /\ rpc' = "idle"
    BY <1>10 DEF PollConfig
  <2> QED BY <1>0, <1>10, <2>1, PollKeeps DEF PreviewInv, Same
<1>11. CASE \E text \in Texts : GameCaption(text)
  <2>1. PICK text \in Texts : GameCaption(text)
    BY <1>11
  <2>2. rpc' = rpc /\ before' = before /\ SetCaptionText(text, "game")
    BY <2>1 DEF GameCaption
  <2>3. /\ DOMAIN queue \subseteq DOMAIN queue' /\ DOMAIN queue' \subseteq 1..pushed'
        /\ \A i \in DOMAIN queue : queue'[i] = queue[i]
        /\ \A i \in DOMAIN queue' \ DOMAIN queue : i > pushed /\ queue'[i].origin = "game"
        /\ pushed' \in Nat
    BY <1>0, <2>2, PushKeeps
  <2>4. \A i \in DOMAIN queue : Below(i)' = Below(i)
    BY <1>0, <2>3 DEF Below
  <2>5. /\ DOMAIN queue' \in SUBSET (1..pushed')
        /\ DOMAIN queue \in SUBSET DOMAIN queue'
    BY <2>3
  <2>6. /\ Cardinality(DOMAIN queue) <= Cardinality(DOMAIN queue')
        /\ Cardinality(DOMAIN queue') \in Nat
    BY <2>3, <2>5, NumbersFinite
  <2>7. rpc' = "pushing" => before' <= Cardinality(DOMAIN queue')
    BY <1>0, <2>2, <2>6, QueueFinite DEF PreviewInv
  <2>8. \A i \in DOMAIN queue' : queue'[i].origin = "preview" =>
          \/ queue'[i].isPreview
          \/ rpc' = "marking" /\ before' <= Cardinality(Below(i)')
    BY <2>2, <2>3, <2>4 DEF PreviewInv
  <2> QED BY <2>7, <2>8 DEF PreviewInv
<1> QED
  BY <1>1, <1>2, <1>3, <1>4, <1>5, <1>6, <1>7, <1>8, <1>9, <1>10, <1>11
  DEF Next, Present

\* ShowPreview marks all it pushed, whatever the game pushes between its four
\* critical sections.
THEOREM PreviewsAreMarked == Spec => []PreviewMarked
<1>1. Init => PreviewInv
  BY DEF Init, PreviewInv
<1>2. PreviewInv => PreviewMarked
  BY DEF PreviewInv, PreviewMarked
<1> QED
  BY <1>1, <1>2, PreviewStep, Invariance, PTL DEF Spec
-----------------------------------------------------------------------------
(* Texture, signature and snapshot of an entry agree. *)

\* The phrases a texture built with the entry's signature would show.
Prefix(e) == {k \in DOMAIN e.part.delays : \A j \in 1..k : j \in e.sig}

\* At time t the texture shows no phrase that is not due, none fewer than the
\* signature asks for, the settings of the snapshot and the colour of the runs.
Sound(e, t) ==
  /\ e.sig \subseteq ActivePhrases(e, t)
  /\ e.tex # NoTexture => /\ e.tex.look = e.look /\ e.tex.ink = e.ink
                         /\ Prefix(e) \subseteq e.tex.phrases
                         /\ e.tex.phrases \subseteq ShownPhrases(e, t)

\* The texture was made of the phrases due at time t and in these settings.
Fresh(e, look, t) ==
  ~e.expired /\ e.tex # NoTexture =>
    /\ e.tex.phrases = ShownPhrases(e, t)
    /\ \A s \in {"font", "layout", "colour"} : e.tex.look[s] = look[s]
    /\ \/ e.tex.look["spacing"] = look["spacing"]
       \/ t - e.rebuilt < Throttle

\* Phrases depend on the part and its start, and time only adds to them.
LEMMA PhrasesGrow ==
  ASSUME NEW e \in Entry, NEW f, f.part = e.part, f.start = e.start,
         NEW t \in Int, NEW u \in Int, t <= u
  PROVE  /\ ActivePhrases(f, t) = ActivePhrases(e, t)
         /\ ShownPhrases(f, t) = ShownPhrases(e, t)
         /\ ActivePhrases(e, t) \subseteq ActivePhrases(e, u)
         /\ ShownPhrases(e, t) \subseteq ShownPhrases(e, u)
<1>1. /\ e.part.delays \in Seq(Nat) /\ e.start \in Int
      /\ \A k \in DOMAIN e.part.delays : e.part.delays[k] \in Nat
  BY DEF Entry, Part
<1>2. \A k \in DOMAIN e.part.delays : \A j \in 1..k : e.part.delays[j] \in Nat
  BY <1>1
<1>3. ActivePhrases(f, t) = ActivePhrases(e, t) /\ ShownPhrases(f, t) = ShownPhrases(e, t)
  BY Zenon DEF ActivePhrases, ShownPhrases
<1>4. ASSUME NEW d \in Nat, t - e.start >= d PROVE u - e.start >= d
  BY <1>1, <1>4
<1>5. ActivePhrases(e, t) \subseteq ActivePhrases(e, u)
  BY <1>1, <1>4 DEF ActivePhrases
<1>6. ShownPhrases(e, t) \subseteq ShownPhrases(e, u)
  BY <1>2, <1>4 DEF ShownPhrases
<1> QED
  BY <1>3, <1>5, <1>6

\* What is sound stays sound.
LEMMA SoundLater ==
  ASSUME NEW e \in Entry, NEW t \in Int, NEW u \in Int, t <= u, Sound(e, t)
  PROVE  Sound(e, u)
BY PhrasesGrow DEF Sound

\* A sound texture under an up-to-date signature shows exactly what is due.
LEMMA SoundExact ==
  ASSUME NEW e \in Entry, NEW t \in Int, Sound(e, t), e.tex # NoTexture,
         e.sig = ActivePhrases(e, t)
  PROVE  e.tex.phrases = ShownPhrases(e, t)
<1>1. /\ e.part.delays \in Seq(Nat)
      /\ \A k \in DOMAIN e.part.delays : \A j \in 1..k : j \in DOMAIN e.part.delays
  BY DEF Entry, Part
<1>2. ShownPhrases(e, t) \subseteq Prefix(e)
  BY <1>1 DEF ShownPhrases, ActivePhrases, Prefix
<1> QED
  BY <1>2 DEF Sound

\* RenderEntryTexture leaves no texture or one that shows what is due now.
LEMMA RenderFresh ==
  ASSUME NEW e \in Entry, NEW ready \in BOOLEAN, NEW ok \in BOOLEAN,
         NEW look \in Looks, ~ready => e.tex = NoTexture
  PROVE  LET f == RenderEntryTexture(e, ready, ok, look)
         IN  /\ f.sig = e.sig /\ f.rebuilt = e.rebuilt
             /\ ~ready => f.tex = NoTexture
             /\ f.tex # NoTexture => f.tex.phrases = ShownPhrases(e, now)
                                   /\ f.tex.look = look /\ f.tex.ink = e.ink
<1> DEFINE new == IF ok /\ e.part.chars > 0 /\ ShownPhrases(e, now) # {}
                  THEN [phrases |-> ShownPhrases(e, now), look |-> look, ink |-> e.ink]
                  ELSE NoTexture
<1>1. RenderEntryTexture(e, ready, ok, look) =
        IF ~ready THEN e ELSE [e EXCEPT !.tex = new]
  BY DEF RenderEntryTexture
<1>2. new # NoTexture => /\ new.phrases = ShownPhrases(e, now)
                        /\ new.look = look /\ new.ink = e.ink
  OBVIOUS
<1> HIDE DEF new
<1> QED
  BY <1>1, <1>2 DEF Entry

\* The signature of a rendered entry need only be no later than its texture.
LEMMA RenderedSound ==
  ASSUME NEW e \in Entry, NEW f \in Entry, Same(e, f), f.sig \subseteq ActivePhrases(e, now),
         now \in Int,
         f.tex # NoTexture => /\ f.tex.phrases = ShownPhrases(e, now)
                             /\ f.tex.look = f.look /\ f.tex.ink = f.ink
  PROVE  Sound(f, now)
<1>1. /\ ActivePhrases(f, now) = ActivePhrases(e, now)
      /\ ShownPhrases(f, now) = ShownPhrases(e, now)
  BY PhrasesGrow DEF Same
<1>2. /\ f.part.delays \in Seq(Nat)
      /\ \A k \in DOMAIN f.part.delays : \A j \in 1..k : j \in DOMAIN f.part.delays
  BY DEF Entry, Part
<1>3. Prefix(f) \subseteq ShownPhrases(f, now)
  BY <1>1, <1>2 DEF Prefix, ActivePhrases, ShownPhrases
<1> QED
  BY <1>1, <1>3 DEF Sound

\* ReloadFontPreserveQueue leaves a sound entry sound, and without a shaper
\* leaves no texture.
LEMMA ReloadSound ==
  ASSUME NEW e \in Entry, NEW ready \in BOOLEAN, NEW ok \in BOOLEAN,
         NEW look \in Looks, now \in Nat, Sound(e, now)
  PROVE  LET f == Reload(e, ready, ok, look)
         IN  Sound(f, now) /\ (~ready => f.tex = NoTexture)
<1> DEFINE released == [e EXCEPT !.tex = NoTexture]
           drawn == RenderEntryTexture(released, ready, ok, look)
           f == Reload(e, ready, ok, look)
<1>1. /\ released \in Entry /\ Same(e, released)
      /\ released.sig = e.sig /\ released.tex = NoTexture
  BY DEF Entry, Same
<1>2. f = IF e.expired THEN released
          ELSE [drawn EXCEPT !.look = look, !.rebuilt = now]
  BY DEF Reload
<1>3. f \in Entry /\ Same(e, f)
  BY ReloadKeeps
<1> HIDE DEF released
<1>4. /\ drawn \in Entry /\ drawn.sig = e.sig
      /\ ~ready => drawn.tex = NoTexture
      /\ drawn.tex # NoTexture => /\ drawn.tex.phrases = ShownPhrases(released, now)
                                 /\ drawn.tex.look = look /\ drawn.tex.ink = drawn.ink
  BY <1>1, RenderKeeps, RenderFresh
<1>5. ShownPhrases(released, now) = ShownPhrases(e, now)
  BY <1>1, PhrasesGrow DEF Same
<1> HIDE DEF drawn, f
<1>6. CASE e.expired
  <2>1. f.tex = NoTexture /\ f.sig = e.sig /\ e.sig \subseteq ActivePhrases(e, now)
    BY <1>1, <1>2, <1>6 DEF Sound
  <2>2. Sound(f, now)
    BY <1>3, <2>1, RenderedSound
  <2> QED
    BY <2>1, <2>2 DEF f
<1>7. CASE ~e.expired
  <2>1. /\ f.sig = e.sig /\ f.look = look /\ f.tex = drawn.tex /\ f.ink = drawn.ink
    BY <1>2, <1>4, <1>7 DEF Entry
  <2>2. e.sig \subseteq ActivePhrases(e, now)
    BY DEF Sound
  <2>3. Sound(f, now)
    BY <1>3, <1>4, <1>5, <2>1, <2>2, RenderedSound
  <2> QED
    BY <1>4, <2>1, <2>3 DEF f
<1> QED
  BY <1>6, <1>7

\* The timer loop of UpdateQueue leaves an entry sound, and fresh if it is live.
LEMMA RefreshSound ==
  ASSUME NEW e \in Entry, NEW ready \in BOOLEAN, NEW ok \in BOOLEAN,
         now \in Nat, cfg \in Looks, Sound(e, now), ~ready => e.tex = NoTexture
  PROVE  LET f == Refresh(e, ready, ok)
         IN  Sound(f, now) /\ Fresh(f, cfg, now) /\ (~ready => f.tex = NoTexture)
<1> DEFINE inked == [e EXCEPT !.ink = IF Changed(e, "colour") THEN cfg["colour"] ELSE @,
                              !.sig = ActivePhrases(e, now)]
           drawn == RenderEntryTexture(inked, ready, ok, cfg)
           f == Refresh(e, ready, ok)
<1>1. /\ inked \in Entry /\ Same(e, inked)
      /\ inked.sig = ActivePhrases(e, now) /\ inked.tex = e.tex
  BY PhrasesType, CaptionColour DEF Entry, Same
<1>2. Rebuild(e, ready, ok) = [drawn EXCEPT !.look = cfg, !.rebuilt = now]
  BY DEF Rebuild
<1>3. f \in Entry /\ Same(e, f)
  BY RefreshKeeps
<1>4. /\ ActivePhrases(f, now) = ActivePhrases(e, now)
      /\ ShownPhrases(f, now) = ShownPhrases(e, now)
  BY <1>3, PhrasesGrow DEF Same
<1> HIDE DEF inked
<1>5. /\ drawn \in Entry /\ drawn.sig = ActivePhrases(e, now)
      /\ ~ready => drawn.tex = NoTexture
      /\ drawn.tex # NoTexture => /\ drawn.tex.phrases = ShownPhrases(inked, now)
                                 /\ drawn.tex.look = cfg /\ drawn.tex.ink = drawn.ink
  BY <1>1, RenderKeeps, RenderFresh
<1>6. ShownPhrases(inked, now) = ShownPhrases(e, now)
  BY <1>1, PhrasesGrow DEF Same
<1> HIDE DEF drawn, f
<1>7. CASE e.expired
  BY <1>7 DEF f, Refresh, Fresh
<1>8. CASE ~e.expired /\ now - e.start >= e.duration
  <2>1. f = [e EXCEPT !.expired = TRUE]
    BY <1>8 DEF f, Refresh
  <2>2. /\ f.expired /\ f.sig = e.sig /\ f.tex = e.tex /\ f.look = e.look
        /\ f.part = e.part /\ f.ink = e.ink
    BY <2>1 DEF Entry
  <2> QED
    BY <1>4, <2>2 DEF Sound, Fresh, Prefix, f
<1>9. CASE /\ ~e.expired /\ ~(now - e.start >= e.duration)
           /\ NeedsRebuild(e) /\ ~Throttled(e)
  <2>1. f = [drawn EXCEPT !.look = cfg, !.rebuilt = now]
    BY <1>2, <1>9 DEF f, Refresh
  <2>2. /\ f.sig = ActivePhrases(e, now) /\ f.look = cfg
        /\ f.tex = drawn.tex /\ f.ink = drawn.ink
    BY <1>5, <2>1 DEF Entry
  <2>3. Sound(f, now)
    BY <1>3, <1>5, <1>6, <2>2, RenderedSound
  <2> QED
    BY <1>4, <1>5, <1>6, <2>2, <2>3 DEF Fresh, f
<1>10. CASE /\ ~e.expired /\ ~(now - e.start >= e.duration)
            /\ ~(NeedsRebuild(e) /\ ~Throttled(e))
  <2>1. f = e
    BY <1>10 DEF f, Refresh
  <2>2. /\ e.sig = ActivePhrases(e, now)
        /\ \A s \in {"font", "layout", "colour"} : e.look[s] = cfg[s]
        /\ e.look["spacing"] = cfg["spacing"] \/ now - e.rebuilt < Throttle
    <3>1. "font" \in Settings /\ "layout" \in Settings /\ "colour" \in Settings
      OBVIOUS
    <3>2. /\ e.sig = ActivePhrases(e, now)
          /\ ~Changed(e, "font") /\ ~Changed(e, "layout") /\ ~Changed(e, "colour")
      BY <1>10, <3>1 DEF NeedsRebuild, Throttled
    <3>3. ~Changed(e, "spacing") \/ now - e.rebuilt < Throttle
      BY <1>10 DEF NeedsRebuild, Throttled
    <3> QED
      BY <3>2, <3>3 DEF Changed
  <2>3. Fresh(e, cfg, now)
    BY <2>2, SoundExact DEF Fresh, Sound
  <2> QED
    BY <2>1, <2>3 DEF f
<1> QED
  BY <1>7, <1>8, <1>9, <1>10 DEF f

\* All the loops of UpdateQueue: the fades leave texture and snapshot of a live
\* entry alone, and release the texture of one that has faded out.
LEMMA UpdatedSound ==
  ASSUME NEW e \in Entry, NEW ready \in BOOLEAN, NEW ok \in BOOLEAN,
         NEW dt \in Nat, now \in Nat, cfg \in Looks, ~FontStale,
         Sound(e, now), ~ready => e.tex = NoTexture
  PROVE  LET f == Updated(e, ready, ok, dt)
         IN  Sound(f, now) /\ Fresh(f, cfg, now) /\ (~ready => f.tex = NoTexture)
<1> DEFINE b == Refresh(e, ready, ok)
           c == FadeOut(b, dt)
           f == FadeIn(c, dt)
<1>1. f = Updated(e, ready, ok, dt)
  BY DEF Updated
<1>2. /\ b \in Entry
      /\ Sound(b, now) /\ Fresh(b, cfg, now) /\ (~ready => b.tex = NoTexture)
  BY RefreshSound, RefreshKeeps
<1> HIDE DEF b
<1>3. /\ c \in Entry /\ c.sig = b.sig /\ c.look = b.look /\ c.part = b.part
      /\ c.start = b.start /\ c.expired = b.expired /\ c.rebuilt = b.rebuilt
      /\ c.ink = b.ink
      /\ c.tex = b.tex \/ c.tex = NoTexture
  <2>1. c \in Entry
    BY <1>2, FadeOutKeeps
  <2> QED
    BY <1>2, <2>1 DEF FadeOut, Entry
<1> HIDE DEF c
<1>4. /\ f.sig = c.sig /\ f.look = c.look /\ f.part = c.part /\ f.start = c.start
      /\ f.expired = c.expired /\ f.rebuilt = c.rebuilt /\ f.tex = c.tex
      /\ f.ink = c.ink
  BY <1>3 DEF FadeIn, Entry
<1> HIDE DEF f
<1>5. f.part = b.part /\ f.start = b.start
  BY <1>3, <1>4
<1>6. /\ ActivePhrases(f, now) = ActivePhrases(b, now)
      /\ ShownPhrases(f, now) = ShownPhrases(b, now)
  BY <1>2, <1>5, PhrasesGrow
<1> QED
  BY <1>1, <1>2, <1>3, <1>4, <1>6 DEF Sound, Fresh, Prefix

\* The entry that SetCaptionText builds is sound.
LEMMA NewEntrySound ==
  ASSUME NEW part \in Part, NEW start \in Nat, NEW duration \in Nat,
         NEW origin \in {"game", "preview"}, NEW ok \in BOOLEAN, TypeOK
  PROVE  LET f == NewEntry(part, start, duration, origin, ok)
         IN  Sound(f, now) /\ (~shaper => f.tex = NoTexture)
<1> DEFINE bare == [part |-> part, start |-> start, duration |-> duration + Extra,
                    opacity |-> 0, expired |-> FALSE, isPreview |-> FALSE,
                    origin |-> origin, early |-> ~imgui \/ ~shaper, sig |-> {},
                    look |-> cfg,
                    ink |-> IF part.tagged THEN TagInk ELSE cfg["colour"],
                    rebuilt |-> 0, tex |-> NoTexture]
           signed == [bare EXCEPT !.sig = ActivePhrases(bare, now)]
           drawn == RenderEntryTexture(signed, shaper, ok, cfg)
           f == NewEntry(part, start, duration, origin, ok)
<1>1. f = IF imgui /\ ShownPhrases(bare, now) # {}
          THEN [drawn EXCEPT !.rebuilt = now] ELSE signed
  BY DEF NewEntry
<1>2. bare \in Entry /\ bare.tex = NoTexture /\ bare.look = cfg
  <2>1. /\ cfg["colour"] \in Inks /\ TagInk \in Inks /\ cfg \in Looks
        /\ 0 \in 0..Opaque /\ duration + Extra \in Nat
        /\ imgui \in BOOLEAN /\ shaper \in BOOLEAN
    BY CaptionColour, FadeAssumption, TimeAssumption DEF TypeOK, Inks
  <2> QED
    BY <2>1 DEF Entry
<1> HIDE DEF bare
<1>3. /\ signed \in Entry /\ Same(bare, signed) /\ signed.tex = NoTexture
      /\ signed.look = cfg /\ signed.sig = ActivePhrases(bare, now)
  BY <1>2, PhrasesType DEF Entry, Same
<1> HIDE DEF signed
<1>4. /\ drawn \in Entry /\ Same(signed, drawn) /\ drawn.sig = signed.sig
      /\ drawn.look = cfg
      /\ ~shaper => drawn.tex = NoTexture
      /\ drawn.tex # NoTexture => /\ drawn.tex.phrases = ShownPhrases(signed, now)
                                 /\ drawn.tex.look = cfg /\ drawn.tex.ink = drawn.ink
  BY <1>3, RenderKeeps, RenderFresh DEF TypeOK
<1> HIDE DEF drawn, f
<1>5. /\ f \in Entry /\ Same(signed, f) /\ f.sig = ActivePhrases(bare, now)
      /\ f.look = cfg
      /\ \/ f.tex = drawn.tex /\ f.ink = drawn.ink
         \/ f.tex = NoTexture
  BY <1>1, <1>3, <1>4 DEF Entry, Same, TypeOK
<1>6. ActivePhrases(bare, now) = ActivePhrases(signed, now)
  BY <1>2, <1>3, PhrasesGrow DEF Same, TypeOK
<1>7. Sound(f, now)
  BY <1>3, <1>4, <1>5, <1>6, RenderedSound DEF TypeOK
<1> QED
  BY <1>4, <1>5, <1>7 DEF f

-----------------------------------------------------------------------------
(* What is drawn is what is due. *)

\* Without a shaper there are no textures; before ImGui starts the render thread
\* rests; what is visible between UpdateQueue and RenderDrawData is fresh.
DrawnInv ==
  /\ ~imgui => rpc = "idle"
  /\ ~imgui \/ rpc \in {"shaping", "fonts"} => ~shaper
  /\ \A i \in DOMAIN queue :
       Sound(queue[i], now) /\ (~shaper => queue[i].tex = NoTexture)
  /\ rpc \in {"updated", "drawn"} =>
       \A i \in DOMAIN queue : queue[i].opacity > 0 => Fresh(queue[i], cfg, lastFrame)
  /\ rpc = "drawn" =>
       \A i \in DOMAIN drawList :
         drawList[i] # NoTexture /\ (i \in DOMAIN queue => queue[i].opacity > 0)

\* No font is stale when UpdateQueue runs, so it keeps the shaper and updates each
\* entry that stays with it.
LEMMA UpdateEach ==
  ASSUME Inv, UpdateQueue
  PROVE  /\ ~FontStale
         /\ \E ok \in [DOMAIN queue -> BuildOutcomes] :
              /\ shaper' = shaper
              /\ DOMAIN queue' \subseteq DOMAIN queue
              /\ \A i \in DOMAIN queue' :
                   queue'[i] = Updated(queue[i], shaper, ok[i], now - lastFrame)
<1>1. ~FontStale
  BY DEF Inv, FontSnapshotCurrent, FontStale, Changed
<1>2. PICK ok \in [DOMAIN queue -> BuildOutcomes] :
        LET faded == [i \in DOMAIN queue |->
                        Updated(queue[i], shaper, ok[i], now - lastFrame)]
            done == {i \in DOMAIN queue : Finished(faded[i])}
        IN  /\ queue' = [i \in DOMAIN queue \ done |-> faded[i]]
            /\ shaper' = shaper
  BY <1>1 DEF UpdateQueue
<1>3. /\ shaper' = shaper
      /\ DOMAIN queue' \subseteq DOMAIN queue
      /\ \A i \in DOMAIN queue' :
           queue'[i] = Updated(queue[i], shaper, ok[i], now - lastFrame)
  BY <1>2
<1> QED
  BY <1>1, <1>3

\* UpdateQueue establishes it for the entries that stay.
LEMMA UpdateDrawn ==
  ASSUME Inv, DrawnInv, UpdateQueue
  PROVE  DrawnInv'
<1>1. /\ now \in Nat /\ cfg \in Looks /\ now - lastFrame \in Nat
      /\ \A i \in DOMAIN queue : queue[i] \in Entry
      /\ shaper \in BOOLEAN
  BY DEF Inv, TypeOK, ClockForward
<1>2. ~FontStale
  BY UpdateEach
<1>3. PICK ok \in [DOMAIN queue -> BuildOutcomes] :
        /\ shaper' = shaper
        /\ DOMAIN queue' \subseteq DOMAIN queue
        /\ \A i \in DOMAIN queue' :
             queue'[i] = Updated(queue[i], shaper, ok[i], now - lastFrame)
  BY UpdateEach
<1>4. UNCHANGED <<now, cfg, imgui>> /\ imgui /\ lastFrame' = now /\ rpc' = "updated"
  BY DEF UpdateQueue
<1>5. ASSUME NEW i \in DOMAIN queue'
      PROVE  /\ Sound(queue'[i], now) /\ Fresh(queue'[i], cfg, now)
             /\ ~shaper => queue'[i].tex = NoTexture
  <2>1. ok[i] \in BOOLEAN /\ queue[i] \in Entry
    BY <1>1, <1>3, OutcomesAssumption
  <2>2. Sound(queue[i], now) /\ (~shaper => queue[i].tex = NoTexture)
    BY <1>3 DEF DrawnInv
  <2> QED
    BY <1>1, <1>2, <1>3, <2>1, <2>2, UpdatedSound
<1> QED
  BY <1>3, <1>4, <1>5 DEF DrawnInv

\* SetCaptionText adds sound entries, and invisible ones.
LEMMA PushDrawn ==
  ASSUME Inv, DrawnInv, NEW text \in Texts \cup PreviewTexts,
         NEW origin \in {"game", "preview"}, SetCaptionText(text, origin),
         UNCHANGED <<now, lastFrame, cfg, imgui, shaper, drawList>>,
         rpc' = rpc \/ (rpc = "pushing" /\ rpc' = "marking")
  PROVE  DrawnInv'
<1> DEFINE added == pushed + 1 .. pushed + Len(text.parts)
<1>1. PICK offset \in Offsets(text), ok \in [added -> BuildOutcomes] :
        queue' = [i \in DOMAIN queue \cup added |->
                    IF i \in DOMAIN queue THEN queue[i]
                    ELSE NewEntry(text.parts[i - pushed],
                                  now + offset[i - pushed],
                                  PartDuration(text, i - pushed),
                                  origin, ok[i])]
  BY DEF SetCaptionText
<1>2. /\ text.parts \in Seq(Part) /\ Len(text.parts) \in Nat
      /\ pushed \in Nat /\ now \in Nat /\ TypeOK
  BY TextsAssumption DEF Text, Inv, TypeOK
<1>3. \A i \in DOMAIN queue : i \in DOMAIN queue' /\ queue'[i] = queue[i]
  BY <1>1
<1>4. ASSUME NEW i \in DOMAIN queue' \ DOMAIN queue
      PROVE  /\ Sound(queue'[i], now) /\ (~shaper => queue'[i].tex = NoTexture)
             /\ ~(queue'[i].opacity > 0)
  <2>1. PICK part \in Part, start \in Nat, duration \in Nat, built \in BOOLEAN :
          queue'[i] = NewEntry(part, start, duration, origin, built)
    <3>1. i \in added /\ i - pushed \in 1..Len(text.parts)
      BY <1>1, <1>2
    <3>2. text.parts[i - pushed] \in Part
      BY <1>2, <3>1
    <3>3. now + offset[i - pushed] \in Nat
      BY <1>2, <3>1 DEF Offsets
    <3>4. PartDuration(text, i - pushed) \in Nat
      BY <1>2, <3>1, PartDurationAssumption
    <3>5. ok[i] \in BOOLEAN
      BY <3>1, OutcomesAssumption
    <3>6. queue'[i] = NewEntry(text.parts[i - pushed], now + offset[i - pushed],
                               PartDuration(text, i - pushed), origin, ok[i])
      BY <1>1, <3>1
    <3> QED
      BY <3>2, <3>3, <3>4, <3>5, <3>6
  <2>2. Sound(queue'[i], now) /\ (~shaper => queue'[i].tex = NoTexture)
    BY <1>2, <2>1, NewEntrySound
  <2>3. queue'[i].opacity = 0
    BY <1>2, <2>1, NewEntryKeeps
  <2> QED
    BY <2>2, <2>3
<1>5. \A i \in DOMAIN queue' :
        Sound(queue'[i], now) /\ (~shaper => queue'[i].tex = NoTexture)
  BY <1>3, <1>4 DEF DrawnInv
<1>6. \A i \in DOMAIN queue' : queue'[i].opacity > 0 =>
        i \in DOMAIN queue /\ queue'[i] = queue[i]
  BY <1>3, <1>4
<1>7. rpc' \in {"updated", "drawn"} =>
        \A i \in DOMAIN queue' :
          queue'[i].opacity > 0 => Fresh(queue'[i], cfg, lastFrame)
  BY <1>6 DEF DrawnInv
<1>8. rpc' = "drawn" =>
        /\ \A i \in DOMAIN drawList : i \in DOMAIN queue /\ queue'[i] = queue[i]
        /\ \A i \in DOMAIN drawList : queue[i].opacity > 0 /\ drawList[i] # NoTexture
  BY <1>3 DEF Inv, DrawnTexturesAlive, DrawnInv
<1> QED
  BY <1>5, <1>7, <1>8 DEF DrawnInv

\* Every step preserves it.
LEMMA DrawnStep == Inv /\ DrawnInv /\ [Next]_vars => DrawnInv'
<1> SUFFICES ASSUME Inv, DrawnInv, [Next]_vars PROVE DrawnInv'
  OBVIOUS
<1>0. /\ now \in Nat /\ shaper \in BOOLEAN /\ imgui \in BOOLEAN
      /\ \A i \in DOMAIN queue : queue[i] \in Entry
  BY DEF Inv, TypeOK
<1>1. CASE UNCHANGED vars
  BY <1>1 DEF vars, DrawnInv
<1>2. CASE Tick
  <2>1. now' = now + 1 /\ UNCHANGED <<lastFrame, cfg, queue, imgui, shaper, rpc, drawList>>
    BY <1>2 DEF Tick
  <2>2. \A i \in DOMAIN queue : Sound(queue[i], now + 1)
    BY <1>0, SoundLater DEF DrawnInv
  <2> QED
    BY <2>1, <2>2 DEF DrawnInv
<1>3. CASE InitImGui
  BY <1>0, <1>3 DEF InitImGui, DrawnInv
<1>4. CASE NewShaper
  BY <1>0, <1>4 DEF NewShaper, DrawnInv
<1>5. CASE InitShaper
  <2>1. /\ rpc = "fonts" /\ rpc' = "ready" /\ shaper' \in BOOLEAN
        /\ UNCHANGED <<now, lastFrame, cfg, queue, imgui, drawList>>
    BY <1>5, OutcomesAssumption DEF InitShaper
  <2> QED
    BY <2>1 DEF DrawnInv
<1>6. CASE UpdateQueue
  BY <1>6, UpdateDrawn
<1>7. CASE DrawCaptions
  <2>1. /\ rpc = "updated" /\ rpc' = "drawn"
        /\ UNCHANGED <<now, lastFrame, cfg, queue, imgui, shaper>>
        /\ \A i \in DOMAIN drawList' :
             queue[i].opacity > 0 /\ drawList'[i] # NoTexture
    BY <1>7 DEF DrawCaptions, Drawable
  <2> QED
    BY <2>1 DEF DrawnInv
<1>8. CASE SubmitDrawData \/ SkipUI \/ ShowPreviewSize
  BY <1>8 DEF SubmitDrawData, SkipUI, ShowPreviewSize, DrawnInv
<1>9. CASE Save \/ Reset
  <2>1. /\ rpc = "ui" /\ rpc' = "preview" /\ DOMAIN queue' = {} /\ imgui' = imgui
    BY <1>9 DEF Save, Reset, SaveOrReset
  <2> QED
    BY <2>1 DEF DrawnInv
<1>10. CASE ClearPreview \/ ShowPreviewClear
  BY <1>10 DEF ClearPreview, ShowPreviewClear, WithoutPreviews, DrawnInv
<1>11. CASE ShowPreviewMark
  <2>1. /\ rpc = "marking" /\ rpc' = "clearing" /\ UNCHANGED <<now, imgui, shaper>>
        /\ DOMAIN queue' = DOMAIN queue
        /\ \A i \in DOMAIN queue :
             queue'[i] \in {queue[i], [queue[i] EXCEPT !.isPreview = TRUE]}
    BY <1>11 DEF ShowPreviewMark
  <2>2. \A i \in DOMAIN queue : /\ queue'[i].sig = queue[i].sig
                                /\ queue'[i].tex = queue[i].tex
                                /\ queue'[i].look = queue[i].look
                                /\ queue'[i].ink = queue[i].ink
                                /\ queue'[i].part = queue[i].part
                                /\ queue'[i].start = queue[i].start
    BY <1>0, <2>1 DEF Entry
  <2>3. ASSUME NEW i \in DOMAIN queue
        PROVE  Sound(queue'[i], now)
    <3>1. /\ ActivePhrases(queue'[i], now) = ActivePhrases(queue[i], now)
          /\ ShownPhrases(queue'[i], now) = ShownPhrases(queue[i], now)
      BY <1>0, <2>2, PhrasesGrow
    <3> QED
      BY <2>2, <3>1 DEF DrawnInv, Sound, Prefix
  <2> QED
    BY <2>1, <2>2, <2>3 DEF DrawnInv
<1>12. CASE \E text \in PreviewTexts : ShowPreviewPush(text)
  BY <1>12, PushDrawn DEF ShowPreviewPush
<1>13. CASE \E text \in Texts : GameCaption(text)
  BY <1>13, PushDrawn DEF GameCaption
<1>14. CASE \E look \in Looks : PollConfig(look)
  <2>1. PICK look \in Looks : PollConfig(look)
    BY <1>14
  <2>2. rpc = "poll" /\ rpc' = "idle" /\ UNCHANGED <<now, imgui>>
    BY <2>1 DEF PollConfig
  <2>3. imgui
    BY <2>2 DEF DrawnInv
  <2>4. CASE UNCHANGED <<queue, shaper>>
    BY <2>2, <2>3, <2>4 DEF DrawnInv
  <2>5. CASE look["font"] # cfg["font"]
    <3>1. PICK ready \in FontOutcomes, ok \in [DOMAIN queue -> BuildOutcomes] :
            /\ shaper' = ready
            /\ queue' = [i \in DOMAIN queue |-> Reload(queue[i], ready, ok[i], look)]
      BY <2>1, <2>5 DEF PollConfig
    <3>2. ready \in BOOLEAN /\ \A i \in DOMAIN queue : ok[i] \in BOOLEAN
      BY OutcomesAssumption
    <3>3. \A i \in DOMAIN queue :
            /\ Sound(queue'[i], now)
            /\ ~shaper' => queue'[i].tex = NoTexture
      BY <1>0, <3>1, <3>2, ReloadSound DEF DrawnInv
    <3> QED
      BY <2>2, <2>3, <3>1, <3>3 DEF DrawnInv
  <2> QED
    BY <2>1, <2>4, <2>5 DEF PollConfig
<1> QED
  BY <1>1, <1>2, <1>3, <1>4, <1>5, <1>6, <1>7, <1>8, <1>9, <1>10, <1>11, <1>12,
     <1>13, <1>14 DEF Next, Present
-----------------------------------------------------------------------------
(* The colour of the runs. *)

\* The loops of UpdateQueue keep the colour of an entry's runs and the colour of
\* its snapshot together.
LEMMA UpdatedInk ==
  ASSUME NEW e \in Entry, NEW ready \in BOOLEAN, NEW ok \in BOOLEAN,
         NEW dt \in Nat, now \in Nat, cfg \in Looks, ~FontStale,
         e.ink = e.look["colour"]
  PROVE  LET f == Updated(e, ready, ok, dt)
         IN  f.ink = f.look["colour"]
<1> DEFINE inked == [e EXCEPT !.ink = IF Changed(e, "colour") THEN cfg["colour"] ELSE @,
                              !.sig = ActivePhrases(e, now)]
           drawn == RenderEntryTexture(inked, ready, ok, cfg)
           b == Refresh(e, ready, ok)
           c == FadeOut(b, dt)
<1>1. Updated(e, ready, ok, dt) = FadeIn(c, dt)
  BY DEF Updated
<1>2. inked \in Entry /\ inked.ink = cfg["colour"]
  BY PhrasesType, CaptionColour DEF Entry, Changed
<1>3. Rebuild(e, ready, ok) = [drawn EXCEPT !.look = cfg, !.rebuilt = now]
  BY DEF Rebuild
<1> HIDE DEF inked
<1>4. drawn \in Entry /\ drawn.ink = cfg["colour"]
  BY <1>2, RenderKeeps
<1> HIDE DEF drawn
<1>5. Rebuild(e, ready, ok).ink = Rebuild(e, ready, ok).look["colour"]
  BY <1>3, <1>4 DEF Entry
<1>6. b \in Entry /\ b.ink = b.look["colour"]
  <2>1. b \in Entry
    BY RefreshKeeps
  <2>2. [e EXCEPT !.expired = TRUE].ink = [e EXCEPT !.expired = TRUE].look["colour"]
    BY DEF Entry
  <2> QED
    BY <1>5, <2>1, <2>2 DEF Refresh
<1> HIDE DEF b
<1>7. c \in Entry /\ c.ink = b.ink /\ c.look = b.look
  BY <1>6, FadeOutKeeps
<1> HIDE DEF c
<1>8. FadeIn(c, dt).ink = c.ink /\ FadeIn(c, dt).look = c.look
  BY <1>7, FadeInKeeps
<1> QED
  BY <1>1, <1>6, <1>7, <1>8, Zenon

\* The runs of a caption follow the text colour together with its snapshot, but
\* for a live poll that reloads the fonts.
THEOREM InkFollowsSnapshot == Spec => InkInStep
<1>1. Inv /\ [Next]_vars =>
        [\A i \in DOMAIN queue \cap DOMAIN queue' :
           ~queue[i].part.tagged /\ queue[i].ink = queue[i].look["colour"] =>
             \/ queue'[i].ink = queue'[i].look["colour"]
             \/ cfg'["font"] # cfg["font"]]_vars
  <2> SUFFICES ASSUME Inv, Next, NEW i \in DOMAIN queue, i \in DOMAIN queue',
                      queue[i].ink = queue[i].look["colour"]
               PROVE  \/ queue'[i].ink = queue'[i].look["colour"]
                      \/ cfg'["font"] # cfg["font"]
    OBVIOUS
  <2>0. TypeOK /\ queue[i] \in Entry
    BY DEF Inv, TypeOK
  <2>1. CASE UpdateQueue
    <3>1. /\ now \in Nat /\ cfg \in Looks /\ now - lastFrame \in Nat /\ lastFrame <= now
          /\ ~FontStale
      BY DEF Inv, TypeOK, ClockForward, FontSnapshotCurrent, FontStale, Changed
    <3>2. PICK ready \in BOOLEAN, ok \in BOOLEAN :
            queue'[i] = Updated(queue[i], ready, ok, now - lastFrame)
      BY <2>0, <2>1, <3>1, UpdateKeeps
    <3> QED
      BY <2>0, <3>1, <3>2, UpdatedInk
  <2>2. CASE Tick \/ InitImGui \/ NewShaper \/ InitShaper \/ DrawCaptions
             \/ SubmitDrawData \/ SkipUI \/ ShowPreviewSize
    BY <2>2 DEF Tick, InitImGui, NewShaper, InitShaper, DrawCaptions,
       SubmitDrawData, SkipUI, ShowPreviewSize
  <2>3. CASE Save \/ Reset
    BY <2>3 DEF Save, Reset, SaveOrReset
  <2>4. CASE ClearPreview \/ ShowPreviewClear
    BY <2>4 DEF ClearPreview, ShowPreviewClear, WithoutPreviews
  <2>5. CASE ShowPreviewMark
    <3>1. queue'[i] \in {queue[i], [queue[i] EXCEPT !.isPreview = TRUE]}
      BY <2>5 DEF ShowPreviewMark
    <3> QED
      BY <2>0, <3>1 DEF Entry
  <2>6. CASE \E text \in PreviewTexts : ShowPreviewPush(text)
    BY <2>0, <2>6, PushKeeps DEF ShowPreviewPush
  <2>7. CASE \E text \in Texts : GameCaption(text)
    BY <2>0, <2>7, PushKeeps DEF GameCaption
  <2>8. CASE \E look \in Looks : PollConfig(look)
    BY <2>8 DEF PollConfig
  <2> QED
    BY <2>1, <2>2, <2>3, <2>4, <2>5, <2>6, <2>7, <2>8 DEF Next, Present
<1> QED
  BY <1>1, Invariance, PTL DEF Spec, InkInStep
-----------------------------------------------------------------------------
(* What is drawn is what is due, in the configured colour. *)

\* The runs of a live entry have the colour of its snapshot or that of their tag,
\* unless UpdateQueue is going to recolour them.
Inked(e) ==
  \/ e.expired
  \/ e.ink = e.look["colour"]
  \/ e.ink = TagInk /\ e.part.tagged
  \/ e.look["colour"] # cfg["colour"]

\* From UpdateQueue to the end of the frame no live snapshot has another colour
\* than the configured one.
InkInv ==
  /\ rpc \notin {"idle", "shaping", "fonts", "ready"} =>
       \A i \in DOMAIN queue :
         ~queue[i].expired => queue[i].look["colour"] = cfg["colour"]
  /\ \A i \in DOMAIN queue : i \in miscoloured \/ Inked(queue[i])

\* A step that leaves the settings alone and, of the entries it keeps, all that
\* the colour depends on.
LEMMA InkKept ==
  ASSUME InkInv, UNCHANGED <<cfg, miscoloured>>,
         DOMAIN queue' \subseteq DOMAIN queue,
         \A i \in DOMAIN queue' :
           /\ queue'[i].part = queue[i].part
           /\ queue'[i].expired = queue[i].expired
           /\ queue'[i].look = queue[i].look
           /\ queue'[i].ink = queue[i].ink,
         rpc \in {"idle", "shaping", "fonts", "ready"} =>
           rpc' \in {"idle", "shaping", "fonts", "ready"}
  PROVE  InkInv'
BY DEF InkInv, Inked

\* The entries SetCaptionText adds have the colour configured now or a tag's.
LEMMA InkPushed ==
  ASSUME TypeOK, InkInv, NEW text \in Texts \cup PreviewTexts,
         NEW origin \in {"game", "preview"}, SetCaptionText(text, origin),
         UNCHANGED <<cfg, miscoloured>>,
         rpc \in {"idle", "shaping", "fonts", "ready"} => rpc' = rpc
  PROVE  InkInv'
<1>1. /\ \A i \in DOMAIN queue : queue'[i] = queue[i]
      /\ \A i \in DOMAIN queue' \ DOMAIN queue :
           /\ queue'[i].look = cfg
           /\ queue'[i].ink = IF queue'[i].part.tagged THEN TagInk ELSE cfg["colour"]
  BY PushKeeps
<1>2. \A i \in DOMAIN queue' \ DOMAIN queue :
        queue'[i].look["colour"] = cfg["colour"] /\ Inked(queue[i])'
  BY <1>1 DEF Inked
<1> QED
  BY <1>1, <1>2 DEF InkInv, Inked

\* UpdateQueue recolours the live entries whose snapshot is out of date.
LEMMA InkUpdated ==
  ASSUME Inv, InkInv, UpdateQueue
  PROVE  InkInv'
<1>1. /\ now \in Nat /\ cfg \in Looks /\ now - lastFrame \in Nat /\ lastFrame <= now
      /\ TypeOK /\ ~FontStale
      /\ \A i \in DOMAIN queue : queue[i] \in Entry
  BY DEF Inv, TypeOK, ClockForward, FontSnapshotCurrent, FontStale, Changed
<1>2. UNCHANGED <<cfg, miscoloured>>
  BY DEF UpdateQueue
<1>3. PICK f :
        /\ \A i \in DOMAIN queue :
             \E ready \in BOOLEAN, ok \in BOOLEAN :
               f[i] = Updated(queue[i], ready, ok, now - lastFrame)
        /\ DOMAIN queue' \subseteq DOMAIN queue
        /\ \A i \in DOMAIN queue' : queue'[i] = f[i]
  BY <1>1, UpdateKeeps
<1>4. ASSUME NEW i \in DOMAIN queue'
      PROVE  /\ ~queue'[i].expired => queue'[i].look["colour"] = cfg["colour"]
             /\ i \in miscoloured \/ Inked(queue[i])'
  <2>1. PICK ready \in BOOLEAN, ok \in BOOLEAN :
          queue'[i] = Updated(queue[i], ready, ok, now - lastFrame)
    BY <1>3
  <2> DEFINE g == Updated(queue[i], ready, ok, now - lastFrame)
  <2>2. /\ Same(queue[i], g)
        /\ queue[i].expired => g.expired
        /\ ~g.expired => g.look["colour"] = cfg["colour"]
        /\ queue[i].look["colour"] = cfg["colour"] =>
             g.ink = queue[i].ink /\ g.look["colour"] = cfg["colour"]
        /\ ~g.expired /\ queue[i].look["colour"] # cfg["colour"] =>
             g.ink = cfg["colour"]
    <3>1. queue[i] \in Entry
      BY <1>1, <1>3
    <3> QED
      BY <1>1, <3>1, UpdatedKeeps
  <2>3. i \in miscoloured \/ Inked(queue[i])
    BY <1>3 DEF InkInv
  <2>4. queue'[i] = g
    BY <2>1
  <2> HIDE DEF g
  <2> QED
    BY <1>2, <2>2, <2>3, <2>4 DEF Inked, Same
<1> QED
  BY <1>2, <1>4 DEF InkInv

\* The live poll: a colour that changes alone leaves every live snapshot out of
\* date, and one that changes with a font path is remembered in miscoloured.
LEMMA InkPolled ==
  ASSUME TypeOK, InkInv, NEW look \in Looks, PollConfig(look)
  PROVE  InkInv'
<1>1. rpc = "poll" /\ rpc' = "idle" /\ cfg' = look /\ NoteColour(look)
  BY DEF PollConfig, RenderStep
<1>2. /\ DOMAIN queue' = DOMAIN queue
      /\ \A i \in DOMAIN queue :
           /\ Same(queue[i], queue'[i])
           /\ queue'[i].expired = queue[i].expired
           /\ queue'[i].ink = queue[i].ink
           /\ queue'[i].look \in {queue[i].look, look}
  BY PollKeeps
<1>3. \A i \in DOMAIN queue :
        ~queue[i].expired => queue[i].look["colour"] = cfg["colour"]
  BY <1>1 DEF InkInv
<1>4. CASE look["colour"] = cfg["colour"]
  <2>1. miscoloured' = miscoloured
    BY <1>1, <1>4 DEF NoteColour
  <2> QED
    BY <1>1, <1>2, <1>3, <1>4, <2>1 DEF InkInv, Inked, Same
<1>5. CASE look["colour"] # cfg["colour"] /\ look["font"] = cfg["font"]
  <2>1. queue' = queue
    BY <1>5 DEF PollConfig
  <2>2. \A i \in DOMAIN queue : Inked(queue[i])'
    BY <1>1, <1>3, <1>5, <2>1 DEF Inked
  <2> QED
    BY <1>1, <2>1, <2>2 DEF InkInv
<1>6. CASE look["colour"] # cfg["colour"] /\ look["font"] # cfg["font"]
  <2>1. miscoloured' = DOMAIN queue
    BY <1>1, <1>6 DEF NoteColour
  <2> QED
    BY <1>1, <1>2, <2>1 DEF InkInv
<1> QED
  BY <1>4, <1>5, <1>6

\* Every step preserves it.
LEMMA InkStep == Inv /\ InkInv /\ [Next]_vars => InkInv'
<1> SUFFICES ASSUME Inv, InkInv, [Next]_vars PROVE InkInv'
  OBVIOUS
<1>0. TypeOK /\ \A i \in DOMAIN queue : queue[i] \in Entry
  BY DEF Inv, TypeOK
<1>1. CASE UNCHANGED vars
  BY <1>1, InkKept DEF vars
<1>2. CASE Tick \/ InitImGui \/ NewShaper \/ InitShaper \/ DrawCaptions
           \/ SubmitDrawData \/ SkipUI \/ ShowPreviewSize
  <2>1. /\ UNCHANGED <<cfg, queue, miscoloured>>
        /\ rpc \in {"idle", "shaping", "fonts", "ready"} =>
             rpc' \in {"idle", "shaping", "fonts", "ready"}
    BY <1>2 DEF Tick, InitImGui, NewShaper, InitShaper, DrawCaptions,
       SubmitDrawData, SkipUI, ShowPreviewSize, RenderStep, history
  <2> QED
    BY <2>1, InkKept
<1>3. CASE UpdateQueue
  BY <1>3, InkUpdated
<1>4. CASE Save \/ Reset
  <2>1. DOMAIN queue' = {}
    BY <1>4 DEF Save, Reset, SaveOrReset
  <2> QED
    BY <2>1 DEF InkInv
<1>5. CASE ClearPreview \/ ShowPreviewClear
  <2>1. /\ queue' = WithoutPreviews
        /\ UNCHANGED <<cfg, miscoloured>>
        /\ rpc \in {"preview", "clearing"}
    BY <1>5 DEF ClearPreview, ShowPreviewClear, RenderStep, history
  <2>2. DOMAIN queue' \subseteq DOMAIN queue
        /\ \A i \in DOMAIN queue' : queue'[i] = queue[i]
    BY <2>1 DEF WithoutPreviews
  <2> QED
    BY <2>1, <2>2, InkKept
<1>6. CASE ShowPreviewMark
  <2>1. rpc = "marking" /\ UNCHANGED <<cfg, miscoloured>>
    BY <1>6 DEF ShowPreviewMark, RenderStep, history
  <2>2. /\ DOMAIN queue' = DOMAIN queue
        /\ \A i \in DOMAIN queue :
             /\ queue'[i].part = queue[i].part
             /\ queue'[i].expired = queue[i].expired
             /\ queue'[i].look = queue[i].look
             /\ queue'[i].ink = queue[i].ink
    BY <1>0, <1>6, MarkKeeps
  <2> QED
    BY <2>1, <2>2, InkKept
<1>7. CASE \E text \in PreviewTexts : ShowPreviewPush(text)
  <2>1. PICK text \in PreviewTexts : ShowPreviewPush(text)
    BY <1>7
  <2>2. /\ rpc = "pushing" /\ UNCHANGED <<cfg, miscoloured>>
        /\ SetCaptionText(text, "preview")
    BY <2>1 DEF ShowPreviewPush, RenderStep, history
  <2> QED
    BY <1>0, <2>2, InkPushed
<1>8. CASE \E text \in Texts : GameCaption(text)
  <2>1. PICK text \in Texts : GameCaption(text)
    BY <1>8
  <2>2. rpc' = rpc /\ UNCHANGED <<cfg, miscoloured>> /\ SetCaptionText(text, "game")
    BY <2>1 DEF GameCaption, history
  <2> QED
    BY <1>0, <2>2, InkPushed
<1>9. CASE \E look \in Looks : PollConfig(look)
  BY <1>0, <1>9, InkPolled
<1> QED
  BY <1>1, <1>2, <1>3, <1>4, <1>5, <1>6, <1>7, <1>8, <1>9 DEF Next, Present

\* A live caption is drawn with the phrases that are due, in the settings of now
\* and, unless a poll changed it together with a font path, in the text colour of
\* now or that of its tags: UpdateQueue rebuilds in time, and nothing that runs
\* between it and RenderDrawData makes a texture out of date.
THEOREM DrawnWhatIsDue == Spec => []DrawnIsCurrent
<1>1. Init => DrawnInv
  BY DEF Init, DrawnInv
<1>2. Init => InkInv
  BY DEF Init, InkInv
<1>3. Inv /\ DrawnInv /\ InkInv => DrawnIsCurrent
  <2> SUFFICES ASSUME Inv, DrawnInv, InkInv, rpc = "drawn",
                      NEW i \in DOMAIN drawList, Live(i)
               PROVE  LET tex == drawList[i] IN
                      /\ tex.phrases = ShownPhrases(queue[i], lastFrame)
                      /\ \A s \in {"font", "layout"} : tex.look[s] = cfg[s]
                      /\ \/ tex.look["spacing"] = cfg["spacing"]
                         \/ lastFrame - queue[i].rebuilt < Throttle
                      /\ \/ tex.ink = cfg["colour"]
                         \/ tex.ink = TagInk /\ queue[i].part.tagged
                         \/ i \in miscoloured
    BY DEF DrawnIsCurrent
  <2>1. i \in DOMAIN queue /\ queue[i].tex = drawList[i] /\ ~queue[i].expired
    BY DEF Inv, DrawnTexturesAlive, Live
  <2>2. Fresh(queue[i], cfg, lastFrame) /\ Sound(queue[i], now)
    BY <2>1 DEF DrawnInv
  <2>3. drawList[i] # NoTexture
    BY DEF DrawnInv
  <2>4. /\ queue[i].look["colour"] = cfg["colour"]
        /\ i \in miscoloured \/ Inked(queue[i])
    BY <2>1 DEF InkInv
  <2>5. drawList[i].ink = queue[i].ink
    BY <2>1, <2>2, <2>3 DEF Sound
  <2> QED
    BY <2>1, <2>2, <2>3, <2>4, <2>5 DEF Fresh, Inked
<1> QED
  BY <1>1, <1>2, <1>3, DrawnStep, InkStep, Invariance, PTL DEF Spec
-----------------------------------------------------------------------------
(* No caption is forgotten. *)

\* A live entry built with everything in place has a texture, if its signature
\* has a phrase to show.
Built(e) ==
  ~e.early /\ ~e.expired /\ e.part.chars > 0 /\ Prefix(e) # {} => e.tex # NoTexture

\* Before the fonts are loaded every entry is early; with them each is built.
BuiltInv ==
  /\ ~imgui => rpc = "idle"
  /\ ~imgui \/ rpc \in {"shaping", "fonts"} =>
       ~shaper /\ \A i \in DOMAIN queue : queue[i].early
  /\ shaper => \A i \in DOMAIN queue : Built(queue[i])
  /\ rpc = "updated" /\ shaper =>
       \A i \in DOMAIN queue : ~queue[i].early => ShownOnceActive(i)

\* With a shaper, RenderEntryTexture builds what has characters and a phrase due.
LEMMA RenderBuilds ==
  ASSUME NEW e \in Entry, NEW look \in Looks,
         NEW ready \in BOOLEAN, NEW ok \in BOOLEAN, ready, ok,
         e.part.chars > 0, ShownPhrases(e, now) # {}
  PROVE  RenderEntryTexture(e, ready, ok, look).tex # NoTexture
<1> DEFINE new == [phrases |-> ShownPhrases(e, now), look |-> look, ink |-> e.ink]
<1>1. new \in Texture
  BY PhrasesType DEF Texture, Entry
<1>2. new # NoTexture
  BY <1>1, NoTextureAssumption
<1>3. RenderEntryTexture(e, ready, ok, look) = [e EXCEPT !.tex = new]
  BY DEF RenderEntryTexture
<1> HIDE DEF new
<1> QED
  BY <1>2, <1>3 DEF Entry

\* The signature of an entry never promises a phrase that is not due.
LEMMA PrefixIsShown ==
  ASSUME NEW e \in Entry, NEW t, e.sig \subseteq ActivePhrases(e, t)
  PROVE  /\ Prefix(e) \subseteq ShownPhrases(e, t)
         /\ e.sig = ActivePhrases(e, t) => Prefix(e) = ShownPhrases(e, t)
<1>1. \A k \in DOMAIN e.part.delays : \A j \in 1..k : j \in DOMAIN e.part.delays
  BY DEF Entry, Part
<1> QED
  BY <1>1 DEF Prefix, ActivePhrases, ShownPhrases

\* ReloadFontPreserveQueue builds every live entry that has a phrase due, early
\* or not.
LEMMA ReloadBuilds ==
  ASSUME NEW e \in Entry, NEW look \in Looks,
         NEW ready \in BOOLEAN, NEW ok \in BOOLEAN, ready, ok, now \in Nat, Sound(e, now)
  PROVE  Built(Reload(e, ready, ok, look))
<1> DEFINE released == [e EXCEPT !.tex = NoTexture]
           drawn == RenderEntryTexture(released, ready, ok, look)
           f == Reload(e, ready, ok, look)
<1>1. /\ released \in Entry /\ Same(e, released)
      /\ released.sig = e.sig /\ released.tex = NoTexture
      /\ released.expired = e.expired
  BY DEF Entry, Same
<1>2. f = IF e.expired THEN released
          ELSE [drawn EXCEPT !.look = look, !.rebuilt = now]
  BY DEF Reload
<1>3. Sound(f, now) /\ f \in Entry /\ Same(e, f) /\ f.expired = e.expired
  <2>1. Sound(f, now)
    BY ReloadSound
  <2>2. f \in Entry /\ Same(e, f) /\ f.expired = e.expired
    BY ReloadKeeps
  <2> QED
    BY <2>1, <2>2
<1> HIDE DEF released, f
<1>4. /\ ShownPhrases(released, now) = ShownPhrases(e, now)
      /\ ShownPhrases(f, now) = ShownPhrases(e, now)
  BY <1>1, <1>3, PhrasesGrow DEF Same
<1>5. drawn \in Entry
  BY <1>1, RenderKeeps
<1>6. e.part.chars > 0 /\ ShownPhrases(e, now) # {} => drawn.tex # NoTexture
  BY <1>1, <1>4, RenderBuilds DEF Same
<1> HIDE DEF drawn
<1>7. ~e.expired => f.tex = drawn.tex
  BY <1>2, <1>5 DEF Entry
<1>8. Prefix(f) \subseteq ShownPhrases(f, now)
  BY <1>3, PrefixIsShown DEF Sound
<1> QED
  BY <1>3, <1>4, <1>6, <1>7, <1>8 DEF Built, Same, f

\* With a shaper UpdateQueue leaves no live entry without the texture that is due.
LEMMA UpdatedBuilds ==
  ASSUME NEW e \in Entry, NEW ready \in BOOLEAN, NEW ok \in BOOLEAN, ready, ok,
         NEW dt \in Nat, now \in Nat, cfg \in Looks, ~FontStale,
         Sound(e, now), Built(e)
  PROVE  LET f == Updated(e, ready, ok, dt)
         IN  /\ Built(f)
             /\ ~f.early /\ ~f.expired /\ f.part.chars > 0 /\ ShownPhrases(f, now) # {}
                => f.tex # NoTexture
<1> DEFINE inked == [e EXCEPT !.ink = IF Changed(e, "colour") THEN cfg["colour"] ELSE @,
                              !.sig = ActivePhrases(e, now)]
           drawn == RenderEntryTexture(inked, ready, ok, cfg)
           b == Refresh(e, ready, ok)
           c == FadeOut(b, dt)
           f == FadeIn(c, dt)
<1>1. f = Updated(e, ready, ok, dt)
  BY DEF Updated
<1>2. /\ inked \in Entry /\ Same(e, inked)
  BY PhrasesType, CaptionColour DEF Entry, Same
<1>3. Rebuild(e, ready, ok) = [drawn EXCEPT !.look = cfg, !.rebuilt = now]
  BY DEF Rebuild
<1> HIDE DEF inked
<1>4. drawn \in Entry
  BY <1>2, RenderKeeps
<1>5. ShownPhrases(inked, now) = ShownPhrases(e, now)
  BY <1>2, PhrasesGrow DEF Same
<1>6. e.part.chars > 0 /\ ShownPhrases(e, now) # {} => drawn.tex # NoTexture
  BY <1>2, <1>5, RenderBuilds DEF Same
<1> HIDE DEF drawn
<1>7. /\ b \in Entry /\ Same(e, b)
      /\ ShownPhrases(b, now) = ShownPhrases(e, now)
  <2>1. b \in Entry /\ Same(e, b)
    BY RefreshKeeps
  <2> HIDE DEF b
  <2> QED
    BY <2>1, PhrasesGrow DEF Same
<1>8. ~e.early /\ ~b.expired /\ e.part.chars > 0 /\ ShownPhrases(e, now) # {}
        => b.tex # NoTexture
  <2>1. CASE e.expired
    BY <2>1 DEF Refresh
  <2>2. CASE ~e.expired /\ now - e.start >= e.duration
    <3>1. [e EXCEPT !.expired = TRUE].expired
      BY DEF Entry
    <3> QED
      BY <2>2, <3>1 DEF Refresh
  <2>3. CASE /\ ~e.expired /\ ~(now - e.start >= e.duration)
             /\ NeedsRebuild(e) /\ ~Throttled(e)
    <3>1. b = [drawn EXCEPT !.look = cfg, !.rebuilt = now]
      BY <1>3, <2>3 DEF Refresh
    <3>2. b.tex = drawn.tex
      BY <1>4, <3>1 DEF Entry
    <3> QED
      BY <1>6, <3>2
  <2>4. CASE /\ ~e.expired /\ ~(now - e.start >= e.duration)
             /\ ~(NeedsRebuild(e) /\ ~Throttled(e))
    <3>1. b = e
      BY <2>4 DEF Refresh
    <3>2. e.sig = ActivePhrases(e, now)
      BY <2>4 DEF NeedsRebuild, Throttled
    <3>3. Prefix(e) = ShownPhrases(e, now)
      BY <3>2, PrefixIsShown
    <3> QED
      BY <2>4, <3>1, <3>3 DEF Built
  <2> QED
    BY <2>1, <2>2, <2>3, <2>4
<1> HIDE DEF b
<1>9. c \in Entry /\ Same(b, c) /\ c.expired = b.expired /\ (~b.expired => c = b)
  BY <1>7, FadeOutKeeps
<1> HIDE DEF c
<1>10. f \in Entry /\ Same(c, f) /\ f.expired = c.expired /\ f.tex = c.tex
  BY <1>9, FadeInKeeps
<1> HIDE DEF f
<1>11. /\ f.early = e.early /\ f.part = e.part
       /\ ShownPhrases(f, now) = ShownPhrases(e, now)
  BY <1>7, <1>9, <1>10, PhrasesGrow DEF Same
<1>12. ~f.early /\ ~f.expired /\ f.part.chars > 0 /\ ShownPhrases(f, now) # {}
         => f.tex # NoTexture
  BY <1>8, <1>9, <1>10, <1>11
<1>13. Prefix(f) \subseteq ShownPhrases(f, now)
  <2>1. Sound(f, now)
    BY <1>1, UpdatedSound
  <2> QED
    BY <1>10, <2>1, PrefixIsShown DEF Sound
<1> QED
  BY <1>1, <1>12, <1>13 DEF Built

\* The entry that SetCaptionText builds for a part, when everything is in place.
LEMMA NewEntryBuilds ==
  ASSUME NEW part \in Part, NEW start \in Nat, NEW duration \in Nat,
         NEW origin \in {"game", "preview"}, NEW ok \in BOOLEAN, ok, TypeOK
  PROVE  LET f == NewEntry(part, start, duration, origin, ok)
         IN  /\ Built(f) /\ (~imgui \/ ~shaper => f.early)
             /\ ~f.early /\ f.part.chars > 0 /\ ShownPhrases(f, now) # {}
                => f.tex # NoTexture
<1> DEFINE bare == [part |-> part, start |-> start, duration |-> duration + Extra,
                    opacity |-> 0, expired |-> FALSE, isPreview |-> FALSE,
                    origin |-> origin, early |-> ~imgui \/ ~shaper, sig |-> {},
                    look |-> cfg,
                    ink |-> IF part.tagged THEN TagInk ELSE cfg["colour"],
                    rebuilt |-> 0, tex |-> NoTexture]
           signed == [bare EXCEPT !.sig = ActivePhrases(bare, now)]
           drawn == RenderEntryTexture(signed, shaper, ok, cfg)
           f == NewEntry(part, start, duration, origin, ok)
<1>0. shaper \in BOOLEAN /\ imgui \in BOOLEAN /\ cfg \in Looks /\ now \in Nat
  BY DEF TypeOK
<1>1. f = IF imgui /\ ShownPhrases(bare, now) # {}
          THEN [drawn EXCEPT !.rebuilt = now] ELSE signed
  BY DEF NewEntry
<1>2. bare \in Entry /\ bare.early = (~imgui \/ ~shaper) /\ bare.part = part
  <2>1. /\ cfg["colour"] \in Inks /\ TagInk \in Inks
        /\ 0 \in 0..Opaque /\ duration + Extra \in Nat
    BY <1>0, CaptionColour, FadeAssumption, TimeAssumption DEF Inks
  <2> QED
    BY <1>0, <2>1 DEF Entry
<1> HIDE DEF bare
<1>3. /\ signed \in Entry /\ Same(bare, signed)
      /\ signed.sig = ActivePhrases(bare, now)
  BY <1>2, PhrasesType DEF Entry, Same
<1> HIDE DEF signed
<1>4. /\ ActivePhrases(signed, now) = ActivePhrases(bare, now)
      /\ ShownPhrases(signed, now) = ShownPhrases(bare, now)
  BY <1>0, <1>2, <1>3, PhrasesGrow DEF Same
<1>5. Prefix(signed) = ShownPhrases(bare, now)
  BY <1>3, <1>4, PrefixIsShown
<1>6. drawn \in Entry /\ Same(signed, drawn) /\ drawn.sig = signed.sig
  <2>1. drawn \in Entry /\ Same(signed, drawn)
    BY <1>0, <1>3, RenderKeeps
  <2>2. drawn.sig = signed.sig
    BY <1>3 DEF RenderEntryTexture, Entry
  <2> QED
    BY <2>1, <2>2
<1>7. shaper /\ part.chars > 0 /\ ShownPhrases(bare, now) # {} => drawn.tex # NoTexture
  BY <1>0, <1>2, <1>3, <1>4, RenderBuilds DEF Same
<1> HIDE DEF drawn, f
<1>8. CASE imgui /\ ShownPhrases(bare, now) # {}
  <2>1. f.tex = drawn.tex /\ f.part = drawn.part /\ f.early = drawn.early
    BY <1>0, <1>1, <1>6, <1>8 DEF Entry
  <2>2. f.part = part /\ f.early = (~imgui \/ ~shaper)
    BY <1>2, <1>3, <1>6, <2>1 DEF Same
  <2>3. ~f.early /\ f.part.chars > 0 => f.tex # NoTexture
    BY <1>0, <1>7, <1>8, <2>1, <2>2
  <2> QED
    BY <2>2, <2>3 DEF Built, f
<1>9. CASE ~(imgui /\ ShownPhrases(bare, now) # {})
  <2>1. f = signed /\ f.part = part /\ f.early = (~imgui \/ ~shaper)
    BY <1>1, <1>2, <1>3, <1>9 DEF Same
  <2>2. ~f.early => Prefix(f) = {} /\ ShownPhrases(f, now) = {}
    BY <1>0, <1>4, <1>5, <1>9, <2>1
  <2> QED
    BY <2>1, <2>2 DEF Built, f
<1> QED
  BY <1>8, <1>9

\* SetCaptionText, when textures can always be made.
LEMMA PushBuilt ==
  ASSUME BuildOutcomes = {TRUE}, Inv, BuiltInv, NEW text \in Texts \cup PreviewTexts,
         NEW origin \in {"game", "preview"}, SetCaptionText(text, origin),
         UNCHANGED <<lastFrame, imgui, shaper>>,
         rpc' = rpc \/ (rpc = "pushing" /\ rpc' = "marking")
  PROVE  BuiltInv'
<1> DEFINE added == pushed + 1 .. pushed + Len(text.parts)
<1>1. PICK offset \in Offsets(text), ok \in [added -> BuildOutcomes] :
        queue' = [i \in DOMAIN queue \cup added |->
                    IF i \in DOMAIN queue THEN queue[i]
                    ELSE NewEntry(text.parts[i - pushed],
                                  now + offset[i - pushed],
                                  PartDuration(text, i - pushed),
                                  origin, ok[i])]
  BY DEF SetCaptionText
<1>2. /\ text.parts \in Seq(Part) /\ Len(text.parts) \in Nat
      /\ pushed \in Nat /\ now \in Nat /\ TypeOK /\ lastFrame \in Nat /\ lastFrame <= now
  BY TextsAssumption DEF Text, Inv, TypeOK, ClockForward
<1>3. \A i \in DOMAIN queue : i \in DOMAIN queue' /\ queue'[i] = queue[i]
  BY <1>1
<1>4. ASSUME NEW i \in DOMAIN queue' \ DOMAIN queue
      PROVE  /\ Built(queue'[i]) /\ (~imgui \/ ~shaper => queue'[i].early)
             /\ /\ ~queue'[i].early /\ queue'[i].part.chars > 0
                /\ ShownPhrases(queue'[i], lastFrame) # {}
                => queue'[i].tex # NoTexture
  <2>1. PICK part \in Part, start \in Nat, duration \in Nat, built \in BOOLEAN :
          /\ built
          /\ queue'[i] = NewEntry(part, start, duration, origin, built)
    <3>1. i \in added /\ i - pushed \in 1..Len(text.parts)
      BY <1>1, <1>2
    <3>2. text.parts[i - pushed] \in Part
      BY <1>2, <3>1
    <3>3. now + offset[i - pushed] \in Nat
      BY <1>2, <3>1 DEF Offsets
    <3>4. PartDuration(text, i - pushed) \in Nat
      BY <1>2, <3>1, PartDurationAssumption
    <3>5. ok[i] \in {TRUE}
      BY <3>1
    <3>6. queue'[i] = NewEntry(text.parts[i - pushed], now + offset[i - pushed],
                               PartDuration(text, i - pushed), origin, ok[i])
      BY <1>1, <3>1
    <3>7. ok[i] \in BOOLEAN /\ ok[i]
      BY <3>5
    <3> QED
      BY <3>2, <3>3, <3>4, <3>6, <3>7
  <2>2. /\ Built(queue'[i]) /\ (~imgui \/ ~shaper => queue'[i].early)
        /\ /\ ~queue'[i].early /\ queue'[i].part.chars > 0
           /\ ShownPhrases(queue'[i], now) # {}
           => queue'[i].tex # NoTexture
    BY <1>2, <2>1, NewEntryBuilds
  <2>3. queue'[i] \in Entry
    BY <1>2, PushKeeps
  <2>4. ShownPhrases(queue'[i], lastFrame) \subseteq ShownPhrases(queue'[i], now)
    BY <1>2, <2>3, PhrasesGrow
  <2> QED
    BY <2>2, <2>4
<1>5. rpc' = "updated" /\ shaper' =>
        \A i \in DOMAIN queue' : ~queue'[i].early => ShownOnceActive(i)'
  <2> SUFFICES ASSUME rpc' = "updated", shaper', NEW i \in DOMAIN queue',
                      ~queue'[i].early, ~queue'[i].expired, queue'[i].part.chars > 0,
                      ShownPhrases(queue'[i], lastFrame) # {}
               PROVE  queue'[i].tex # NoTexture
    BY DEF ShownOnceActive, Live
  <2>1. CASE i \in DOMAIN queue
    BY <1>3, <2>1 DEF BuiltInv, ShownOnceActive, Live
  <2>2. CASE i \notin DOMAIN queue
    BY <1>4, <2>2
  <2> QED
    BY <2>1, <2>2
<1> QED
  BY <1>3, <1>4, <1>5 DEF BuiltInv

\* UpdateQueue, when textures can always be made.
LEMMA UpdateBuilt ==
  ASSUME BuildOutcomes = {TRUE}, Inv, DrawnInv, BuiltInv, UpdateQueue
  PROVE  BuiltInv'
<1>1. /\ now \in Nat /\ cfg \in Looks /\ now - lastFrame \in Nat
      /\ \A i \in DOMAIN queue : queue[i] \in Entry
      /\ shaper \in BOOLEAN
  BY DEF Inv, TypeOK, ClockForward
<1>2. ~FontStale
  BY UpdateEach
<1>3. PICK ok \in [DOMAIN queue -> BuildOutcomes] :
        /\ shaper' = shaper
        /\ DOMAIN queue' \subseteq DOMAIN queue
        /\ \A i \in DOMAIN queue' :
             queue'[i] = Updated(queue[i], shaper, ok[i], now - lastFrame)
  BY UpdateEach
<1>4. imgui /\ imgui' = imgui /\ lastFrame' = now /\ rpc' = "updated"
  BY DEF UpdateQueue
<1>5. ASSUME shaper, NEW i \in DOMAIN queue'
      PROVE  /\ Built(queue'[i])
             /\ /\ ~queue'[i].early /\ ~queue'[i].expired /\ queue'[i].part.chars > 0
                /\ ShownPhrases(queue'[i], now) # {}
                => queue'[i].tex # NoTexture
  <2>1. ok[i] \in BOOLEAN /\ ok[i] /\ queue[i] \in Entry
    <3>1. ok[i] \in {TRUE}
      BY <1>3
    <3> QED
      BY <1>1, <1>3, <3>1
  <2>2. Sound(queue[i], now) /\ Built(queue[i])
    BY <1>3, <1>5 DEF DrawnInv, BuiltInv
  <2> QED
    BY <1>1, <1>2, <1>3, <1>5, <2>1, <2>2, UpdatedBuilds
<1> QED
  BY <1>3, <1>4, <1>5 DEF BuiltInv, ShownOnceActive, Live

\* Every step preserves it.
LEMMA BuiltStep ==
  BuildOutcomes = {TRUE} => (Inv /\ DrawnInv /\ BuiltInv /\ [Next]_vars => BuiltInv')
<1> SUFFICES ASSUME BuildOutcomes = {TRUE}, Inv, DrawnInv, BuiltInv, [Next]_vars
             PROVE  BuiltInv'
  OBVIOUS
<1>0. /\ now \in Nat /\ shaper \in BOOLEAN /\ imgui \in BOOLEAN
      /\ \A i \in DOMAIN queue : queue[i] \in Entry
  BY DEF Inv, TypeOK
<1> USE DEF ShownOnceActive, Live
<1>1. CASE UNCHANGED vars
  BY <1>1 DEF vars, BuiltInv
<1>2. CASE Tick
  BY <1>2 DEF Tick, BuiltInv
<1>3. CASE InitImGui
  BY <1>0, <1>3 DEF InitImGui, BuiltInv
<1>4. CASE NewShaper
  BY <1>0, <1>4 DEF NewShaper, BuiltInv
<1>5. CASE InitShaper
  <2>1. /\ rpc = "fonts" /\ rpc' = "ready" /\ UNCHANGED <<queue, imgui>>
    BY <1>5 DEF InitShaper
  <2> QED
    BY <1>0, <2>1 DEF BuiltInv, Built
<1>6. CASE UpdateQueue
  BY <1>6, UpdateBuilt
<1>7. CASE DrawCaptions
  BY <1>7 DEF DrawCaptions, BuiltInv
<1>8. CASE SubmitDrawData \/ SkipUI \/ ShowPreviewSize
  BY <1>8 DEF SubmitDrawData, SkipUI, ShowPreviewSize, BuiltInv
<1>9. CASE Save \/ Reset
  <2>1. /\ rpc = "ui" /\ rpc' = "preview" /\ DOMAIN queue' = {} /\ imgui' = imgui
    BY <1>9 DEF Save, Reset, SaveOrReset
  <2> QED
    BY <2>1 DEF BuiltInv
<1>10. CASE ClearPreview \/ ShowPreviewClear
  BY <1>10 DEF ClearPreview, ShowPreviewClear, WithoutPreviews, BuiltInv
<1>11. CASE ShowPreviewMark
  <2>1. /\ rpc = "marking" /\ rpc' = "clearing" /\ UNCHANGED <<now, imgui, shaper>>
        /\ DOMAIN queue' = DOMAIN queue
        /\ \A i \in DOMAIN queue :
             queue'[i] \in {queue[i], [queue[i] EXCEPT !.isPreview = TRUE]}
    BY <1>11 DEF ShowPreviewMark
  <2>2. \A i \in DOMAIN queue : /\ queue'[i].sig = queue[i].sig
                                /\ queue'[i].tex = queue[i].tex
                                /\ queue'[i].part = queue[i].part
                                /\ queue'[i].early = queue[i].early
                                /\ queue'[i].expired = queue[i].expired
    BY <1>0, <2>1 DEF Entry
  <2> QED
    BY <2>1, <2>2 DEF BuiltInv, Built, Prefix
<1>12. CASE \E text \in PreviewTexts : ShowPreviewPush(text)
  BY <1>12, PushBuilt DEF ShowPreviewPush
<1>13. CASE \E text \in Texts : GameCaption(text)
  BY <1>13, PushBuilt DEF GameCaption
<1>14. CASE \E look \in Looks : PollConfig(look)
  <2>1. PICK look \in Looks : PollConfig(look)
    BY <1>14
  <2>2. rpc = "poll" /\ rpc' = "idle" /\ UNCHANGED <<now, imgui>> /\ imgui
    BY <2>1 DEF PollConfig, BuiltInv
  <2>3. CASE UNCHANGED <<queue, shaper>>
    BY <2>2, <2>3 DEF BuiltInv
  <2>4. CASE look["font"] # cfg["font"]
    <3>1. PICK ready \in FontOutcomes, ok \in [DOMAIN queue -> BuildOutcomes] :
            /\ shaper' = ready
            /\ queue' = [i \in DOMAIN queue |-> Reload(queue[i], ready, ok[i], look)]
      BY <2>1, <2>4 DEF PollConfig
    <3>2. ready \in BOOLEAN /\ \A i \in DOMAIN queue : ok[i] \in BOOLEAN /\ ok[i]
      <4>1. \A i \in DOMAIN queue : ok[i] \in {TRUE}
        OBVIOUS
      <4> QED
        BY <4>1, OutcomesAssumption
    <3>3. ready => \A i \in DOMAIN queue : Built(Reload(queue[i], ready, ok[i], look))
      BY <1>0, <3>2, ReloadBuilds DEF DrawnInv
    <3> QED
      BY <2>2, <3>1, <3>3 DEF BuiltInv
  <2> QED
    BY <2>1, <2>3, <2>4 DEF PollConfig
<1> QED
  BY <1>1, <1>2, <1>3, <1>4, <1>5, <1>6, <1>7, <1>8, <1>9, <1>10, <1>11, <1>12,
     <1>13, <1>14 DEF Next, Present

\* As long as Direct3D gives a texture when asked, a caption that came while ImGui
\* and the shaper were up is drawn once a phrase of it is due, though fonts may
\* fail to load and come back later.
THEOREM NoneForgotten ==
  BuildOutcomes = {TRUE} => (Spec => []NoLateCaptionInvisible)
<1> SUFFICES ASSUME BuildOutcomes = {TRUE}
             PROVE  Spec => []NoLateCaptionInvisible
  OBVIOUS
<1>1. Init => DrawnInv /\ BuiltInv
  BY DEF Init, DrawnInv, BuiltInv
<1>2. BuiltInv => NoLateCaptionInvisible
  BY DEF BuiltInv, NoLateCaptionInvisible
<1>3. Inv /\ DrawnInv /\ BuiltInv /\ [Next]_vars => BuiltInv'
  BY BuiltStep
<1> QED
  BY <1>1, <1>2, <1>3, DrawnStep, Invariance, PTL DEF Spec
=============================================================================
