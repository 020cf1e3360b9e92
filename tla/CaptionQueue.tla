---------------------------- MODULE CaptionQueue ----------------------------
(***************************************************************************)
(* The caption queue of Hlyx Caption: Renderer::m_Queue, the game thread    *)
(* that pushes captions into it (hkProcess -> SetCaptionText) and the       *)
(* render thread that updates it, draws it and changes it from the settings *)
(* panel (hkPresent -> UpdateQueue, DrawCaptions, UltralightManager::Render).*)
(*                                                                         *)
(* Every critical section of m_CS is one atomic step; what a thread does    *)
(* between two sections (draw list built but not submitted, ShowPreview     *)
(* between its four sections) is a value of rpc, so that the other thread   *)
(* can run there.                                                           *)
(*                                                                         *)
(* m_Queue is a vector that only grows at its end and from which entries    *)
(* are erased in place.  Here it is a function whose domain holds the       *)
(* arrival numbers of the entries present; their order is that of the       *)
(* vector.  Time is counted in ticks from the epoch of GetTimeQPC, opacity  *)
(* in steps from 0 to Opaque.  Parsing, shaping and pixels are abstracted:  *)
(* a caption text is a record of what the parser finds in it, a texture a   *)
(* record of what was rendered into it.                                     *)
(***************************************************************************)
EXTENDS Integers, FiniteSets, Sequences

CONSTANTS
  Texts,         \* captions the game may send
  PreviewTexts,  \* captions the Preview button may send
  Looks,         \* values of the live part of g_Config
  DefaultLook,   \* g_DefaultConfig
  TagInk,        \* the colour a <clr:r,g,b> tag gives to a run
  NoTexture,     \* texID == nullptr
  Opaque,        \* opacity 1.0f
  FadeInRate,    \* opacity gained per tick (1 / fade_in_time)
  FadeOutRate,   \* opacity lost per tick (1 / fade_out_time)
  Throttle,      \* ticks between rebuilds when only line_spacing changes
  Extra,         \* extra_display_time
  BuildOutcomes, \* {TRUE}, or BOOLEAN if CreateTexture2D or the SRV may fail
  FontOutcomes,  \* {TRUE}, or BOOLEAN if no font can be loaded
  MaxPushed,     \* bound: no caption is sent beyond this number of entries
  MaxTime        \* bound on the clock

(***************************************************************************)
(* A part of a caption is what ParseCaptionText makes of the text between   *)
(* two <sb> tags: the delay of each phrase (a phrase never gets a duration),*)
(* the number of visible characters, whether it holds <sfx>, and whether    *)
(* its runs take their colour from a tag.                                   *)
(***************************************************************************)
Part == [delays: Seq(Nat), chars: Nat, sfx: BOOLEAN, tagged: BOOLEAN]
Text == [parts: Seq(Part), duration: Nat]

\* The live settings that reach a texture.  "layout" stands for font size,
\* wrap width and alignment, "font" for the two font paths.
Settings == {"colour", "font", "layout", "spacing"}

ASSUME TextsAssumption ==
  /\ Texts \cup PreviewTexts \subseteq Text
  /\ \A t \in Texts \cup PreviewTexts : Len(t.parts) > 0
ASSUME LooksAssumption ==
  /\ \A look \in Looks : DOMAIN look = Settings /\ look["colour"] # TagInk
  /\ DefaultLook \in Looks
ASSUME FadeAssumption ==
  /\ Opaque \in Nat \ {0}
  /\ FadeInRate \in Nat \ {0}
  /\ FadeOutRate \in Nat \ {0}
ASSUME TimeAssumption ==
  /\ Throttle \in Nat
  /\ Extra \in Nat
  /\ MaxTime \in Nat
  /\ MaxPushed \in Nat
ASSUME OutcomesAssumption ==
  /\ BuildOutcomes \in (SUBSET BOOLEAN) \ {{}}
  /\ FontOutcomes \in (SUBSET BOOLEAN) \ {{}}

VARIABLES
  now,          \* QueryPerformanceCounter
  lastFrame,    \* g_LastFrameQPC
  cfg,          \* g_Config
  queue,        \* m_Queue
  pushed,       \* number of entries ever pushed
  imgui,        \* m_ImguiInitialized
  shaper,       \* m_Shaper exists and is initialised
  rpc,          \* where the render thread is in hkPresent
  before,       \* ShowPreview's local of that name, 0 outside it
  drawList,     \* ImGui's draw list: the textures in it, by entry
  leaked,       \* history: entries erased while they owned a texture
  seen,         \* history: entries that ever had a positive opacity
  recoloured,   \* history: entries present when the text colour changed
  miscoloured   \* history: entries present when the last change of the colour
                \* came together with one of a font path

vars == <<now, lastFrame, cfg, queue, pushed, imgui, shaper, rpc, before,
          drawList, leaked, seen, recoloured, miscoloured>>
history == <<leaked, seen, recoloured, miscoloured>>

Inks == {look["colour"] : look \in Looks} \cup {TagInk}

Texture == [phrases: SUBSET Nat, look: Looks, ink: Inks]

ASSUME NoTextureAssumption == NoTexture \notin Texture

Entry == [part: Part, start: Int, duration: Nat, opacity: 0..Opaque,
          expired: BOOLEAN, isPreview: BOOLEAN, origin: {"game", "preview"},
          early: BOOLEAN, sig: SUBSET Nat, look: Looks, ink: Inks,
          rebuilt: Nat, tex: Texture \cup {NoTexture}]

Stages == {"idle", "shaping", "fonts", "ready", "updated", "drawn",
           "ui", "preview", "sizing", "pushing", "marking", "clearing", "poll"}
-----------------------------------------------------------------------------
(* Phrases *)

\* CalcActivePhraseSignature hashes the activity of every phrase; the hash is
\* taken to separate the activity vectors it is compared with.
ActivePhrases(e, t) ==
  {k \in DOMAIN e.part.delays : t - e.start >= e.part.delays[k]}

\* CalcActivePhraseCount and RenderEntryTexture stop at the first phrase whose
\* delay lies ahead.
ShownPhrases(e, t) ==
  {k \in DOMAIN e.part.delays :
     \A j \in 1..k : t - e.start >= e.part.delays[j]}
-----------------------------------------------------------------------------
(* Textures *)

\* RenderEntryTexture.  Without a shaper it returns before it releases.
RenderEntryTexture(e, ready, ok, look) ==
  IF ~ready THEN e
  ELSE [e EXCEPT !.tex =
          IF ok /\ e.part.chars > 0 /\ ShownPhrases(e, now) # {}
          THEN [phrases |-> ShownPhrases(e, now), look |-> look, ink |-> e.ink]
          ELSE NoTexture]

\* The entry as ReloadFontPreserveQueue leaves it: the texture is released,
\* and a live entry is rendered again and takes a new snapshot.  The runs keep
\* their colour and the phrase signature its value.
Reload(e, ready, ok, look) ==
  LET released == [e EXCEPT !.tex = NoTexture]
  IN  IF e.expired THEN released
      ELSE [RenderEntryTexture(released, ready, ok, look)
              EXCEPT !.look = look, !.rebuilt = now]
-----------------------------------------------------------------------------
(* UpdateQueue *)

Changed(e, setting) == e.look[setting] # cfg[setting]

FontStale == \E i \in DOMAIN queue :
               ~queue[i].expired /\ Changed(queue[i], "font")

\* Mutant: a rebuild on changed settings only, not on due phrases.
NeedsRebuildBySettings(e) == \E s \in Settings : Changed(e, s)

NeedsRebuild(e) ==
  ActivePhrases(e, now) # e.sig \/ \E s \in Settings : Changed(e, s)

\* Mutant: throttles a rebuild though a phrase became due with it.
ThrottledWithPhrases(e) ==
  /\ \A s \in Settings : Changed(e, s) <=> s = "spacing"
  /\ e.rebuilt > 0
  /\ now - e.rebuilt < Throttle

Throttled(e) ==
  /\ ActivePhrases(e, now) = e.sig
  /\ \A s \in Settings : Changed(e, s) <=> s = "spacing"
  /\ e.rebuilt > 0
  /\ now - e.rebuilt < Throttle

\* Mutant: the runs are not recoloured.
RebuildInOldInk(e, ready, ok) ==
  [RenderEntryTexture([e EXCEPT !.sig = ActivePhrases(e, now)], ready, ok, cfg)
     EXCEPT !.look = cfg, !.rebuilt = now]

Rebuild(e, ready, ok) ==
  LET inked == [e EXCEPT !.ink = IF Changed(e, "colour") THEN cfg["colour"] ELSE @,
                         !.sig = ActivePhrases(e, now)]
  IN  [RenderEntryTexture(inked, ready, ok, cfg)
         EXCEPT !.look = cfg, !.rebuilt = now]

\* Mutant: a caption expires one tick late.
RefreshLate(e, ready, ok) ==
  IF e.expired THEN e
  ELSE IF now - e.start > e.duration THEN [e EXCEPT !.expired = TRUE]
  ELSE IF NeedsRebuild(e) /\ ~Throttled(e) THEN Rebuild(e, ready, ok)
  ELSE e

Refresh(e, ready, ok) ==
  IF e.expired THEN e
  ELSE IF now - e.start >= e.duration THEN [e EXCEPT !.expired = TRUE]
  ELSE IF NeedsRebuild(e) /\ ~Throttled(e) THEN Rebuild(e, ready, ok)
  ELSE e

\* Mutant: the texture is not released when the fade-out ends.
FadeOutKeepingTexture(e, dt) ==
  IF ~e.expired \/ e.opacity = 0 THEN e
  ELSE IF e.opacity > dt * FadeOutRate
       THEN [e EXCEPT !.opacity = @ - dt * FadeOutRate]
       ELSE [e EXCEPT !.opacity = 0]

\* Mutant: sound effects, which skip the fade-in, skip the fade-out too.
FadeOutUnlessSfx(e, dt) ==
  IF ~e.expired \/ e.opacity = 0 \/ e.part.sfx THEN e
  ELSE IF e.opacity > dt * FadeOutRate
       THEN [e EXCEPT !.opacity = @ - dt * FadeOutRate]
       ELSE [e EXCEPT !.opacity = 0, !.tex = NoTexture]

FadeOut(e, dt) ==
  IF ~e.expired \/ e.opacity = 0 THEN e
  ELSE IF e.opacity > dt * FadeOutRate
       THEN [e EXCEPT !.opacity = @ - dt * FadeOutRate]
       ELSE [e EXCEPT !.opacity = 0, !.tex = NoTexture]

\* Mutant: the fade-in is not capped.
FadeInUncapped(e, dt) ==
  IF e.expired \/ now < e.start THEN e
  ELSE IF e.part.sfx THEN [e EXCEPT !.opacity = Opaque]
       ELSE [e EXCEPT !.opacity = @ + dt * FadeInRate]

\* Mutant: an expired sound effect is made opaque again.
FadeInExpiredSfx(e, dt) ==
  IF now < e.start \/ (e.expired /\ ~e.part.sfx) THEN e
  ELSE IF e.part.sfx \/ e.opacity + dt * FadeInRate > Opaque
       THEN [e EXCEPT !.opacity = Opaque]
       ELSE [e EXCEPT !.opacity = @ + dt * FadeInRate]

FadeIn(e, dt) ==
  IF e.expired \/ now < e.start THEN e
  ELSE IF e.part.sfx \/ e.opacity + dt * FadeInRate > Opaque
       THEN [e EXCEPT !.opacity = Opaque]
       ELSE [e EXCEPT !.opacity = @ + dt * FadeInRate]

\* Mutant: whatever is transparent is removed.
FinishedWhenTransparent(e) == e.opacity = 0

Finished(e) == e.expired /\ e.opacity = 0

\* What UpdateQueue does to one entry, loop after loop.
Updated(e, ready, ok, dt) ==
  LET fresh == IF FontStale THEN Reload(e, ready, ok, cfg) ELSE e
  IN  FadeIn(FadeOut(Refresh(fresh, ready, ok), dt), dt)

\* The whole of UpdateQueue, run by hkPresent in its first critical section.
UpdateQueue ==
  /\ rpc \in {"idle", "ready"}
  /\ imgui
  /\ \E ok \in [DOMAIN queue -> BuildOutcomes],
        ready \in IF FontStale THEN FontOutcomes ELSE {shaper} :
       LET faded == [i \in DOMAIN queue |->
                       Updated(queue[i], ready, ok[i], now - lastFrame)]
           done == {i \in DOMAIN queue : Finished(faded[i])}
       IN  /\ queue' = [i \in DOMAIN queue \ done |-> faded[i]]
           /\ shaper' = ready
           /\ leaked' = leaked \cup {i \in done : faded[i].tex # NoTexture}
           /\ seen' = seen \cup {i \in DOMAIN queue : faded[i].opacity > 0}
  /\ lastFrame' = now
  /\ rpc' = "updated"
  /\ UNCHANGED <<now, cfg, pushed, imgui, before, drawList>>
  /\ UNCHANGED <<recoloured, miscoloured>>
-----------------------------------------------------------------------------
(* SetCaptionText *)

TotalChars(text) ==
  LET chars[k \in 0..Len(text.parts)] ==
        IF k = 0 THEN 0 ELSE chars[k - 1] + text.parts[k].chars
  IN  chars[Len(text.parts)]

PartDuration(text, k) ==
  IF Len(text.parts) = 1 THEN text.duration
  ELSE IF TotalChars(text) > 0
       THEN (text.parts[k].chars * text.duration) \div TotalChars(text)
       ELSE text.duration \div Len(text.parts)

\* What the loop's float arithmetic keeps: no part outlasts the caption.
ASSUME PartDurationAssumption ==
  \A text \in Texts \cup PreviewTexts : \A k \in 1..Len(text.parts) :
    PartDuration(text, k) \in 0..text.duration

\* The start of each part after the arrival: the recurrence the loop computes
\* in cumulativeTime.
Offsets(text) ==
  {offset \in [1..Len(text.parts) -> 0..text.duration] :
     /\ offset[1] = 0
     /\ \A k \in 1..Len(text.parts) - 1 :
          offset[k + 1] = offset[k] + PartDuration(text, k)}

\* Mutant: an entry without a texture takes no snapshot of the settings.
NewEntryWithoutSnapshot(part, start, duration, origin, ok) ==
  LET bare == [part |-> part, start |-> start, duration |-> duration + Extra,
               opacity |-> 0, expired |-> FALSE, isPreview |-> FALSE,
               origin |-> origin, early |-> ~imgui \/ ~shaper, sig |-> {},
               look |-> cfg, ink |-> IF part.tagged THEN TagInk ELSE cfg["colour"],
               rebuilt |-> 0, tex |-> NoTexture]
      signed == [bare EXCEPT !.sig = ActivePhrases(bare, now)]
  IN  IF imgui /\ ShownPhrases(bare, now) # {}
      THEN [RenderEntryTexture(signed, shaper, ok, cfg) EXCEPT !.rebuilt = now]
      ELSE [signed EXCEPT !.look["colour"] = TagInk]

NewEntry(part, start, duration, origin, ok) ==
  LET bare == [part |-> part, start |-> start, duration |-> duration + Extra,
               opacity |-> 0, expired |-> FALSE, isPreview |-> FALSE,
               origin |-> origin, early |-> ~imgui \/ ~shaper, sig |-> {},
               look |-> cfg, ink |-> IF part.tagged THEN TagInk ELSE cfg["colour"],
               rebuilt |-> 0, tex |-> NoTexture]
      signed == [bare EXCEPT !.sig = ActivePhrases(bare, now)]
  IN  IF imgui /\ ShownPhrases(bare, now) # {}
      THEN [RenderEntryTexture(signed, shaper, ok, cfg) EXCEPT !.rebuilt = now]
      ELSE signed

\* Mutant: the push makes room by dropping the expired entries.
SetCaptionTextEvicting(text, origin) ==
  LET added == pushed + 1 .. pushed + Len(text.parts)
      kept == {i \in DOMAIN queue : ~queue[i].expired}
  IN  /\ \E offset \in Offsets(text), ok \in [added -> BuildOutcomes] :
           queue' = [i \in kept \cup added |->
                       IF i \in kept THEN queue[i]
                       ELSE NewEntry(text.parts[i - pushed],
                                     now + offset[i - pushed],
                                     PartDuration(text, i - pushed),
                                     origin, ok[i])]
      /\ pushed' = pushed + Len(text.parts)

\* The whole of SetCaptionText, one critical section.
SetCaptionText(text, origin) ==
  LET added == pushed + 1 .. pushed + Len(text.parts)
  IN  /\ \E offset \in Offsets(text), ok \in [added -> BuildOutcomes] :
           queue' = [i \in DOMAIN queue \cup added |->
                       IF i \in DOMAIN queue THEN queue[i]
                       ELSE NewEntry(text.parts[i - pushed],
                                     now + offset[i - pushed],
                                     PartDuration(text, i - pushed),
                                     origin, ok[i])]
      /\ pushed' = pushed + Len(text.parts)

\* The game's caption hook.
GameCaption(text) ==
  /\ pushed + Len(text.parts) <= MaxPushed
  /\ SetCaptionText(text, "game")
  /\ UNCHANGED <<now, lastFrame, cfg, imgui, shaper, rpc, before, drawList>>
  /\ UNCHANGED history
-----------------------------------------------------------------------------
(* The render thread outside UpdateQueue *)

RenderStep(from, to) == rpc = from /\ rpc' = to

\* The first Present: InitImGui, without m_CS, sets m_ImguiInitialized, ...  (A
\* Present on another swap chain crashes, see Bootstrap.)
InitImGui ==
  /\ ~imgui
  /\ RenderStep("idle", "shaping")
  /\ imgui' = TRUE
  /\ UNCHANGED <<now, lastFrame, cfg, queue, pushed, shaper, before, drawList>>
  /\ UNCHANGED history

\* ... then puts a shaper without fonts in place, ...
NewShaper ==
  /\ RenderStep("shaping", "fonts")
  /\ shaper' = FALSE
  /\ UNCHANGED <<now, lastFrame, cfg, queue, pushed, imgui, before, drawList>>
  /\ UNCHANGED history

\* ... and loads the fonts.
InitShaper ==
  /\ RenderStep("fonts", "ready")
  /\ shaper' \in FontOutcomes
  /\ UNCHANGED <<now, lastFrame, cfg, queue, pushed, imgui, before, drawList>>
  /\ UNCHANGED history

Drawable == {i \in DOMAIN queue :
               queue[i].tex # NoTexture /\ queue[i].opacity > 0}

\* DrawCaptions puts the textures into ImGui's draw list, or returns at once
\* when F11 has hidden the overlay.
DrawCaptions ==
  /\ RenderStep("updated", "drawn")
  /\ \E shown \in {Drawable, {}} : drawList' = [i \in shown |-> queue[i].tex]
  /\ UNCHANGED <<now, lastFrame, cfg, queue, pushed, imgui, shaper, before>>
  /\ UNCHANGED history

\* ImGui_ImplDX11_RenderDrawData, in a later critical section.
SubmitDrawData ==
  /\ RenderStep("drawn", "ui")
  /\ drawList' = [i \in {} |-> drawList[i]]
  /\ UNCHANGED <<now, lastFrame, cfg, queue, pushed, imgui, shaper, before>>
  /\ UNCHANGED history

\* UltralightManager::Render: stages the page asks nothing of.
SkipUI ==
  /\ \/ RenderStep("ui", "idle")           \* closed, or closing
     \/ RenderStep("ui", "preview")        \* neither Save nor Reset
     \/ RenderStep("preview", "clearing")  \* no preview requested
     \/ RenderStep("clearing", "poll")     \* __previewClear not set
     \/ RenderStep("poll", "idle")         \* not the fifth frame, not dirty
  /\ UNCHANGED <<now, lastFrame, cfg, queue, pushed, imgui, shaper, before, drawList>>
  /\ UNCHANGED history

\* Save (ApplyConfigJson, SaveConfig, ReloadFont) and Reset (ResetConfig,
\* ReloadFont): ReloadFont releases every texture and clears the queue.
SaveOrReset(look) ==
  /\ RenderStep("ui", "preview")
  /\ cfg' = look
  /\ shaper' \in FontOutcomes
  /\ queue' = [i \in {} |-> queue[i]]
  /\ UNCHANGED <<now, lastFrame, pushed, imgui, before, drawList>>
  /\ UNCHANGED history

Save == \E look \in Looks : SaveOrReset(look)
Reset == SaveOrReset(DefaultLook)

WithoutPreviews == [i \in {i \in DOMAIN queue : ~queue[i].isPreview} |-> queue[i]]

\* ClearPreview, called for "preview off" or for __previewClear.
ClearPreview ==
  /\ RenderStep("preview", "clearing") \/ RenderStep("clearing", "poll")
  /\ queue' = WithoutPreviews
  /\ UNCHANGED <<now, lastFrame, cfg, pushed, imgui, shaper, before, drawList>>
  /\ UNCHANGED history

\* ShowPreview is four critical sections: ClearPreview, ...
ShowPreviewClear ==
  /\ RenderStep("preview", "sizing")
  /\ PreviewTexts # {}
  /\ pushed < MaxPushed
  /\ queue' = WithoutPreviews
  /\ UNCHANGED <<now, lastFrame, cfg, pushed, imgui, shaper, before, drawList>>
  /\ UNCHANGED history

\* ... the size of the queue, ...
ShowPreviewSize ==
  /\ RenderStep("sizing", "pushing")
  /\ before' = Cardinality(DOMAIN queue)
  /\ UNCHANGED <<now, lastFrame, cfg, queue, pushed, imgui, shaper, drawList>>
  /\ UNCHANGED history

\* ... SetCaptionText, ...
ShowPreviewPush(text) ==
  /\ RenderStep("pushing", "marking")
  /\ SetCaptionText(text, "preview")
  /\ UNCHANGED <<now, lastFrame, cfg, imgui, shaper, before, drawList>>
  /\ UNCHANGED history

\* Mutant: the marks start one entry too late.
ShowPreviewMarkAfter ==
  /\ RenderStep("marking", "clearing")
  /\ LET Index(i) == Cardinality({j \in DOMAIN queue : j < i})
     IN  queue' = [i \in DOMAIN queue |->
                     IF Index(i) > before
                     THEN [queue[i] EXCEPT !.isPreview = TRUE] ELSE queue[i]]
  /\ before' = 0
  /\ UNCHANGED <<now, lastFrame, cfg, pushed, imgui, shaper, drawList>>
  /\ UNCHANGED history

\* ... and the marks, on every entry from index `before' on, which ends with the
\* function.
ShowPreviewMark ==
  /\ RenderStep("marking", "clearing")
  /\ LET Index(i) == Cardinality({j \in DOMAIN queue : j < i})
     IN  queue' = [i \in DOMAIN queue |->
                     IF Index(i) >= before
                     THEN [queue[i] EXCEPT !.isPreview = TRUE] ELSE queue[i]]
  /\ before' = 0
  /\ UNCHANGED <<now, lastFrame, cfg, pushed, imgui, shaper, drawList>>
  /\ UNCHANGED history

\* History: which captions a change of the text colour finds in the queue, and
\* whether their fonts are reloaded with it.
NoteColour(look) ==
  IF look["colour"] = cfg["colour"] THEN UNCHANGED <<recoloured, miscoloured>>
  ELSE /\ recoloured' = recoloured \cup DOMAIN queue
       /\ miscoloured' = IF look["font"] = cfg["font"] THEN {} ELSE DOMAIN queue

\* Mutant: the live poll forgets to reload the fonts.
PollConfigWithoutReload(look) ==
  /\ RenderStep("poll", "idle")
  /\ cfg' = look
  /\ UNCHANGED <<queue, shaper>>
  /\ NoteColour(look)
  /\ UNCHANGED <<now, lastFrame, pushed, imgui, before, drawList, leaked, seen>>

\* The live poll: ApplyConfigJson, and ReloadFontPreserveQueue when a font path
\* changed, in one critical section.
PollConfig(look) ==
  /\ RenderStep("poll", "idle")
  /\ cfg' = look
  /\ IF look["font"] = cfg["font"] THEN UNCHANGED <<queue, shaper>>
     ELSE \E ready \in FontOutcomes, ok \in [DOMAIN queue -> BuildOutcomes] :
            /\ shaper' = ready
            /\ queue' = [i \in DOMAIN queue |-> Reload(queue[i], ready, ok[i], look)]
  /\ NoteColour(look)
  /\ UNCHANGED <<now, lastFrame, pushed, imgui, before, drawList, leaked, seen>>
-----------------------------------------------------------------------------
(* The specification *)

Tick ==
  /\ now < MaxTime
  /\ now' = now + 1
  /\ UNCHANGED <<lastFrame, cfg, queue, pushed, imgui, shaper, rpc, before, drawList>>
  /\ UNCHANGED history

Init ==
  /\ now = 1
  /\ lastFrame = 1
  /\ cfg = DefaultLook
  /\ queue = [i \in {} |-> NoTexture]
  /\ pushed = 0
  /\ imgui = FALSE
  /\ shaper = FALSE
  /\ rpc = "idle"
  /\ before = 0
  /\ drawList = [i \in {} |-> NoTexture]
  /\ leaked = {}
  /\ seen = {}
  /\ recoloured = {}
  /\ miscoloured = {}

Present ==
  \/ InitImGui
  \/ NewShaper
  \/ InitShaper
  \/ UpdateQueue
  \/ DrawCaptions
  \/ SubmitDrawData
  \/ SkipUI
  \/ Save
  \/ Reset
  \/ ClearPreview
  \/ ShowPreviewClear
  \/ ShowPreviewSize
  \/ \E text \in PreviewTexts : ShowPreviewPush(text)
  \/ ShowPreviewMark
  \/ \E look \in Looks : PollConfig(look)

Next ==
  \/ Tick
  \/ Present
  \/ \E text \in Texts : GameCaption(text)

Spec == Init /\ [][Next]_vars
-----------------------------------------------------------------------------
(* Properties *)

\* The types of the variables.
TypeOK ==
  /\ now \in Nat /\ lastFrame \in Nat
  /\ cfg \in Looks
  /\ pushed \in Nat /\ before \in Nat
  /\ DOMAIN queue \subseteq 1..pushed
  /\ \A i \in DOMAIN queue : queue[i] \in Entry
  /\ imgui \in BOOLEAN /\ shaper \in BOOLEAN
  /\ rpc \in Stages
  /\ \A i \in DOMAIN drawList : drawList[i] \in Texture
  /\ leaked \subseteq 1..pushed
  /\ seen \subseteq 1..pushed
  /\ recoloured \subseteq 1..pushed
  /\ miscoloured \subseteq 1..pushed

\* From the moment DrawCaptions puts a texture into the draw list until
\* RenderDrawData has used it, the texture stays that of an entry of the queue:
\* neither the game thread nor a later part of the frame releases it.
DrawnTexturesAlive ==
  rpc = "drawn" =>
    \A i \in DOMAIN drawList :
      i \in DOMAIN queue /\ queue[i].tex = drawList[i]

Live(i) == i \in DOMAIN queue /\ ~queue[i].expired

\* What is drawn for a live caption shows the phrases whose time has come at
\* this frame, in the font and layout configured now, and its runs have the text
\* colour configured now, or that of their tag.  Two things may be older: the
\* line spacing, but not for longer than the throttle of UpdateQueue, and the
\* colour of the captions that a poll found in the queue when it changed colour
\* and font path together, until the next change of the colour.
DrawnIsCurrent ==
  rpc = "drawn" =>
    \A i \in DOMAIN drawList : Live(i) =>
      LET tex == drawList[i] IN
      /\ tex.phrases = ShownPhrases(queue[i], lastFrame)
      /\ \A s \in {"font", "layout"} : tex.look[s] = cfg[s]
      /\ \/ tex.look["spacing"] = cfg["spacing"]
         \/ lastFrame - queue[i].rebuilt < Throttle
      /\ \/ tex.ink = cfg["colour"]
         \/ tex.ink = TagInk /\ queue[i].part.tagged
         \/ i \in miscoloured

\* The runs of a caption without colour tags follow the text colour from rebuild
\* to rebuild: only a live poll that changes a font path as well leaves them in
\* the old colour with a snapshot of the new one.
InkInStep ==
  [][\A i \in DOMAIN queue \cap DOMAIN queue' :
       ~queue[i].part.tagged /\ queue[i].ink = queue[i].look["colour"] =>
         \/ queue'[i].ink = queue'[i].look["colour"]
         \/ cfg'["font"] # cfg["font"]]_vars

\* After UpdateQueue a live caption with a phrase whose time has come has a
\* texture, whatever settings changed before.
ShownOnceActive(i) ==
  /\ Live(i)
  /\ queue[i].part.chars > 0
  /\ ShownPhrases(queue[i], lastFrame) # {}
  => queue[i].tex # NoTexture

\* A caption that arrives while ImGui and the shaper are up becomes visible when
\* its first phrase is due: the lazy build of UpdateQueue never forgets one.
NoLateCaptionInvisible ==
  rpc = "updated" /\ shaper =>
    \A i \in DOMAIN queue : ~queue[i].early => ShownOnceActive(i)

\* A part of an <sb> caption does not fade in before its window starts.
FutureInvisible ==
  \A i \in DOMAIN queue : lastFrame < queue[i].start => queue[i].opacity = 0

\* Only a caption that was never visible can leave the queue with its texture:
\* a fade-out always ends with a release.
LeakOnlyUnseen == leaked \cap seen = {}

\* A colour set by a tag survives every rebuild as long as the user has not
\* changed the text colour.
TagColourKept ==
  \A i \in DOMAIN queue :
    queue[i].part.tagged /\ i \notin recoloured => queue[i].ink = TagInk

\* The snapshot of the font paths in a live entry is never out of date: every
\* write of the configuration reloads the fonts in the same critical section.
FontSnapshotCurrent ==
  \A i \in DOMAIN queue :
    ~queue[i].expired => queue[i].look["font"] = cfg["font"]

\* When ShowPreview is done, every preview it pushed bears the mark by which
\* ClearPreview finds it, though captions of the game may have come between.
PreviewMarked ==
  \A i \in DOMAIN queue :
    queue[i].origin = "preview" /\ rpc # "marking" => queue[i].isPreview

\* A caption of the game is never taken for a preview.
GameCaptionNotPreview ==
  \A i \in DOMAIN queue : queue[i].origin = "game" => ~queue[i].isPreview

\* An entry leaves the queue only when its time is over, or as a preview, or
\* because Save or Reset reloads the font.
NoEarlyRemoval ==
  [][\A i \in DOMAIN queue \ DOMAIN queue' :
       \/ now >= queue[i].start + queue[i].duration
       \/ queue[i].isPreview
       \/ rpc = "ui"]_vars

\* Opacity rises while a caption is live and falls once it has expired, and an
\* expired caption does not come back.
FadeDirection ==
  [][\A i \in DOMAIN queue \cap DOMAIN queue' :
       IF queue'[i].expired THEN queue'[i].opacity <= queue[i].opacity
       ELSE ~queue[i].expired /\ queue'[i].opacity >= queue[i].opacity]_vars

\* Every entry leaves the queue in the end, as long as the game presents frames.
EventuallyGone ==
  \A i \in 1..MaxPushed :
    (i \in DOMAIN queue) ~> (i \notin DOMAIN queue)
-----------------------------------------------------------------------------
(* What CaptionQueue implements. *)

Stage(e) == IF e.expired THEN "leaving"
            ELSE IF e.opacity > 0 THEN "shown" ELSE "waiting"

Lives == [i \in DOMAIN queue |->
            [stage |-> Stage(queue[i]), from |-> queue[i].start,
             until |-> queue[i].start + queue[i].duration]]

Life == INSTANCE CaptionLife
          WITH sent <- pushed, life <- Lives,
               panel <- rpc \in {"ui", "preview", "clearing"}

\* UpdateQueue, SetCaptionText and the settings panel together give every caption
\* the life CaptionLife describes, whatever the two threads interleave.
LifeSpec == Life!Spec
=============================================================================
