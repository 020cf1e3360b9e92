# Hlyx Caption: TLA+ models and proofs

Hlyx Caption is a DLL that Half-Life: Alyx loads in place of `wininet.dll`. It
hooks the game's closed captions, shapes and renders them itself (Arabic
included), draws them over the game's Direct3D 11 frames, and has an HTML
settings panel (Ultralight) on F10. This directory holds TLA+ models of its
stateful parts, TLC runs on small instances, and theorems checked by TLAPS for
every value of the constants.

Paths below are relative to `src/HlyxCaption/` unless they start with `src/`.

## 1. Inventory

### Threads and locks

| thread | enters through | what it does |
|---|---|---|
| main thread of the DLL | `MainThread` (hooks.cpp) | loads the configuration, waits for the game's modules, creates the hooks, ends |
| caption thread of the game | `hkProcess` (hooks.cpp:363) | parses a caption and pushes it with `SetCaptionText` |
| render thread | `hkPresent` (renderer.cpp:406) | `UpdateQueue`, `DrawCaptions`, `UltralightManager::Render`, with all of the page's JavaScript |
| message thread | `Renderer::WndProc` (renderer.cpp:1048) | F10, F11, input for the panel |

`Renderer::m_CS` (a recursive critical section) guards the queue, the shaper and
most uses of `g_Config`; `UltralightManager::m_EventMutex` guards the input
queue and the mailbox of the visibility label. `m_SettingsOpen`, `m_Open` and
`m_OverlayVisible` are atomics, read and written in several steps. The page
(`bindings.js`) talks to native code through flags (`window.__saveRequested`,
`__panelHidden`, ...) that `Render` polls once a frame.

### Components

| component | state | operations | correct when |
|---|---|---|---|
| Caption queue (`caption_queue.cpp`) | `m_Queue`: entries with start, duration, opacity, texture and snapshots of the settings it was made with | `SetCaptionText`, `UpdateQueue`, `ShowPreview`, `ClearPreview` | a caption shows in its window and never outside; what is drawn is due and as configured; textures are neither used after release nor lost |
| Frame (`hkPresent`) | `g_LastFrameQPC`, ImGui and shaper readiness | the order of update, draw, submit, panel | a texture in the draw list lives until it is submitted |
| Settings panel (`renderer.cpp`, `UltralightManager.cpp`, `bindings.js`) | two open flags, input queue, flags of the page | F10, input, `RequestCloseUI`, Save, Reset, Preview | input is not captured by an invisible panel; a close is served; no preview stays behind |
| Caption visibility | `m_OverlayVisible`, mailbox, label of the page | `ToggleCaptionVisibility` from F11 or the panel | no toggle and no request is lost; the label is true |
| Configuration (`config_parse.cpp`, `hooks.cpp`, `UltralightManager.cpp`) | settings.ini, `g_Config`, `window.__state` | `LoadConfig`, `SaveConfig`, `ResetConfig`, `RefreshAllFromConfig`, live poll | no edit is lost; a save survives; Reset restores |
| Bootstrap and `Renderer::Shutdown` (`hooks.cpp`, `renderer.cpp`) | hooks, clock, `m_CS` itself, shaper, `m_ShuttingDown` | create, enable; first Present; release, delete | nothing is used before it exists; nothing comes back after Shutdown; Shutdown ends |
| Caption parser (`caption_parser.cpp`) | format state over the parts of a caption | `ParseCaptionText`, `ParsePhraseText`, `ParseLineRuns`, `GetVisibleCharCount` | text complete and in order, styled and timed as its tags mean |
| Word wrap (`caption_texture.cpp:48-124`) | none | `RenderEntryTexture` before it shapes | no character, space or style lost; lines as full as they can be |
| Text shaping (`shaper.cpp`, `arabic_fallback.cpp`) | fonts | `ShapeLine`, `NormalizeForFace`, `SplitDirectionalRuns`, `BuildFontSpans` | each character drawn once, in its style, in visual order, in a font that has it |
| Resize (`hkResize`) | render target view | release and recreate | the view in use is the current one |
| Platform, blit, banner, cursor, wininet proxy, embedded page, MinHook, ImGui | files, GPU objects | sequential, input/output, generated or vendored | not modelled, see section 7 |

### What is hard here

* Two threads meet in the queue, and `ShowPreview` and a frame enter `m_CS`
  several times; the game pushes captions between any two of the sections.
* The two open flags of the panel are written by two threads, several loads and
  stores each, and the render thread detects an edge by three separate loads.
* A setting lives in three places, kept together by a poll every fifth frame and
  a dirty flag; Save, Reset, a close and a crash come in between.
* A texture is rebuilt only when a comparison of snapshots says so, with a
  throttle, while font reloads take snapshots as well.
* Timers of the page (400 ms) race with F10.
* Hooks run on the threads of the game as soon as each is enabled, while
  `MainThread` is still making what they use; the first Present makes the shaper
  captions shape with, and Shutdown takes it away.
* Tags may be nested, cut off or wrong, and their state outlives lines, phrases
  and `<sb>` parts.
* A line is cut three ways at once: into caption runs, into runs of one
  direction, into spans of one font; its bytes change under it twice.

`PROJECT.json` lists every such place under `hazards`, with the line and with
the property that covers it or the reason why none does.

## 2. Modules

| module | what it stands for | actors |
|---|---|---|
| `CaptionLife` | the promise: waiting, shown, leaving, gone | implemented by `CaptionQueue` (`LifeSpec`) |
| `CaptionQueue` | caption_queue.cpp, caption_texture.cpp (up to pixels), `hkPresent`, `hkProcess`, the font reloads, Save/Reset/Preview/poll as far as they reach the queue | game thread + render thread + panel |
| `SettingsPanel` | `ToggleSettingsPanel`, `WndProc`, `RequestCloseUI`, the polls of `Render`, `closePanel` and the footer of bindings.js | message thread + render thread + page |
| `CaptionVisibility` | `ToggleCaptionVisibility`, the mailbox, `setTranslationVisible` | both threads + page |
| `ConfigSync` | `LoadConfig`, `ParseConfigText`, `SaveConfig`, `ResetConfig`, `RefreshAllFromConfig`, `ApplyConfigJson`, the live poll | page + render thread + file |
| `Bootstrap` | `MainThread` from the lock to the last hook, `hkProcess`, the first and later Presents with the fields of the shaper, `Renderer::Shutdown` and the frames after it | main thread + caption thread + render thread + host |
| `CaptionMarkup` | `ParseCaptionText`, `ParsePhraseText`, `ParseLineRuns`, `GetVisibleCharCount`, one token at a time | any caption |
| `WordWrap` | the word wrap of `RenderEntryTexture`; extends `CaptionMarkup` | every line the parser returns |
| `TextShaping` | `ShapeLine` and the Arabic fallback; extends `CaptionMarkup` | every line the parser returns, every pair of fonts |
| `MC*` | values of the constants for TLC; `MCCaptionQueue` adds the endless clock | |
| `*Proofs` | the theorems and their proofs; `WordWrapProofs` continues `CaptionMarkupProofs`, `TextShapingProofs` continues `WordWrapProofs` | |

The panel appears in two modules: `CaptionQueue` has what its buttons do to the
queue (at any frame, so that it covers every order `SettingsPanel` allows), and
`SettingsPanel` has when they do it, with the queue reduced to "it holds a
preview". The same division holds for `ConfigSync`, whose Save and Reset are the
`SaveOrReset` of `CaptionQueue`. `Bootstrap` has what happens before and after the
life of `CaptionQueue` (hooks, clock, lock, shutdown), with the queue reduced to
when its captions start; `CaptionMarkup` has what `CaptionQueue` takes a text for.

### CaptionQueue

A step is a critical section of `m_CS` on either thread. `rpc` says which
section of `hkPresent` the render thread comes to next:

    idle --UpdateQueue--> updated --DrawCaptions--> drawn --SubmitDrawData--> ui
    idle --InitImGui--> shaping --NewShaper--> fonts --InitShaper--> ready --UpdateQueue--> updated
    ui --SkipUI | Save | Reset--> ... preview: ShowPreviewClear, Size, Push, Mark ... --> poll --PollConfig--> idle

* `queue` is a function from arrival numbers to entries: the vector only grows
  at its end and loses entries in place, so its order is that of the numbers.
  `SetCaptionText` pushes one entry per `<sb>` part, with the start offsets of
  caption_queue.cpp:361-376, in whole ticks where the code has floats; the last part
  takes what is left.
* An entry carries its snapshots: `sig` (the active phrases when it was
  rendered), `look` (the settings), `ink` (the colour of its runs), `rebuilt`,
  and `tex`, what was last rendered into its texture. A texture is a record of
  what it shows, so that "the drawn texture is current" can be stated.
* `UpdateQueue` is the whole function: reload on stale fonts, rebuild with the
  throttle of caption_queue.cpp:165, fade in, expire, fade out, release, erase.
* Failures: `BuildOutcomes` (texture creation) and `FontOutcomes` (font loading)
  are chosen at every attempt.

### SettingsPanel

The message thread and the render thread each have a program counter, and each
load and store of the two open flags is a step: F10 is `PressF10`,
`FlipSettingsOpen`, `LoadSettingsOpen`, `SetOpen`; a frame is `CompareOpen`,
`LoadOpened`, `RememberOpen`, `Render`, the dispatch of each event, `PollHidden`,
`CheckSettingsOpen`, `LowerSettingsOpen`, `ServeSave`/`ServeReset`,
`ServePreview`, `Update`. `page.closings` counts the calls of `closePanel` whose
transition or timer has not ended: the timer is never cancelled and a second
close starts another, so that several may be open.

### CaptionVisibility

`ToggleCaptionVisibility` is a load, a store, and a request under
`m_EventMutex`. F11 runs it on the message thread, the button on the render
thread. `odd`, `crossed` and `early` are history.

### ConfigSync

`rpc` is where the render thread is. `page` is `window.__state`: a key without a
control is `Absent` there, and so is the alignment until the user picks one,
because `wireRadio` does not seed it. `Save` is a snapshot and one `WriteKey`
per key, in the order of `SaveConfig` (`Rank`), and `Exit` may come between two of
them. `wanted` and `promise` are history: what was asked for last, and what the
next start may find.

The page gets a value by `RefreshAllFromConfig`, a number with six digits
(`Shown`), and gives it back as a string of JSON that `ApplyConfigJson` takes apart
by hand (`Applied`): escapes are not undone and every value ends at the first `,` or
`}`, with its last character taken for the closing quote. What becomes of a value
(`Received`) and whether it is one that is cut (`Cut`) are constants. Behind a cut
value the parser is out of step and may take the key that follows for a part of an
unknown one: `Before` names the setting in front of each, `Swallowed` says when.
`Travels` is the condition the promises rest on: the wanted value crosses unchanged,
and the one in front of it is not cut. `Format` and `Parse` are the file.

### Bootstrap

Each thread has a program counter, and a step is what one thread does between
two points where another may see it: `EnableHook`, `SetClock`, `NewShaper`,
`EnterCaption`, `StampCaption`. A caption is a record of when it is
stamped, whether it is a sound effect the game hides, and whether it shapes.

The first Present makes the shaper outside `m_CS`, and a caption may come between
any two of its steps: `Initialize` sets `m_FT`, `m_Face`, `m_HBFont`, `m_HBBuffer`
one by one (`PublishFont`), `InitializeFallback` its two (`PublishFallback`), and a
shaper without font is deleted (`DropShaper`) before `m_Shaper` is null
(`ForgetShaper`). `filled` counts the fields; `FindsShaper` is what a caption sees,
`Torn` says that what it shapes with is half made or gone.

No hook is removed, and `hkPresent` does not test `m_ShuttingDown`: frames go on
during and after Shutdown, in the ImGui context it has released or in one that
the next Present makes again, with a new shaper. A caption or a frame may also enter a
lock that is deleted (`EnterNoLock`, `FrameSection`), which is what
renderer.cpp:1237 leaves open. Whatever is undefined then ends in a crash
(`running`) or goes on as if nothing were. The host calls Shutdown once MainThread
has ended; nothing in the repository calls it, and DllMain (hooks.cpp:626-628) only
says that it must be coordinated.

### CaptionMarkup

`raw` is the caption as far as it is read, a sequence of tokens: characters,
spaces, tags well-formed and not, `<` that nothing closes. The code cuts the text
first at `<sb>`, then at `<delay:`, then at `<cr>`, and only then looks for tags;
`open` says which `<` is still without its `>`, and so what the next token is
read as. `ParseCaptionText` is what the code returns of the caption so far, and
every prefix of a caption is a caption. The properties are said of `raw` as a
whole (`Meant`, `Shown`, `Delays`), with no stack and no state.

### WordWrap and TextShaping

Both are functions of the lines of a state of `CaptionMarkup`, so that they
are checked on what the parser can return and on nothing else. A character
carries its place in the caption, by which a glyph or a wrapped line is compared
with its origin. In `TextShaping` the pairs of fonts are quantified in the
properties: each line is shaped in every pair.

## 3. Runs

Times are with two workers.

| run | checks | instance | distinct states |
|---|---|---|---|
| `captions` | `TypeOK`, `DrawnTexturesAlive`, `PreviewMarked`, `DrawnIsCurrent`, `NoLateCaptionInvisible`, `FontSnapshotCurrent`, `TagColourKept`, `FadeDirection`, `NoEarlyRemoval`, `LifeSpec`, `InkInStep` | captions in two `<sb>` parts (tagged, delayed, sound effect), phrases in and out of order, the preview, four looks, time 0..5 | 5 902 941 |
| `failures` | `LeakOnlyUnseen`, `EventuallyGone` | every texture and font attempt may fail, a change of fonts, endless clock | 120 356 |
| `panel` | `NoInvisibleCapture`, `NoGhostPreview`, `CloseServed` | all five clicks, F10 without limit, an event queue that overflows, two closes under way, fairness | 1 616 044 |
| `label` | `LastRequestShown`, `LabelCurrent`, `NoToggleLost` | complete: the module has no constants | 2 000 |
| `config` | `ConfigIsWanted`, `PanelShowsConfig`, `SavedSurvives` | a slider, the language, a font, the alignment behind it and a setting of the file alone; plain values, one too long for page and file, a path with backslashes, a name with a comma, a text that cannot be read | 7 298 155 |
| `unload` | `LockBeforeHooks`, `HiddenSfxNeverQueued`, `NoCaptionAhead`, `NothingAfterShutdown`, `ShaperOutlivesUse`, `ShutdownEnds` | captions and frames without limit, before, during and after Shutdown, two in the queue, time 0..3, fairness | 550 013 |
| `text` | `StyleAsMeant`, `RunsMaximal`, `TextComplete`, `CountIsShown`, `LinesAsBroken`, `WrapKeepsText`, `WrapKeepsWords`, `WrapGreedy` | every caption of up to five of thirteen tokens, lines of two letters | 1 347 374 |
| `shape` | `GlyphsKeepStyle`, `WrittenOnce`, `BestFont`, `MixedLinesOrdered` | every caption of up to four of eight tokens, six pairs of fonts | 18 724 |
| `mixup` | `GameCaptionNotPreview`, violated | | |
| `ends` | `PreviewEndsWithPanel`, violated | | |
| `reset` | `ResetRestores`, violated | | |
| `race` | `NoShapeWhileMutating`, violated | | |

Deadlock is checked except where the system really stops: a caption that has
been read to its end (`text`, `shape`) and a process that has crashed or in which
MainThread, the clock and Shutdown have come to an end (`unload`, `race`).

### Bounds, and why they are enough

* `MaxPushed`, `MaxTime` (CaptionQueue): the run is long enough for a caption
  to arrive early, wait, be rebuilt within and beyond the throttle (2 ticks),
  fade in (2 ticks), expire, fade out (2 ticks) and leave; two entries are a
  preview and a caption, or the two parts of one. Every property of the run but
  `TypeOK`'s bound on the clock is proved for all bounds.
* `Capacity`, `MaxQueued` (SettingsPanel): 256 in the code. Two events arrive
  before a frame and one fits, so that each event may be the one that is lost.
* `MaxClosings`: no more closes under way at a time; two is a close clicked
  again during its animation.
* ConfigSync has no bounds. One key of each kind suffices for the
  runs, because the only actions that relate two keys are a snapshot with a cut
  value in it, which reaches the next key and no further, and the writes of Save,
  one after another; the proofs are for any number and any `Before`.
* `MaxTime`, `MaxQueued`, `Duration` (Bootstrap): the clock is at 2 or more when
  it is set back, a caption of duration 2 is then ahead of it, and the second
  caption is one that comes after that.
* `MaxLength` (CaptionMarkup, TextShaping): five tokens open two colours, close
  one and show a character, or put a tag, a break or a delay into a tag that is
  not closed; three are needed for each rule of `Resolve`, four for Latin,
  Arabic, a number and Latin again.
* `MaxWidth` (WordWrap): with lines of two letters a word is shorter, as long,
  and longer than a line.

`MCCaptionQueue!ForeverSpec` has no last tick: at `MaxTime` the clock stands
still and every other time moves one tick back (`Rebase`). `CaptionQueue` looks
only at differences of times, and times long past stay at a value older than the
throttle.

### Fairness

* `ForeverSpec`: `WF(Present)`, the game goes on presenting frames, and
  `WF(Tick \/ Rebase)`, time passes. Nothing is assumed of the game thread, of
  the user, or of the outcome of an attempt.
* `FairSpec` of SettingsPanel: `WF(WindowFinishes)`, a message handler that has
  begun returns; `WF(Present)`; and strong fairness of the `Update` that ends
  the open closings, because the 400 ms timer of `closePanel` (bindings.js:601)
  fires in some frame and `Update` runs in every frame, whether the panel is open
  or closed. It is strong because `Update` is one step of a frame and is disabled
  by the others. Neither F10 nor a click is assumed.
* `FairSpec` of Bootstrap: a caption, a frame and a Shutdown that are under way
  go on (`WF(InCaption)`, `WF(InPresent)`, `WF(InShutdown)`), which is what a
  scheduler does. Nobody has to make a call, and a critical section is not fair:
  Shutdown may see the lock taken again and again, and ends only because the flag
  it sets first keeps new captions away (`ShutdownEnds`); frames, which do not test
  the flag, take it for one atomic section each. A process that has crashed does
  nothing more, and Shutdown need not end in it.

## 4. What the passing runs show

* What is drawn for a live caption shows exactly the phrases due at that frame,
  in the configured font and layout, and its ink is the configured colour or that of
  a tag. Two things may lag: the line spacing, by less than the throttle, and the colour
  of captions that a poll found when it changed colour and font together
  (`miscoloured`; `DrawnIsCurrent`). No order of delays and no change of settings
  hides a caption that arrived after start-up (`NoLateCaptionInvisible`).
* The check for stale fonts in `UpdateQueue` never fires
  (`FontSnapshotCurrent`): every other path reloads in the critical section that
  changes the fonts. It is a safety net.
* A texture in the draw list outlives it though `m_CS` is left in between
  (`DrawnTexturesAlive`): the game thread only pushes, and the parts of a frame
  that release come after the submission.
* Every caption leaves the queue, with failing textures and fonts too
  (`EventuallyGone`), and the queue implements the life `CaptionLife` describes.
* With no toggle or close under way input is never captured by a panel that is
  not rendered (`NoInvisibleCapture`), however F10 and `RequestCloseUI` race.
  The other disagreement of the two flags can occur, see below.
* Save, Reset, polls, closes and crashes in any order lose no edit and undo no
  Reset but that of the alignment, of all settings whose value crosses the bridge between page
  and `g_Config` unchanged (`ConfigIsWanted`, `PanelShowsConfig`): a value that is
  cut harms no setting but itself and the next. After a crash in the middle of
  `SaveConfig` each such setting is the old or the new one, if the file keeps it
  (`SavedSurvives`).
* However early the game calls, its hooks find their lock (`LockBeforeHooks`) and
  the setting for sound effects (`HiddenSfxNeverQueued`); a caption that was under
  way when Shutdown began leaves nothing behind (`NothingAfterShutdown`), which
  cannot be said of frames: the next one makes ImGui and the shaper again. A shaper
  whose font is complete is not taken from a caption that is being shaped, by
  Shutdown or by a later Present (`ShaperOutlivesUse`); one that is not complete may
  be, see `race` below.
* Malformed, nested and unterminated tags change neither the text nor the style
  of a caption but as they say (`StyleAsMeant`, `TextComplete`, `LinesAsBroken`);
  the durations of `<sb>` parts count exactly what is shown (`CountIsShown`),
  although `GetVisibleCharCount` skips tags by a rule of its own.
* The wrap changes no text, and neither joins nor breaks a word of one style
  (`WrapKeepsText`, `WrapKeepsWords`); no line could have taken the first word of
  the next, and none is too wide unless it is one word, by the ink alone
  (`WrapGreedy`).
* Normalization, reordering and the fallback font together neither lose nor double
  a character, keep its style (`GlyphsKeepStyle`, `WrittenOnce`), resort to the
  fallback font or to an empty box only when they must (`BestFont`), whatever
  letters the two fonts have, if a ligature counts only for a font that also has its
  letters; and leave the order to the bidirectional algorithm but where levels 0 and 2
  meet (`MixedLinesOrdered`).

## 5. Where the code does something else than it says

Shown by a run, with the quotation in `PROJECT.json`:

1. `mixup`: a caption of the game that arrives inside `ShowPreview` is marked as
   a preview, drawn at the preview position and removed with it.
2. `ends`: closing the panel from the page leaves a running preview on the
   screen, because `Render` returns before the flag that would clear it.
3. `reset`: Reset does not restore the alignment: `RefreshAllFromConfig` does
   not send it to the page and the next poll brings the old one back.
4. `race`: a caption shapes while the first Present sets the fields of the shaper
   or deletes it, outside `m_CS`; it may meet a font without a buffer, a fallback
   face without its HarfBuzz font, or memory that is freed.

Seen while modelling, excluded by a condition of a property or outside of the
models:

* Entries that were never visible lose their texture when they are erased
  (caption_queue.cpp:204); `LeakOnlyUnseen` says that no others do.
* Captions that arrive after ImGui and before the shaper is ready
  (renderer.cpp:677) stay invisible until a setting changes; `early` marks them.
* F11 and the button crossing: two toggles count as one, and the label may be
  wrong (renderer.cpp:989-992); `crossed` excludes it. A key pressed while the
  page loads never reaches the label (UltralightManager.cpp:520); `early`.
* `m_Open` set with `m_SettingsOpen` clear (UltralightManager.cpp:998), until
  the next F10; a reopening that the edge detection misses (renderer.cpp:471) or
  a timer that outlives F10 (bindings.js:601) closes the panel unasked.
* A preview that is on disappears after Save or Reset while its button stays on
  (UltralightManager.cpp:691); Reset clicked together with Save is dropped
  (UltralightManager.cpp:720).
* "a, alef, 1, a" without spaces, a line from left to right: the runs are told apart
  by the parity of their levels (shaper.cpp:187), so that the number (level 2) and the
  Latin behind it (level 0) make one run, drawn where the number belongs, the
  Latin left of the Arabic it should follow, against "Returns runs in VISUAL order"
  (shaper.cpp:153); `Meets`.
* A new font and a new text colour in one poll leave the captions on the screen
  in the old colour until the next change of it, because the font reload takes the
  snapshot of a colour it did not apply (renderer.cpp:856), although
  docs/wiki/modules/caption-pipeline.md:18 says "a color change rewrites run colors in
  place"; `DrawnIsCurrent` excepts the captions concerned (`miscoloured`),
  `InkInStep` that poll.
* What a setting loses between page and `g_Config` (UltralightManager.cpp:362-392):
  the backslashes of a path are doubled, and by Save in the file, once more after every
  restart; a name with a comma or a brace is cut there, without its last letter, and
  the next setting is not read. Save's snapshot is meant to be such that "the config
  file matches exactly what the user sees" (UltralightManager.cpp:680-682), an
  absolute path is kept selectable (bindings.js:637), and the documented
  `{ModDir}\Cairo.ttf` (config_parse.cpp:205) has a backslash; `Travels`.
* After a restart the alignment buttons show the default whatever is configured.
* Numbers are saved with two decimals, and `#` and `;` in a font's name do not
  survive `LoadConfig`; `Lasts`.
* `HookPresent` sets a new origin of time after the caption hook is enabled
  (renderer.cpp:583): captions sent before show late by as much; `early`.
* A caption that has passed the first test of `m_ShuttingDown`, and every frame, may
  enter `m_CS` after Shutdown has deleted it (renderer.cpp:1237), although
  renderer.h:106 says "Keep the lock alive for the whole DLL lifetime"; a frame then
  makes ImGui and the shaper again (renderer.cpp:409) or uses the context that is
  gone.
* A Present on another swap chain shuts the ImGui backend down and then calls into
  it (renderer.cpp:422), which crashes.
* The hooks of `ClipCursor` and `SetCapture` are created and never enabled
  (hooks.cpp:502-505).
* A space has no ink and so no width for the wrap (caption_texture.cpp:85): a
  wrapped line may be wider than the limit by its spaces. The end of a run ends a word
  (caption_texture.cpp:61): one that changes its style in the middle gets a space or
  the end of a line there, against "split lines ... at word boundaries"
  (caption_texture.cpp:48).
* A ligature that the primary font lacks is taken apart for it before the fallback
  font is asked (shaper.cpp:497): if neither has the letters they are boxes, though the
  fallback font may have the ligature; `Writes`.
* docs/wiki/modules/caption-pipeline.md says that the signature covers the first
  16 phrases; the code hashes all.
* A missing tatweel is dropped for the sake of the primary font, whether or not
  the fallback font has it; the recursion of `Resolve` is dead, because nothing in
  the table stands for another form.
* A stall of the game moves captions past their place (caption_queue.cpp:258).

## 6. Proofs

Some 18 200 obligations in eight modules, all proved. The constants are arbitrary sets and numbers under
the named assumptions of each module, the weakest the code justifies: at least
one part per caption, tag colours distinct from the configured one, positive
fade rates, non-empty sets of outcomes, a capacity of at least one; in ConfigSync
that a value is cut or not in the form the page gets if and only if it is in its own
(`BridgeAssumption`: six digits bring no comma or brace). What the bridge and the file
make of a value is arbitrary.

**`CaptionQueueProofs`.** Lemmas say of each operator on entries what it keeps
(`RenderKeeps`, `ReloadKeeps`, `RefreshKeeps`, `FadeInKeeps`, `FadeOutKeeps`,
`UpdatedKeeps`, `PushKeeps`, `PollKeeps`, `MarkKeeps`). The invariant `Inv` adds
to the properties: time does not run backwards (`ClockForward`); an expired entry
is one whose time is over (`ExpiredIsOver`); what was visible or has expired is
visible while it is in the queue, and what leaked has left it (`SeenIsVisible`,
without which `LeakOnlyUnseen` is not inductive); a colour snapshot is current
unless the user changed the colour under the entry (`ColourSnapshotCurrent`,
needed for `TagColourKept`). From it follow `TypeCorrect`, `NothingAheadOfTime`,
`NoVisibleLeak`, `TagColoursSurvive`, `FontCheckIsIdle` (the reload of
`UpdateQueue` is dead code), `DrawListIsSafe`, the action properties
`NothingRemovedEarly` and `FadesOneWay`, and `Implements`: each step of the queue
is a step of `CaptionLife` or a stutter, under the mapping `Lives`.

Its second half is about what is drawn. `PreviewInv`: an entry of
the preview is marked, or `ShowPreviewMark` is still to come and at least `before`
entries are in front of it, because captions of the game only come behind what is
there. `DrawnInv` ties a texture to its entry: `Sound` (the texture has the look of
the snapshot and shows no less than the signature had due and no more than is due
now) holds always, `Fresh` (what `DrawnIsCurrent` asks) from `UpdateQueue` to the
end of the drawing. `BuiltInv` says that with a shaper whatever the signature had
due has a texture, but for `early` entries; it needs `BuildOutcomes = {TRUE}`, as a
failed build is not retried. `InkInv` ties the ink to the snapshot: outside of a
poll's `miscoloured` captions a live entry has the ink of its colour snapshot or of a
tag, or a snapshot the next `UpdateQueue` will find to be old. They give
`PreviewsAreMarked`, `DrawnWhatIsDue` and `NoneForgotten`; `InkFollowsSnapshot` needs
only `Inv`.

**`SettingsPanelProofs`.** `NoInvisibleCapture` is not inductive: a race may set
`m_SettingsOpen` without `m_Open` for a while. `CaptureInTransit` says which
thread is then in the middle of repairing it, and `LoadedFalseStays` that
`SetOpen(false)` cannot be overtaken, because only the message thread sets
`m_SettingsOpen`. `PreviewRemembered` and `StaleRequestCleared` carry
`NoGhostPreview`.

**`CaptionVisibilityProofs`.** Two invariants: `Delivery` (what is requested
reaches the label; `TakenIsLast` is the mailbox argument: the value taken is the
last one or a newer one waits) and `Order` (what is requested is true as long as
key and button do not cross).

**`ConfigSyncProofs`.** `Wants`: the page holds what is wanted, as far as it can show
it, knows whether that will be cut, and a difference to `g_Config` is flagged dirty,
so that the poll cannot be skipped before the end of a frame. `AppliedIsWanted` is
the lemma about the bridge: what travels comes back as it is. `Keeps`: the
file as it would be loaded is within the promise, and during Save each key written
agrees with `g_Config`.

**`BootstrapProofs`.** `IInv` orders the four threads: what MainThread has passed
is there, who is in a critical section owns the lock, and after each step of
Shutdown what it has released is gone. `Made` says how many fields of the shaper are set
at each step of the first Present, and `ShaperInv` that as long as Shutdown has
not released anything nobody makes a shaper where one is. `ShaperIsKept` follows from
both: only the first Present and `ReleaseAll` change the shaper, the one only before it
is complete, the other only with `m_CS`.

**`CaptionMarkupProofs`.** `Inv`: types, and `Tidy` for every line that is open, ended
or in a phrase: no empty run, no two neighbours of one style. `AddCharKeeps` is the
lemma about the one operator that adds text; `RunsMaximal` follows. What the parser
makes of a whole caption needs more, `IInv`, the conjunction of

* `OpenInv`: `open` is "nothing" exactly if no `<` that is read still waits for its `>`,
  and "delay" exactly if the one of a `<delay:` does;
* `FormatInv`: the stack of colours is that of the colour tags `Meant` counts as open,
  and the bold and italic flags are the parity of theirs. It is what carries a format
  from one `<sb>` part to the next, and drops it at a `<delay:`;
* `StyleInv`: each character already placed has the style `Meant` gives its place;
* `PlacesInv`: the characters placed so far are those of `Shown`, each once and in order;
* `PartInv`: a part begins behind an `<sb>`;
* `BreakInv`: two characters placed share a line if and only if nothing that breaks a line
  is between them, and each phrase has the delay that came last.

`InitIInv` and `NextIInv` prove it inductive, with one step per kind of token, and
`StylesAsMeant`, `TextsComplete`, `CountsShown` and `LinesBrokenAsMeant` follow from it.

**`WordWrapProofs`** continues it. The wrap is a function of a line, so that its three
theorems need of the state only `Inv`: that the line is one. The rest is about sequences
and recursive functions, in three steps for each of `WordsOf`, `Placed` and `Join`: the
recursion has a solution (`WordsOfIs`, `PlacedIs`, `JoinIs`), one more element changes the
result by one step (`WordsOfAppend`, `PlacedAppend`, `JoinAppend`), and what holds of the
empty sequence and is kept by one more element holds of all (`InductionOnSequences`).
The inductive statements are

* `PlacedWell`: the lines packed so far and the current one are the words placed so far,
  in order; the width is that of the current line; no line is too wide unless it is one
  word, and none had room for the word that follows it (gives `WrapIsGreedy`);
* `JoinedWell`: the words of the joined runs are those that were joined, which with
  `InkedJoined` and `InkedFlat` gives `TextSurvivesWrap`; and their text is `Spaced`: it
  begins and ends with a word, has one space between words, and its neighbours are
  neighbours in a run of the caption. The converse is about pairs that touch:
  those of a line are pairs of its words (`LineWordsTouch`), and those of the words touch
  in the runs joined from them (`WordPairsTouch`); together `WordsSurviveWrap`.

Induction over data is done with sets in the place of predicates, as the induction theorems
of the library take an operator that the provers cannot instantiate: the set of lengths
at which a statement fails has a least element (`Induction`, from `WFMin` and
`NatLessThanWellFounded`).

**`TextShapingProofs`** continues both. `ShapeLine` is a function of a line, too, so
that of the state it needs only what a line is (`Inv`), and, for what is said of
characters by their places in `raw`, `ReadInv`: each letter of a line is the character
at its place and no place is there twice. The rest is about sequences that are cut,
replaced piece by piece, turned around and put together again:

* `ShapedIs`: shaping a run of one direction span by span gives its letters, each in its
  font, turned around as a whole if the run reads from right to left: the spans are
  visited in reverse and the glyphs of each are reversed. The stretches that `Stretches`
  returns partition the run (`Cover`), and none has letters of two fonts (`Uniform`);
* `LineIs`: a line is its runs of one direction, drawn in the order of their leftmost
  letters, and each is drawn exactly once. The order is that of ranks, so that it has to
  be shown that no two runs have the same leftmost place: `TurnedIs` says that one turn
  of `VisualMap` is a mirror on each stretch of high levels, hence a permutation, and
  `VisualMap` as a whole is one;
* `NormalizedBest`, `LackedLetter` and `LigatureLetters`: if the font can write any spelling
  of a letter, it has all of what `Resolve` puts in its place. `FontsAreBest`
  follows, as normalization for the fallback font starts again from what is left of the
  first;
* `Drawn` and the offsets of the caption runs: a letter that is replaced by several moves
  the boundaries of the runs with it, so that the run looked up by offset is that of the
  character. `StylesKept` follows;
* `Picked`, the glyphs of one character: it commutes with putting together, flattening
  and turning around, and the letters of one character are in one run of one direction
  (`OneRun`). `EachWrittenOnce` follows;
* `PlaceNext`: two neighbours of one level are put next to each other, so that where levels
  0 and 2 do not meet the places of a run are a stretch (`InLine`) and two runs do not
  overlap (`RunsInOrder`). With `LettersTogether` (no other letter comes between those of a
  character) the leftmost places of the characters ascend over the glyphs of a run
  (`LeadsInRun`) and from one run to the next (`LeadsAcross`): `LinesAreOrdered`. Without
  the hypothesis it is false: "a, alef, 1, a" is a counterexample.

The constants are assumed to be what arabic_fallback_data.h makes them: no form is
what another stands for, forms and what they stand for are neither Latin letters nor
digits nor a space, and no form stands for tatweels alone. Of the fonts nothing is
assumed.

Only model-checked is liveness (`EventuallyGone`, `CloseServed`, `ShutdownEnds`), as
fairness is out of the prover's reach. Every invariant and every action property of the
passing runs is a theorem.

## 7. Abstractions, and what is not modelled

* Text, glyphs and pixels are data: a caption is the delays, lengths and tags the
  parser finds, a texture the record of what went into it. The 32-bit hash of
  `CalcActivePhraseSignature` is taken to separate what it compares.
* Opacity and time are counted in steps; the elapsed time of a frame is read in
  the step that enters `m_CS`, just after it in the code. Vertical layout
  (`targetY`, `visualY`) is left out; captions that arrive before ImGui use the
  height of the screen, which nothing modelled depends on.
* A phrase never gets a duration: no path of the parser sets it.
* In `CaptionMarkup` the numbers of a tag are well-formed or not; in `WordWrap` a
  letter is as wide as its advance, 1, and a space has no ink; in `TextShaping` a
  letter is one glyph, offsets count letters, and FriBidi is given by the rules of
  the bidirectional algorithm for letters, digits and spaces. `Shape`, the white
  variant, has no caller for captions.
* The settings that reach a texture are four: colour, font, layout (size, width,
  alignment) and spacing. In ConfigSync a setting is one of four kinds, and of its value
  only what page, bridge and file make of it counts.
* A click is one event; mouse positions, hover, scrolling and focus are left out.
  Whether `closePanel` animates is chosen per click, since `__noAnim` is a
  setting. SettingsPanel begins with the page loaded; in CaptionVisibility and
  ConfigSync loading is one step. `UI_SetOpen` has no caller.
* A write of `SaveConfig` that fails (the result is ignored) is not modelled.
* In Bootstrap the critical sections of a frame are one step each. `TextShaper`'s fields
  are told apart as far as a caption looks at them; what a caption does with a torn
  shaper is a crash or nothing.
* Atomics are sequentially consistent, as the code uses the default order.

Not modelled:

* `hkResize` against `hkPresent`: whether the two can overlap depends on the
  threading of the game, which the repository does not state.
* Positions: `targetY` and `visualY`, and where alignment puts a texture.
  Arithmetic on floats that no other part depends on.
* The Ultralight platform and blit (input/output and GPU calls), the startup
  banner (one flag), the software cursor (clamped floats), the wininet proxy
  (idempotent forwarding), the embedded page (generated from the assets).
* MinHook with SlimDetours and phnt, Dear ImGui: vendored. They are 150 000 of the
  164 000 lines of the implementation, so that a model of everything the
  project itself wrote would still cover a small share of the lines.

## 8. Plan

In order of importance; all but the last are done.

1. `CaptionLife`, `CaptionQueue`: game thread, render thread, panel; proofs.
2. `SettingsPanel`, `CaptionVisibility`, `ConfigSync` with proofs.
3. `Bootstrap`: hooks, clock, first Present, Shutdown; proofs.
4. `CaptionMarkup`, `WordWrap`, `TextShaping`: the pure part, from text to glyphs;
   the parser's and the word wrap's invariants proved.
5. `DrawnIsCurrent`, `NoLateCaptionInvisible`, `PreviewMarked` proved.
6. `GlyphsKeepStyle`, `WrittenOnce`, `BestFont` and `MixedLinesOrdered` proved.
7. Resize, once the threading of the game can be stated.
