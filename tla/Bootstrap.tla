------------------------------ MODULE Bootstrap ------------------------------
(***************************************************************************)
(* The life of the library in the game's process: MainThread installs the   *)
(* hooks one by one, while the game already calls through those that are    *)
(* enabled; the first Present builds the shaper; a host that wants to unload *)
(* the library calls Renderer::Shutdown.  Four threads share m_CS, two      *)
(* flags, the clock, the shaper and the queue of captions.                  *)
(*                                                                         *)
(* The critical sections of a frame are atomic steps, that of               *)
(* SetCaptionText and that of Shutdown are not: what they test and do after *)
(* EnterCriticalSection are steps of their own.  So are the steps in which   *)
(* the first Present makes the shaper, outside m_CS: a caption may come     *)
(* between any two of them.  A caption is what matters here: when it starts *)
(* and whether it is a sound effect.                                        *)
(*                                                                         *)
(* The host calls Shutdown once MainThread has ended (DllMain: "shutdown     *)
(* must be coordinated by the host").  Captions and frames go on during and *)
(* after it, as no hook is removed.  What is undefined then, the use of a    *)
(* deleted lock or shaper, ends in a crash or goes on as if nothing were.    *)
(***************************************************************************)
EXTENDS Integers, FiniteSets, Sequences

CONSTANTS
  Duration,  \* ticks a caption stays in the queue
  MaxQueued, \* bound: no caption is sent while there are so many in the queue
  MaxTime    \* bound on the clock

ASSUME TimeAssumption == {Duration, MaxQueued, MaxTime} \subseteq Nat

VARIABLES
  running,      \* FALSE once the process has crashed
  now,          \* QueryPerformanceCounter
  origin,       \* g_QPCStart
  counting,     \* g_QPCFreq > 0
  hooks,        \* the hooks in place; one that is created and not enabled does nothing
  lock,         \* m_CS: "none", "ready" or "deleted"
  owner,        \* the thread that holds m_CS
  lockMade,     \* m_CSInitialized
  shuttingDown, \* m_ShuttingDown
  sfxGlobal,    \* m_cc_subtitlesGlobal is not null
  hideSfx,      \* the game's cc_subtitles
  imgui,        \* m_ImguiInitialized
  shaper,       \* m_Shaper: "none", "there" or "deleted", a pointer to what is gone
  filled,       \* how many of the shaper's fields are set, in the order of Fields
  queue,        \* m_Queue
  main, game, render, host,  \* where each thread is
  call          \* the caption hkProcess is working on

clock == <<now, origin, counting>>
sync == <<lock, owner, lockMade, shuttingDown>>
ui == <<imgui, shaper, filled>>
vars == <<running, clock, hooks, sync, sfxGlobal, hideSfx, ui,
          queue, main, game, render, host, call>>

\* The functions of the game that call into this module.
Targets == {"Process", "Present"}

\* The pointers of a TextShaper in the order in which Initialize and then
\* InitializeFallback set them.
Fields == <<"m_FT", "m_Face", "m_HBFont", "m_HBBuffer", "m_FaceFallback",
            "m_HBFontFallback">>
Has(field) == \E i \in 1..filled : Fields[i] = field

Caption == [start: Int, sfx: BOOLEAN, early: BOOLEAN]
Call == [sfx: BOOLEAN, start: Int, early: BOOLEAN, shapes: BOOLEAN]

MainSteps == {"sync", "minhook", "scan", "global", "process", "initialize",
              "clock", "present", "resize", "done"}
GameSteps == {"idle", "entering", "testing", "shaping"}
RenderSteps == {"idle", "newShaper", "fonts", "font", "drop", "dropped",
                "fallbacks", "fallback", "begin", "update", "draw"}
HostSteps == {"idle", "entering", "releasing", "leaving", "deleting", "done"}
-----------------------------------------------------------------------------
(* The clock *)

\* GetTimeQPC.
Time == IF counting THEN now - origin ELSE 0

Tick ==
  /\ now < MaxTime
  /\ now' = now + 1
  /\ UNCHANGED <<running, origin, counting, hooks, sync,
                 sfxGlobal, hideSfx, ui, queue, main, game, render, host, call>>
-----------------------------------------------------------------------------
(* MainThread *)

\* MH_CreateHook and MH_EnableHook may fail.  Only the second changes what the
\* game does: it patches the target while all other threads are suspended.
EnableHook(target) == hooks' = hooks \cup {target}

\* MainThread goes from one step to one of the next ones, and leaves the other
\* threads where they are.
MainGoes(from, to) ==
  /\ main = from
  /\ main' \in to
  /\ UNCHANGED <<running, now, owner, hideSfx, ui, queue, game, render, host, call>>

\* What EnsureSynchronization does to the lock and to the clock.
EnsureSynchronization ==
  /\ shuttingDown' = FALSE
  /\ lockMade' = TRUE
  /\ lock' = IF lockMade THEN lock ELSE "ready"
  /\ counting' = TRUE
  /\ origin' = IF counting THEN origin ELSE now

\* Mutant: the lock is left to Renderer::Initialize.
SynchronizeLater ==
  /\ MainGoes("sync", {"minhook"})
  /\ UNCHANGED <<lock, lockMade, shuttingDown, origin, counting, hooks,
                 sfxGlobal>>

\* The lock is made before MinHook is started ...
Synchronize ==
  /\ MainGoes("sync", {"minhook"})
  /\ EnsureSynchronization
  /\ UNCHANGED <<hooks, sfxGlobal>>

\* Mutant: the captions are hooked before cc_subtitles is looked for.
ScanAndHook ==
  /\ \/ MainGoes("minhook", {"scan", "done"}) /\ UNCHANGED hooks
     \/ MainGoes("scan", {"global"}) /\ EnableHook("Process")
     \/ MainGoes("scan", {"initialize"}) /\ UNCHANGED hooks
  /\ UNCHANGED <<origin, counting, lock, lockMade, shuttingDown, sfxGlobal>>

\* ... then MinHook is started, and the hooks of user32 are made, which call
\* nothing of this module; then comes FindSignature, for up to thirty seconds.
Scan ==
  /\ \/ MainGoes("minhook", {"scan", "done"})
     \/ MainGoes("scan", {"global", "initialize"})
  /\ UNCHANGED <<origin, counting, lock, lockMade, shuttingDown, hooks, sfxGlobal>>

\* cc_subtitles may not be found.
StoreGlobal ==
  /\ MainGoes("global", {"process"})
  /\ sfxGlobal' \in BOOLEAN
  /\ UNCHANGED <<origin, counting, lock, lockMade, shuttingDown, hooks>>

\* The hook of the captions, which may fail to be created or to be enabled.
HookProcess ==
  /\ MainGoes("process", {"initialize"})
  /\ EnableHook("Process") \/ UNCHANGED hooks
  /\ UNCHANGED <<origin, counting, lock, lockMade, shuttingDown, sfxGlobal>>

\* Renderer::Initialize: EnsureSynchronization again, ...
Initialize ==
  /\ MainGoes("initialize", {"clock"})
  /\ EnsureSynchronization
  /\ UNCHANGED <<hooks, sfxGlobal>>

\* ... then HookPresent, which first sets the clock to zero, ...
SetClock ==
  /\ MainGoes("clock", {"present"})
  /\ counting' = TRUE
  /\ origin' = now
  /\ UNCHANGED <<lock, lockMade, shuttingDown, hooks, sfxGlobal>>

\* ... makes a device to find the addresses with and hooks Present; ...
HookPresent ==
  /\ MainGoes("present", {"resize", "done"})
  /\ IF main' = "done" THEN UNCHANGED hooks ELSE EnableHook("Present")
  /\ UNCHANGED <<origin, counting, lock, lockMade, shuttingDown, sfxGlobal>>

\* Mutant: the clock is set when all hooks are in place.
HookResizeThenSetClock ==
  /\ MainGoes("resize", {"done"})
  /\ origin' = now
  /\ UNCHANGED <<counting, lock, lockMade, shuttingDown, hooks, sfxGlobal>>

\* ... the hook of ResizeBuffers, which may fail, ends MainThread.
HookResize ==
  /\ MainGoes("resize", {"done"})
  /\ UNCHANGED <<origin, counting, lock, lockMade, shuttingDown, hooks, sfxGlobal>>

MainThread ==
  \/ Synchronize \/ Scan \/ StoreGlobal \/ HookProcess
  \/ Initialize \/ SetClock \/ HookPresent \/ HookResize
-----------------------------------------------------------------------------
(* hkProcess and SetCaptionText, on the game's thread *)

Acquire(thread) == lock = "ready" /\ owner = "nobody" /\ owner' = thread
Release == owner' = "nobody"

GameGoes(from, to) ==
  /\ game = from
  /\ game' = to
  /\ UNCHANGED <<now, origin, counting, hooks, lock, lockMade,
                 shuttingDown, sfxGlobal, hideSfx, ui, main, render, host>>

\* A new caption, of which only the kind is known yet.
Fresh(sfx) == [sfx |-> sfx, start |-> 0, early |-> FALSE, shapes |-> FALSE]

\* Mutant: m_ShuttingDown is looked at under the lock only.
CaptionAlways(sfx) ==
  /\ "Process" \in hooks
  /\ ~(sfx /\ sfxGlobal /\ hideSfx)
  /\ Cardinality(queue) < MaxQueued
  /\ GameGoes("idle", "entering")
  /\ call' = Fresh(sfx)
  /\ UNCHANGED <<running, owner, queue>>

\* The game sends a caption.  A sound effect that the game's setting hides, and
\* any caption once m_ShuttingDown is set, go no further.
SendCaption(sfx) ==
  /\ "Process" \in hooks
  /\ ~(sfx /\ sfxGlobal /\ hideSfx)
  /\ ~shuttingDown
  /\ Cardinality(queue) < MaxQueued
  /\ GameGoes("idle", "entering")
  /\ call' = Fresh(sfx)
  /\ UNCHANGED <<running, owner, queue>>

EnterCaption ==
  /\ Acquire("game")
  /\ GameGoes("entering", "testing")
  /\ UNCHANGED <<running, queue, call>>

\* Entering a lock that is not there is undefined: the process crashes, or the
\* call gets through and leaves at the second test.
EnterNoLock ==
  /\ lock # "ready"
  /\ GameGoes("entering", "idle")
  /\ running' \in BOOLEAN
  /\ call' = Fresh(FALSE)
  /\ UNCHANGED <<owner, queue>>

LeaveAtTest ==
  /\ shuttingDown
  /\ GameGoes("testing", "idle")
  /\ Release
  /\ call' = Fresh(FALSE)
  /\ UNCHANGED <<running, queue>>

\* RenderEntryTexture looks for a shaper with a font; what it finds in one that
\* is deleted is undefined.
FindsShaper ==
  IF imgui /\ shaper = "deleted" THEN BOOLEAN
  ELSE {imgui /\ shaper = "there" /\ Has("m_FT")}

\* The caption starts now.
Stamped(shapes) == [call EXCEPT !.start = Time,
                                !.early = main \in {"initialize", "clock"},
                                !.shapes = shapes]

\* Mutant: no second test of m_ShuttingDown.
StampUntested ==
  /\ GameGoes("testing", "shaping")
  /\ \E shapes \in FindsShaper : call' = Stamped(shapes)
  /\ UNCHANGED <<running, owner, queue>>

StampCaption ==
  /\ ~shuttingDown
  /\ GameGoes("testing", "shaping")
  /\ \E shapes \in FindsShaper : call' = Stamped(shapes)
  /\ UNCHANGED <<running, owner, queue>>

\* ShapeLine tests the font, and not the buffer it fills nor, before it takes the
\* font of a span from it, the fallback's HarfBuzz font.
Torn ==
  \/ shaper # "there"
  \/ Has("m_HBFont") /\ ~Has("m_HBBuffer")
  \/ Has("m_FaceFallback") /\ ~Has("m_HBFontFallback")

\* A caption shaped with a shaper that is deleted or half made may crash.
PushCaption ==
  /\ GameGoes("shaping", "idle")
  /\ running' \in IF call.shapes /\ Torn THEN BOOLEAN ELSE {TRUE}
  /\ queue' = queue \cup
       {[start |-> call.start, sfx |-> call.sfx, early |-> call.early]}
  /\ Release
  /\ call' = Fresh(FALSE)

InCaption == EnterCaption \/ EnterNoLock \/ LeaveAtTest \/ StampCaption \/ PushCaption
-----------------------------------------------------------------------------
(* hkPresent *)

RenderGoes(from, to) ==
  /\ render = from
  /\ render' = to
  /\ UNCHANGED <<now, origin, counting, hooks, sync, sfxGlobal,
                 hideSfx, main, game, host, call>>

\* The first Present, or the first after Shutdown; GetDesc, GetDevice or a backend
\* of ImGui may fail, and the frame ends without having drawn.
InitImGui ==
  /\ "Present" \in hooks
  /\ ~imgui
  /\ RenderGoes("idle", "newShaper")
  /\ imgui' = TRUE
  /\ UNCHANGED <<running, shaper, filled, queue>>

NewShaper ==
  /\ RenderGoes("newShaper", "fonts")
  /\ shaper' = "there"
  /\ filled' = 0
  /\ UNCHANGED <<running, imgui, queue>>

\* Without a font file the shaper stays as it is and can have no fallback; with
\* one, Initialize is called through m_Shaper, which Shutdown may have set to null.
LoadFont ==
  /\ \/ RenderGoes("fonts", "begin") /\ UNCHANGED running
     \/ RenderGoes("fonts", "drop") /\ running' = (shaper = "there")
     \/ RenderGoes("fonts", "font") /\ running' = (shaper = "there")
  /\ UNCHANGED <<ui, queue>>

\* Initialize sets the fields one after the other, then InitializeFallback its two.
SetField(step, last, next) ==
  /\ shaper = "there"
  /\ RenderGoes(step, IF Fields[filled + 1] = last THEN next ELSE step)
  /\ filled' = filled + 1
  /\ UNCHANGED <<running, imgui, shaper, queue>>

PublishFont == SetField("font", "m_HBBuffer", "fallbacks")

\* InitializeFallback opens the second font in the library of the first.  There
\* may be none configured, it may fail, and Shutdown may have taken the shaper.
LoadFallback ==
  /\ \/ RenderGoes("fallbacks", "begin")
     \/ shaper = "there" /\ RenderGoes("fallbacks", "fallback")
  /\ UNCHANGED <<running, ui, queue>>

PublishFallback == SetField("fallback", "m_HBFontFallback", "begin")

\* Shutdown has deleted the shaper that is being initialized.
PublishInVain ==
  /\ shaper # "there"
  /\ RenderGoes("font", "begin") \/ RenderGoes("fallback", "begin")
  /\ running' \in BOOLEAN
  /\ UNCHANGED <<ui, queue>>

\* A font that cannot be loaded costs the shaper its life: it is deleted, ...
DropShaper ==
  /\ RenderGoes("drop", "dropped")
  /\ shaper' = IF shaper = "there" THEN "deleted" ELSE shaper
  /\ UNCHANGED <<running, imgui, filled, queue>>

\* ... and then m_Shaper is set to null.
ForgetShaper ==
  /\ RenderGoes("dropped", "begin")
  /\ shaper' = "none"
  /\ UNCHANGED <<running, imgui, filled, queue>>

\* A frame begins with ImGui, be it new or not, ...
BeginFrame ==
  /\ imgui
  /\ RenderGoes("begin", "update")
  /\ UNCHANGED <<running, ui, queue>>

LaterPresent ==
  /\ "Present" \in hooks
  /\ imgui
  /\ RenderGoes("idle", "update")
  /\ UNCHANGED <<running, ui, queue>>

\* ... and is over if Shutdown has taken it meanwhile.
SkipFrame ==
  /\ ~imgui
  /\ RenderGoes("begin", "idle")
  /\ UNCHANGED <<running, ui, queue>>

\* A Present on another swap chain shuts the ImGui backend down and then calls
\* into it: ImGui_ImplDX11_InvalidateDeviceObjects reads through the null pointer
\* that ImGui_ImplDX11_Shutdown has left.
OtherSwapChain ==
  /\ "Present" \in hooks
  /\ imgui
  /\ RenderGoes("idle", "idle")
  /\ running' = FALSE
  /\ UNCHANGED <<ui, queue>>

\* A critical section of a frame uses ImGui, which crashes after Shutdown has
\* released it.  Entering a deleted lock crashes or gets through.
FrameSection ==
  \/ lock = "ready" /\ owner = "nobody" /\ running' = imgui
  \/ lock # "ready" /\ running' \in {FALSE, imgui}

\* UpdateQueue lets the captions go whose time is over.
UpdateQueue ==
  /\ FrameSection
  /\ RenderGoes("update", "draw")
  /\ queue' = {c \in queue : Time - c.start < Duration}
  /\ UNCHANGED ui

\* DrawCaptions and RenderDrawData wait for m_CS as well.
Draw ==
  /\ FrameSection
  /\ RenderGoes("draw", "idle")
  /\ UNCHANGED <<ui, queue>>

InPresent == \/ NewShaper \/ LoadFont \/ PublishFont \/ LoadFallback
             \/ PublishFallback \/ PublishInVain \/ DropShaper \/ ForgetShaper
             \/ BeginFrame \/ SkipFrame \/ UpdateQueue \/ Draw
-----------------------------------------------------------------------------
(* Renderer::Shutdown, on a thread of the host *)

HostGoes(from, to) ==
  /\ host = from
  /\ host' = to
  /\ UNCHANGED <<clock, hooks, sfxGlobal, hideSfx, main, game, render, call>>

Shutdown ==
  /\ main = "done"
  /\ lockMade \/ imgui \/ shaper # "none" \/ queue # {}
  /\ HostGoes("idle", "entering")
  /\ shuttingDown' = TRUE
  /\ UNCHANGED <<running, lock, owner, lockMade, ui, queue>>

\* Mutant: Shutdown relies on its flag and does not wait for m_CS.
EnterShutdownAtOnce ==
  /\ HostGoes("entering", "releasing")
  /\ UNCHANGED <<running, lock, owner, lockMade, shuttingDown, ui, queue>>

EnterShutdown ==
  /\ Acquire("host")
  /\ HostGoes("entering", "releasing")
  /\ UNCHANGED <<running, lock, lockMade, shuttingDown, ui, queue>>

\* The first Present may just have deleted the shaper as well.
ReleaseAll ==
  /\ HostGoes("releasing", "leaving")
  /\ running' \in IF shaper = "deleted" THEN BOOLEAN ELSE {TRUE}
  /\ queue' = {}
  /\ shaper' = "none" /\ filled' = 0
  /\ imgui' = FALSE
  /\ UNCHANGED <<sync>>

LeaveShutdown ==
  /\ HostGoes("leaving", "deleting")
  /\ Release
  /\ lockMade' = FALSE
  /\ UNCHANGED <<running, lock, shuttingDown, ui, queue>>

DeleteLock ==
  /\ HostGoes("deleting", "done")
  /\ lock' = "deleted"
  /\ UNCHANGED <<running, owner, lockMade, shuttingDown, ui, queue>>

InShutdown == EnterShutdown \/ ReleaseAll \/ LeaveShutdown \/ DeleteLock
-----------------------------------------------------------------------------
Init ==
  /\ running = TRUE
  /\ now = 0 /\ origin = 0 /\ counting = FALSE
  /\ hooks = {}
  /\ lock = "none" /\ owner = "nobody"
  /\ lockMade = FALSE /\ shuttingDown = FALSE
  /\ sfxGlobal = FALSE /\ hideSfx \in BOOLEAN
  /\ imgui = FALSE /\ shaper = "none" /\ filled = 0
  /\ queue = {}
  /\ main = "sync" /\ game = "idle" /\ render = "idle" /\ host = "idle"
  /\ call = Fresh(FALSE)

Next ==
  /\ running
  /\ \/ Tick
     \/ MainThread
     \/ \E sfx \in BOOLEAN : SendCaption(sfx)
     \/ InCaption
     \/ InitImGui \/ LaterPresent \/ OtherSwapChain \/ InPresent
     \/ Shutdown \/ InShutdown

Spec == Init /\ [][Next]_vars

\* A thread that is in a call of ours goes on; nobody has to make a call, and
\* whoever waits for m_CS may see it taken again and again.
FairSpec ==
  /\ Spec
  /\ WF_vars(running /\ InCaption)
  /\ WF_vars(running /\ InPresent)
  /\ WF_vars(running /\ InShutdown)
-----------------------------------------------------------------------------
(* Properties *)

\* The types of the variables.
TypeOK ==
  /\ running \in BOOLEAN
  /\ now \in Nat /\ origin \in Nat /\ counting \in BOOLEAN
  /\ hooks \subseteq Targets
  /\ lock \in {"none", "ready", "deleted"}
  /\ owner \in {"nobody", "game", "host"}
  /\ lockMade \in BOOLEAN /\ shuttingDown \in BOOLEAN
  /\ sfxGlobal \in BOOLEAN /\ hideSfx \in BOOLEAN
  /\ imgui \in BOOLEAN /\ shaper \in {"none", "there", "deleted"}
  /\ filled \in 0..Len(Fields)
  /\ queue \subseteq Caption
  /\ main \in MainSteps /\ game \in GameSteps
  /\ render \in RenderSteps /\ host \in HostSteps
  /\ call \in Call

\* No hook runs before the lock it takes has been made, whatever the order in
\* which MainThread, the game and the frames get going (renderer.h:107).
LockBeforeHooks ==
  game # "idle" \/ render # "idle" => lock # "none"

\* No sound effect that the game's setting hides is ever queued: the setting is
\* looked up before the first caption can come (renderer.h:92).
HiddenSfxNeverQueued ==
  sfxGlobal /\ hideSfx => \A c \in queue : ~c.sfx

\* A caption never starts ahead of the clock, but for one that came before
\* HookPresent set the clock to zero.
NoCaptionAhead ==
  \A c \in queue : c.start > Time => c.early

\* From the moment Shutdown has released everything no caption comes back, not
\* even that of a call that had passed the first test of m_ShuttingDown.  (ImGui
\* and the shaper do come back: with the next Present.)
NothingAfterShutdown ==
  host \in {"leaving", "deleting", "done"} => queue = {}

\* Shutdown ends, unless the process crashes, although the game may keep sending
\* captions: the flag set first keeps them away from the lock.
ShutdownEnds == (host = "entering") ~> (host = "done" \/ ~running)

\* A shaper that is complete is not taken from a caption that is being shaped:
\* Shutdown waits for m_CS, and no later Present makes another.
Complete == shaper = "there" /\ Has("m_HBBuffer")
ShaperOutlivesUse == [][game = "shaping" /\ Complete => Complete']_vars

\* What the documentation says of m_CS (architecture.md:93), that it is there "to
\* avoid shape-while-mutating races": no caption is being shaped while the first
\* Present sets or deletes the fields of the shaper.
NoShapeWhileMutating ==
  game = "shaping" /\ call.shapes => render \notin {"font", "fallback", "dropped"}
=============================================================================
