---------------------------- MODULE BootstrapProofs ----------------------------
(***************************************************************************)
(* Theorems about Bootstrap, for every number of ticks and captions.  One   *)
(* invariant, IInv, says what each thread may rely on at each of its steps; *)
(* with ShaperInv, what holds of the shaper and of ImGui while Shutdown has  *)
(* not released them, the safety properties follow.                         *)
(***************************************************************************)
EXTENDS Bootstrap, TLAPS

\* What MainThread has not done yet: before the lock nobody runs, before the
\* captions are hooked the game sends none, before Present is hooked nothing
\* is drawn.
NotYet ==
  /\ main = "sync" => lock = "none" /\ ~counting /\ ~lockMade
  /\ main # "sync" => lock # "none" /\ counting
  /\ main \in {"sync", "minhook", "scan", "global", "process"} => "Process" \notin hooks
  /\ "Process" \notin hooks => game = "idle" /\ queue = {}
  /\ main \notin {"resize", "done"} => "Present" \notin hooks
  /\ "Present" \notin hooks => render = "idle"
  /\ main # "done" => host = "idle"

\* The thread that holds m_CS is past EnterCriticalSection, and no other is.
LockHeld ==
  /\ owner = "game" <=> game \in {"testing", "shaping"}
  /\ owner = "host" <=> host \in {"releasing", "leaving"}

\* The caption under way and those in the queue obey the setting and the clock.
CallHidden == game # "idle" /\ sfxGlobal /\ hideSfx => ~call.sfx

OnTime(c) == c.early \/ c.start <= Time
Early(c) == main \in {"initialize", "clock"} => c.early

Stamps ==
  /\ origin <= now
  /\ game = "shaping" => OnTime(call) /\ Early(call)
  /\ \A c \in queue : OnTime(c) /\ Early(c)

\* While the host shuts down the flag is set, and once it has released
\* everything no call is past the second test.
Unloading ==
  host # "idle" => /\ shuttingDown
                   /\ host # "entering" /\ host # "releasing" => game # "shaping"

\* How far the shaper is made at each step of the first Present.
Made ==
  /\ filled \in 0..6
  /\ shaper = "there" =>
       /\ render \in {"fonts", "drop"} => filled = 0
       /\ render = "font" => filled \in 0..3
       /\ render = "fallbacks" => filled = 4
       /\ render = "fallback" => filled \in 4..5
  /\ render = "dropped" => shaper # "there"

IInv ==
  /\ TypeOK /\ Made /\ NotYet /\ LockHeld
  /\ CallHidden /\ HiddenSfxNeverQueued
  /\ Stamps /\ Unloading /\ NothingAfterShutdown

-----------------------------------------------------------------------------
\* The types: flags, places and records apart.
Flags ==
  /\ running \in BOOLEAN /\ counting \in BOOLEAN /\ lockMade \in BOOLEAN
  /\ shuttingDown \in BOOLEAN /\ sfxGlobal \in BOOLEAN /\ hideSfx \in BOOLEAN
  /\ imgui \in BOOLEAN

Places ==
  /\ now \in Nat /\ origin \in Nat
  /\ hooks \subseteq Targets
  /\ lock \in {"none", "ready", "deleted"}
  /\ owner \in {"nobody", "game", "host"}
  /\ shaper \in {"none", "there", "deleted"}
  /\ main \in MainSteps /\ game \in GameSteps
  /\ render \in RenderSteps /\ host \in HostSteps

LEMMA FlagsInv == Flags /\ [Next]_vars => Flags'
<1> SUFFICES ASSUME Flags, [Next]_vars PROVE Flags'
  OBVIOUS
<1> USE DEF Flags, sync, ui, clock
<1>1. CASE Tick
  BY <1>1 DEF Tick
<1>2. CASE Synchronize \/ Initialize
  BY <1>2 DEF Synchronize, Initialize, EnsureSynchronization, MainGoes
<1>3. CASE Scan \/ StoreGlobal \/ SetClock \/ HookResize
  BY <1>3 DEF Scan, StoreGlobal, SetClock, HookResize, MainGoes
<1>4. CASE HookProcess \/ HookPresent
  BY <1>4 DEF HookProcess, HookPresent, EnableHook, MainGoes
<1>5. ASSUME NEW sfx \in BOOLEAN, SendCaption(sfx) PROVE Flags'
  BY <1>5 DEF SendCaption, GameGoes, Fresh
<1>6. CASE EnterCaption \/ EnterNoLock \/ LeaveAtTest
  BY <1>6 DEF EnterCaption, EnterNoLock, LeaveAtTest, GameGoes, Fresh, Acquire, Release
<1>7. CASE StampCaption
  BY <1>7 DEF StampCaption, GameGoes
<1>8. CASE PushCaption
  BY <1>8 DEF PushCaption, GameGoes, Fresh, Release
<1>9. CASE InitImGui \/ LaterPresent \/ OtherSwapChain
  BY <1>9 DEF InitImGui, LaterPresent, OtherSwapChain, RenderGoes
<1>10. CASE NewShaper \/ LoadFont \/ DropShaper \/ ForgetShaper \/ LoadFallback
  BY <1>10 DEF NewShaper, LoadFont, DropShaper, ForgetShaper, LoadFallback, RenderGoes
<1>11. CASE PublishFont \/ PublishFallback \/ PublishInVain
  BY <1>11 DEF PublishFont, PublishFallback, PublishInVain, SetField, RenderGoes
<1>15. CASE BeginFrame \/ SkipFrame \/ UpdateQueue \/ Draw
  BY <1>15 DEF BeginFrame, SkipFrame, UpdateQueue, Draw, FrameSection, RenderGoes
<1>12. CASE Shutdown \/ EnterShutdown \/ LeaveShutdown
  BY <1>12 DEF Shutdown, EnterShutdown, LeaveShutdown, HostGoes, Acquire, Release
<1>13. CASE ReleaseAll \/ DeleteLock
  BY <1>13 DEF ReleaseAll, DeleteLock, HostGoes
<1>14. CASE UNCHANGED vars
  BY <1>14 DEF vars
<1> QED
  BY <1>1, <1>2, <1>3, <1>4, <1>5, <1>6, <1>7, <1>8, <1>9, <1>10, <1>11, <1>12, <1>13,
     <1>14, <1>15 DEF Next, MainThread, InCaption, InPresent, InShutdown

LEMMA PlacesInv == Places /\ [Next]_vars => Places'
<1> SUFFICES ASSUME Places, [Next]_vars PROVE Places'
  OBVIOUS
<1> USE DEF Places, Targets, MainSteps, GameSteps, RenderSteps, HostSteps, clock, sync, ui
<1>1. CASE Tick
  BY <1>1 DEF Tick
<1>2. CASE MainThread
  <2>1. main' \in MainSteps
    BY <1>2 DEF MainThread, MainGoes, Synchronize, Scan, StoreGlobal, HookProcess,
       Initialize, SetClock, HookPresent, HookResize
  <2>2. now' \in Nat /\ origin' \in Nat
    BY <1>2 DEF MainThread, MainGoes, Synchronize, EnsureSynchronization, Scan,
       StoreGlobal, HookProcess, Initialize, SetClock, HookPresent, HookResize
  <2>3. hooks' \subseteq Targets
    BY <1>2 DEF MainThread, Synchronize, Scan, StoreGlobal, HookProcess, EnableHook,
       Initialize, SetClock, HookPresent, HookResize
  <2>4. lock' \in {"none", "ready", "deleted"}
    BY <1>2 DEF MainThread, Synchronize, EnsureSynchronization, Scan,
       StoreGlobal, HookProcess, Initialize, SetClock, HookPresent, HookResize
  <2>5. UNCHANGED <<owner, shaper, game, render, host>>
    BY <1>2 DEF MainThread, MainGoes, Synchronize, Scan, StoreGlobal, HookProcess,
       Initialize, SetClock, HookPresent, HookResize
  <2> QED
    BY <2>1, <2>2, <2>3, <2>4, <2>5
<1>5. ASSUME NEW sfx \in BOOLEAN, SendCaption(sfx) PROVE Places'
  BY <1>5 DEF SendCaption, GameGoes, Fresh
<1>6. CASE EnterCaption \/ EnterNoLock \/ LeaveAtTest
  BY <1>6 DEF EnterCaption, EnterNoLock, LeaveAtTest, GameGoes, Fresh, Acquire, Release
<1>7. CASE StampCaption
  BY <1>7 DEF StampCaption, GameGoes
<1>8. CASE PushCaption
  BY <1>8 DEF PushCaption, GameGoes, Fresh, Release
<1>9. CASE InitImGui \/ LaterPresent \/ OtherSwapChain
  BY <1>9 DEF InitImGui, LaterPresent, OtherSwapChain, RenderGoes
<1>10. CASE NewShaper \/ LoadFont \/ DropShaper \/ ForgetShaper \/ LoadFallback
  BY <1>10 DEF NewShaper, LoadFont, DropShaper, ForgetShaper, LoadFallback, RenderGoes
<1>11. CASE PublishFont \/ PublishFallback \/ PublishInVain
  BY <1>11 DEF PublishFont, PublishFallback, PublishInVain, SetField, RenderGoes
<1>15. CASE BeginFrame \/ SkipFrame \/ UpdateQueue \/ Draw
  BY <1>15 DEF BeginFrame, SkipFrame, UpdateQueue, Draw, FrameSection, RenderGoes
<1>12. CASE Shutdown \/ EnterShutdown \/ LeaveShutdown
  BY <1>12 DEF Shutdown, EnterShutdown, LeaveShutdown, HostGoes, Acquire, Release
<1>13. CASE ReleaseAll \/ DeleteLock
  BY <1>13 DEF ReleaseAll, DeleteLock, HostGoes
<1>14. CASE UNCHANGED vars
  BY <1>14 DEF vars
<1> QED
  BY <1>1, <1>2, <1>5, <1>6, <1>7, <1>8, <1>9, <1>10, <1>11, <1>12, <1>13, <1>14,
     <1>15 DEF Next, InCaption, InPresent, InShutdown

LEMMA RecordsInv ==
  ASSUME TypeOK, [Next]_vars
  PROVE  queue' \subseteq Caption /\ call' \in Call
<1> USE DEF TypeOK
<1>1. CASE UNCHANGED <<queue, call>>
  BY <1>1
<1>2. ASSUME NEW sfx \in BOOLEAN, SendCaption(sfx) PROVE queue' = queue /\ call' \in Call
  BY <1>2 DEF SendCaption, Fresh, Call
<1>3. CASE EnterNoLock \/ LeaveAtTest
  <2>1. Fresh(FALSE) \in Call
    BY DEF Fresh, Call
  <2>2. queue' = queue /\ call' = Fresh(FALSE)
    BY <1>3 DEF EnterNoLock, LeaveAtTest
  <2> QED
    BY <2>1, <2>2
<1>4. CASE StampCaption
  <2>1. ASSUME NEW t \in Int, NEW b \in BOOLEAN, NEW c \in BOOLEAN
        PROVE  [call EXCEPT !.start = t, !.early = b, !.shapes = c] \in Call
    BY DEF Call
  <2>2. Time \in Int
    BY DEF Time
  <2>3. (main \in {"initialize", "clock"}) \in BOOLEAN
    OBVIOUS
  <2>4. (imgui /\ shaper = "there" /\ Has("m_FT")) \in BOOLEAN
    OBVIOUS
  <2>5. FindsShaper \subseteq BOOLEAN
    BY <2>4 DEF FindsShaper
  <2>6. PICK shapes \in FindsShaper : call' = Stamped(shapes)
    BY <1>4 DEF StampCaption
  <2>7. Stamped(shapes) \in Call
    BY <2>1, <2>2, <2>3, <2>5, Zenon DEF Stamped
  <2> QED
    BY <1>4, <2>6, <2>7 DEF StampCaption
<1>5. CASE PushCaption
  <2>1. [start |-> call.start, sfx |-> call.sfx, early |-> call.early] \in Caption
    BY DEF Call, Caption
  <2> QED
    BY <1>5, <2>1 DEF PushCaption, Fresh, Call
<1>6. CASE UpdateQueue
  BY <1>6 DEF UpdateQueue, RenderGoes
<1>7. CASE ReleaseAll
  BY <1>7 DEF ReleaseAll, HostGoes
<1>8. CASE Tick
  BY <1>1, <1>8 DEF Tick
<1>9. CASE MainThread
  BY <1>1, <1>9 DEF MainThread, MainGoes, Synchronize, Scan, StoreGlobal, HookProcess,
     Initialize, SetClock, HookPresent, HookResize
<1>10. CASE EnterCaption
  BY <1>1, <1>10 DEF EnterCaption
<1>11. CASE InitImGui \/ LaterPresent \/ OtherSwapChain
  BY <1>1, <1>11 DEF InitImGui, LaterPresent, OtherSwapChain, RenderGoes
<1>12. CASE \/ NewShaper \/ LoadFont \/ DropShaper \/ ForgetShaper \/ LoadFallback
            \/ BeginFrame \/ SkipFrame \/ Draw
  BY <1>1, <1>12 DEF NewShaper, LoadFont, DropShaper, ForgetShaper, LoadFallback,
     BeginFrame, SkipFrame, Draw, RenderGoes
<1>15. CASE PublishFont \/ PublishFallback \/ PublishInVain
  BY <1>1, <1>15 DEF PublishFont, PublishFallback, PublishInVain, SetField, RenderGoes
<1>13. CASE Shutdown \/ EnterShutdown \/ LeaveShutdown \/ DeleteLock
  BY <1>1, <1>13 DEF Shutdown, EnterShutdown, LeaveShutdown, DeleteLock, HostGoes
<1>14. CASE UNCHANGED vars
  BY <1>1, <1>14 DEF vars
<1> QED
  BY <1>2, <1>3, <1>4, <1>5, <1>6, <1>7, <1>8, <1>9, <1>10, <1>11, <1>12, <1>13, <1>14,
     <1>15 DEF Next, InCaption, InPresent, InShutdown

\* What the sixfold sequence of fields says of numbers.
LEMMA FieldIs ==
  /\ Len(Fields) = 6
  /\ \A i \in 1..6 : /\ Fields[i] = "m_HBBuffer" <=> i = 4
                     /\ Fields[i] = "m_HBFontFallback" <=> i = 6
BY DEF Fields

LEMMA MadeInv ==
  ASSUME Made, [Next]_vars PROVE Made'
<1> USE DEF Made
<1>1. CASE UNCHANGED <<shaper, filled, render>>
  BY <1>1
<1>2. CASE MainThread \/ Tick \/ UNCHANGED vars
  BY <1>1, <1>2 DEF MainThread, MainGoes, Synchronize, Scan, StoreGlobal, HookProcess,
     Initialize, SetClock, HookPresent, HookResize, Tick, vars, ui
<1>3. ASSUME NEW sfx \in BOOLEAN, SendCaption(sfx) PROVE Made'
  BY <1>1, <1>3 DEF SendCaption, GameGoes, ui
<1>4. CASE InCaption
  BY <1>1, <1>4 DEF InCaption, EnterCaption, EnterNoLock, LeaveAtTest, StampCaption,
     PushCaption, GameGoes, ui
<1>5. CASE InitImGui \/ LaterPresent \/ OtherSwapChain
  BY <1>5 DEF InitImGui, LaterPresent, OtherSwapChain, RenderGoes, ui
<1>6. CASE NewShaper \/ LoadFont \/ DropShaper \/ ForgetShaper
  BY <1>6 DEF NewShaper, LoadFont, DropShaper, ForgetShaper, RenderGoes, ui
<1>7. CASE PublishFont
  <2>1. filled \in 0..3 /\ filled' = filled + 1 /\ shaper' = shaper
    BY <1>7 DEF PublishFont, SetField, RenderGoes
  <2>2. Fields[filled + 1] = "m_HBBuffer" <=> filled = 3
    BY <2>1, FieldIs
  <2>3. render' = IF filled = 3 THEN "fallbacks" ELSE "font"
    BY <1>7, <2>2 DEF PublishFont, SetField, RenderGoes
  <2> QED
    BY <2>1, <2>3
<1>8. CASE LoadFallback
  BY <1>8 DEF LoadFallback, RenderGoes, ui
<1>9. CASE PublishFallback
  <2>1. filled \in 4..5 /\ filled' = filled + 1 /\ shaper' = shaper
    BY <1>9 DEF PublishFallback, SetField, RenderGoes
  <2>2. Fields[filled + 1] = "m_HBFontFallback" <=> filled = 5
    BY <2>1, FieldIs
  <2>3. render' = IF filled = 5 THEN "begin" ELSE "fallback"
    BY <1>9, <2>2 DEF PublishFallback, SetField, RenderGoes
  <2> QED
    BY <2>1, <2>3
<1>10. CASE PublishInVain \/ BeginFrame \/ SkipFrame \/ UpdateQueue \/ Draw
  BY <1>10 DEF PublishInVain, BeginFrame, SkipFrame, UpdateQueue, Draw, RenderGoes, ui
<1>11. CASE Shutdown \/ EnterShutdown \/ LeaveShutdown \/ DeleteLock
  BY <1>1, <1>11 DEF Shutdown, EnterShutdown, LeaveShutdown, DeleteLock, HostGoes, ui
<1>12. CASE ReleaseAll
  BY <1>12 DEF ReleaseAll, HostGoes
<1> QED
  BY <1>2, <1>3, <1>4, <1>5, <1>6, <1>7, <1>8, <1>9, <1>10, <1>11, <1>12
  DEF Next, InPresent, InShutdown

LEMMA TypeInv == TypeOK /\ Made /\ [Next]_vars => TypeOK' /\ Made'
<1> SUFFICES ASSUME TypeOK, Made, [Next]_vars PROVE TypeOK' /\ Made'
  OBVIOUS
<1>3. Made' /\ filled' \in 0..Len(Fields)
  BY MadeInv, FieldIs DEF Made
<1>1. Flags'
  BY FlagsInv DEF Flags, TypeOK
<1>2. Places'
  BY PlacesInv DEF Places, TypeOK
<1> QED
  BY <1>1, <1>2, <1>3, RecordsInv DEF Flags, Places, TypeOK

\* The steps of MainThread preserve the rest.
LEMMA MainInv == IInv /\ MainThread /\ TypeOK' /\ Made' => IInv'
<1> SUFFICES ASSUME IInv, MainThread, TypeOK', Made' PROVE IInv'
  OBVIOUS
<1> USE DEF IInv, TypeOK, NotYet, LockHeld, CallHidden, HiddenSfxNeverQueued,
            Stamps, OnTime, Early, Time, Unloading, NothingAfterShutdown, MainGoes, ui
<1>1. CASE Synchronize
  BY <1>1 DEF Synchronize, EnsureSynchronization
<1>2. CASE Scan
  BY <1>2 DEF Scan
<1>3. CASE StoreGlobal
  BY <1>3 DEF StoreGlobal
<1>4. CASE HookProcess
  BY <1>4 DEF HookProcess, EnableHook
<1>5. CASE Initialize
  BY <1>5 DEF Initialize, EnsureSynchronization
<1>6. CASE SetClock
  BY <1>6 DEF SetClock
<1>7. CASE HookPresent
  BY <1>7 DEF HookPresent, EnableHook, MainSteps
<1>8. CASE HookResize
  BY <1>8 DEF HookResize
<1> QED
  BY <1>1, <1>2, <1>3, <1>4, <1>5, <1>6, <1>7, <1>8 DEF MainThread

\* So do those of the game's thread.
LEMMA CaptionInv ==
  ASSUME IInv, TypeOK', Made', InCaption \/ \E sfx \in BOOLEAN : SendCaption(sfx)
  PROVE  IInv'
<1> USE DEF IInv, TypeOK, NotYet, LockHeld, CallHidden, HiddenSfxNeverQueued,
            Stamps, OnTime, Early, Time, Unloading, NothingAfterShutdown, GameGoes, ui
<1>1. ASSUME NEW sfx \in BOOLEAN, SendCaption(sfx) PROVE IInv'
  BY <1>1 DEF SendCaption, Fresh
<1>2. CASE EnterCaption
  BY <1>2 DEF EnterCaption, Acquire
<1>3. CASE EnterNoLock
  BY <1>3 DEF EnterNoLock, Fresh
<1>4. CASE LeaveAtTest
  BY <1>4 DEF LeaveAtTest, Release, Fresh
<1>5. CASE StampCaption
  <2>1. PICK shapes : call' = Stamped(shapes)
    BY <1>5 DEF StampCaption
  <2>2. /\ call'.sfx = call.sfx /\ call'.start = Time
        /\ call'.early = (main \in {"initialize", "clock"})
    BY <2>1 DEF Stamped, Call
  <2> QED
    BY <1>5, <2>2 DEF StampCaption
<1>6. CASE PushCaption
  BY <1>6 DEF PushCaption, Release, Fresh
<1> QED
  BY <1>1, <1>2, <1>3, <1>4, <1>5, <1>6 DEF InCaption

\* And those of a frame.
LEMMA FrameInv ==
  ASSUME IInv, TypeOK', Made', InitImGui \/ LaterPresent \/ OtherSwapChain \/ InPresent
  PROVE  IInv'
<1> USE DEF IInv, TypeOK, NotYet, LockHeld, CallHidden, HiddenSfxNeverQueued,
            Stamps, OnTime, Early, Time, Unloading, NothingAfterShutdown, RenderGoes,
            sync, ui
<1>1. CASE InitImGui \/ LaterPresent \/ OtherSwapChain
  BY <1>1 DEF InitImGui, LaterPresent, OtherSwapChain
<1>2. CASE \/ NewShaper \/ LoadFont \/ DropShaper \/ ForgetShaper \/ LoadFallback
            \/ BeginFrame \/ SkipFrame \/ Draw
  BY <1>2 DEF NewShaper, LoadFont, DropShaper, ForgetShaper, LoadFallback, BeginFrame,
     SkipFrame, Draw
<1>3. CASE UpdateQueue
  BY <1>3 DEF UpdateQueue
<1>4. CASE PublishFont \/ PublishFallback \/ PublishInVain
  BY <1>4 DEF PublishFont, PublishFallback, PublishInVain, SetField
<1> QED
  BY <1>1, <1>2, <1>3, <1>4 DEF InPresent

\* And those of the host.
LEMMA HostInv == ASSUME IInv, TypeOK', Made', Shutdown \/ InShutdown PROVE IInv'
<1> USE DEF IInv, TypeOK, NotYet, LockHeld, CallHidden, HiddenSfxNeverQueued,
            Stamps, OnTime, Early, Time, Unloading, NothingAfterShutdown, HostGoes,
            clock, sync, ui
<1>1. CASE Shutdown
  BY <1>1 DEF Shutdown
<1>2. CASE EnterShutdown
  BY <1>2 DEF EnterShutdown, Acquire
<1>3. CASE ReleaseAll
  BY <1>3 DEF ReleaseAll
<1>4. CASE LeaveShutdown
  BY <1>4 DEF LeaveShutdown, Release
<1>5. CASE DeleteLock
  BY <1>5 DEF DeleteLock
<1> QED
  BY <1>1, <1>2, <1>3, <1>4, <1>5 DEF InShutdown

LEMMA Inductive == IInv /\ [Next]_vars => IInv'
<1> SUFFICES ASSUME IInv, [Next]_vars PROVE IInv'
  OBVIOUS
<1>1. TypeOK' /\ Made'
  BY TypeInv DEF IInv
<1>2. CASE Tick
  BY <1>1, <1>2 DEF Tick, IInv, TypeOK, Caption, Call, NotYet, LockHeld, CallHidden,
     HiddenSfxNeverQueued, Stamps, OnTime, Early, Time, Unloading,
     NothingAfterShutdown, sync, ui
<1>3. CASE UNCHANGED vars
  BY <1>1, <1>3 DEF vars, IInv, TypeOK, NotYet, LockHeld, CallHidden,
     HiddenSfxNeverQueued, Stamps, OnTime, Early, Time, Unloading,
     NothingAfterShutdown, clock, sync, ui
<1> QED
  BY <1>1, <1>2, <1>3, MainInv, CaptionInv, FrameInv, HostInv DEF Next

LEMMA Initially == Init => IInv
<1> SUFFICES ASSUME Init PROVE IInv
  OBVIOUS
<1>1. Flags
  BY DEF Flags, Init
<1>2. Places
  BY DEF Places, Init, MainSteps, GameSteps, RenderSteps, HostSteps
<1>3. queue \subseteq Caption /\ call \in Call
  BY DEF Init, Fresh, Call
<1>5. Made /\ filled \in 0..Len(Fields)
  BY FieldIs DEF Made, Init
<1>4. TypeOK
  BY <1>1, <1>2, <1>3, <1>5 DEF Flags, Places, TypeOK
<1> QED
  BY <1>4, <1>5 DEF Init, IInv, NotYet, LockHeld, CallHidden, HiddenSfxNeverQueued, Stamps,
     Unloading, NothingAfterShutdown, Places

LEMMA Always == Spec => []IInv
<1>1. Init => IInv
  BY Initially
<1>2. IInv /\ [Next]_vars => IInv'
  BY Inductive
<1> QED
  BY <1>1, <1>2, PTL DEF Spec
-----------------------------------------------------------------------------
\* Until Shutdown has entered its critical section there is no shaper without
\* ImGui, and nobody makes one where one is.
ShaperInv ==
  host \in {"idle", "entering"} =>
    /\ ~imgui => shaper = "none" /\ render = "idle"
    /\ render = "newShaper" => shaper = "none"

LEMMA ShaperStep ==
  ASSUME IInv, ShaperInv, [Next]_vars
  PROVE  ShaperInv' /\ (game = "shaping" /\ Complete => Complete')
<1>1. Complete <=> shaper = "there" /\ filled >= 4
  <2>1. filled \in 0..6
    BY DEF IInv, Made
  <2>2. Has("m_HBBuffer") <=> filled >= 4
    BY <2>1, FieldIs DEF Has
  <2> QED
    BY <2>2 DEF Complete
<1>2. Complete' <=> shaper' = "there" /\ filled' >= 4
  <2>1. filled' \in 0..6
    BY Inductive DEF IInv, Made
  <2>2. Has("m_HBBuffer")' <=> filled' >= 4
    BY <2>1, FieldIs DEF Has
  <2> QED
    BY <2>2 DEF Complete
<1> DEFINE Kept == game = "shaping" /\ shaper = "there" /\ filled >= 4 =>
                     shaper' = "there" /\ filled' >= 4
<1> SUFFICES ShaperInv' /\ Kept
  BY <1>1, <1>2
<1>3. CASE UNCHANGED ui /\ UNCHANGED <<render, host>>
  BY <1>3 DEF ShaperInv, ui
<1>4. CASE MainThread \/ Tick \/ UNCHANGED vars
  BY <1>3, <1>4 DEF MainThread, MainGoes, Synchronize, Scan, StoreGlobal, HookProcess,
     Initialize, SetClock, HookPresent, HookResize, Tick, vars
<1>5. ASSUME NEW sfx \in BOOLEAN, SendCaption(sfx) PROVE ShaperInv' /\ Kept
  BY <1>3, <1>5 DEF SendCaption, GameGoes
<1>6. CASE InCaption
  BY <1>3, <1>6 DEF InCaption, EnterCaption, EnterNoLock, LeaveAtTest, StampCaption,
     PushCaption, GameGoes
<1>7. CASE InitImGui \/ LaterPresent \/ OtherSwapChain
  BY <1>7 DEF InitImGui, LaterPresent, OtherSwapChain, RenderGoes, ShaperInv, ui
<1>8. CASE NewShaper
  BY <1>8 DEF NewShaper, RenderGoes, ShaperInv, IInv, Unloading, LockHeld, TypeOK, HostSteps
<1>9. CASE LoadFont \/ LoadFallback \/ PublishInVain
  BY <1>9 DEF LoadFont, LoadFallback, PublishInVain, RenderGoes, ShaperInv, ui
<1>10. CASE PublishFont \/ PublishFallback
  BY <1>10 DEF PublishFont, PublishFallback, SetField, RenderGoes, ShaperInv, IInv, Made
<1>11. CASE DropShaper \/ ForgetShaper
  BY <1>11 DEF DropShaper, ForgetShaper, RenderGoes, ShaperInv, IInv, Made
<1>12. CASE BeginFrame \/ SkipFrame \/ UpdateQueue \/ Draw
  BY <1>12 DEF BeginFrame, SkipFrame, UpdateQueue, Draw, RenderGoes, ShaperInv, ui
<1>13. CASE Shutdown \/ EnterShutdown \/ LeaveShutdown \/ DeleteLock
  BY <1>13 DEF Shutdown, EnterShutdown, LeaveShutdown, DeleteLock, HostGoes, ShaperInv, ui
<1>14. CASE ReleaseAll
  BY <1>14 DEF ReleaseAll, HostGoes, ShaperInv, IInv, LockHeld
<1> QED
  BY <1>4, <1>5, <1>6, <1>7, <1>8, <1>9, <1>10, <1>11, <1>12, <1>13, <1>14
  DEF Next, InPresent, InShutdown
-----------------------------------------------------------------------------
\* The variables keep their types.
THEOREM BootstrapTypes == Spec => []TypeOK
<1>1. IInv => TypeOK
  BY DEF IInv
<1> QED
  BY <1>1, Always, PTL

\* No hooked function runs before EnsureSynchronization has made m_CS.
THEOREM LockComesFirst == Spec => []LockBeforeHooks
<1>1. IInv => LockBeforeHooks
  BY DEF IInv, NotYet, LockBeforeHooks
<1> QED
  BY <1>1, Always, PTL

\* A sound effect that cc_subtitles hides is never queued.
THEOREM HiddenStaysHidden == Spec => []HiddenSfxNeverQueued
<1>1. IInv => HiddenSfxNeverQueued
  BY DEF IInv
<1> QED
  BY <1>1, Always, PTL

\* HookPresent's new origin of time puts no caption into the future but those
\* that came before it.
THEOREM ClockGoesOn == Spec => []NoCaptionAhead
<1>1. IInv => NoCaptionAhead
  BY DEF IInv, TypeOK, Caption, Stamps, OnTime, NoCaptionAhead, Time
<1> QED
  BY <1>1, Always, PTL

\* After Shutdown's critical section no caption comes back.
THEOREM ShutdownIsFinal == Spec => []NothingAfterShutdown
<1>1. IInv => NothingAfterShutdown
  BY DEF IInv
<1> QED
  BY <1>1, Always, PTL

\* A complete shaper is not taken from a caption that is being shaped.
THEOREM ShaperIsKept == Spec => ShaperOutlivesUse
<1>1. Init => ShaperInv
  BY DEF Init, ShaperInv
<1>2. IInv /\ ShaperInv /\ [Next]_vars => ShaperInv'
  BY ShaperStep
<1>3. IInv /\ ShaperInv /\ [Next]_vars =>
        [game = "shaping" /\ Complete => Complete']_vars
  BY ShaperStep
<1> QED
  BY <1>1, <1>2, <1>3, Always, PTL DEF Spec, ShaperOutlivesUse
=============================================================================
