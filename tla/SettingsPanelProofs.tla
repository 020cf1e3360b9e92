-------------------------- MODULE SettingsPanelProofs --------------------------
(***************************************************************************)
(* Theorems about SettingsPanel, for every set of clicks and every capacity *)
(* of the event queue.                                                      *)
(***************************************************************************)
EXTENDS SettingsPanel, SequenceTheorems, TLAPS

\* While the panel swallows input without being rendered, one of the threads is
\* in the middle of changing that.
CaptureInTransit ==
  settingsOpen /\ ~uiOpen =>
    wpc = "load" \/ (wpc = "setOpen" /\ loaded) \/ rpc \in {"closing", "lower"}

\* Nobody but the message thread sets m_SettingsOpen: once it has loaded false,
\* the flag stays false.
LoadedFalseStays == wpc = "setOpen" /\ ~loaded => ~settingsOpen

\* A preview on the screen is one the render thread remembers.
PreviewRemembered == showing => lastEnabled

\* A request to show a preview that was switched off again comes with a request
\* to clear it.
StaleRequestCleared ==
  page.previewRequested /\ ~page.previewEnabled => page.previewClear

Inv ==
  /\ TypeOK
  /\ CaptureInTransit
  /\ LoadedFalseStays
  /\ PreviewRemembered
  /\ StaleRequestCleared
  /\ NoGhostPreview

\* The end of closePanel switches the preview off, and asks to clear it if it
\* was on.
LEMMA FinishKeeps ==
  ASSUME NEW p \in Page,
         p.previewRequested /\ ~p.previewEnabled => p.previewClear
  PROVE  LET q == Finish(p) IN
         /\ q \in Page
         /\ q.previewRequested /\ ~q.previewEnabled => q.previewClear
<1>1. Finish(p) \in Page
  BY DEF Finish, Page
<1>2. CASE p.previewEnabled
  BY <1>1, <1>2 DEF Finish, Page
<1>3. CASE ~p.previewEnabled
  BY <1>1, <1>3 DEF Finish, Page
<1> QED
  BY <1>2, <1>3

\* The handlers of the page keep its type and the rule about stale requests.
LEMMA HandleKeeps ==
  ASSUME NEW p \in Page, NEW event \in PageEvents, NEW animated \in BOOLEAN,
         p.previewRequested /\ ~p.previewEnabled => p.previewClear
  PROVE  LET q == Handle(p, event, animated) IN
         /\ q \in Page
         /\ q.previewRequested /\ ~q.previewEnabled => q.previewClear
<1>1. CASE event = "close"
  <2>1. CASE animated
    <3>1. p.closings + 1 \in Nat
      BY DEF Page
    <3> QED
      BY <1>1, <2>1, <3>1 DEF Handle, Page
  <2>2. CASE ~animated
    BY <1>1, <2>2, FinishKeeps DEF Handle
  <2> QED
    BY <2>1, <2>2
<1>2. CASE event = "preview"
  BY <1>2 DEF Handle, Page
<1>3. CASE event = "save"
  BY <1>3 DEF Handle, Page
<1>4. CASE event = "reset"
  BY <1>4 DEF Handle, Page
<1>5. CASE event = "language"
  BY <1>5 DEF Handle, Page
<1> QED
  BY <1>1, <1>2, <1>3, <1>4, <1>5 DEF PageEvents

\* So do the timers of the page.
LEMMA ElapseKeeps ==
  ASSUME NEW p \in Page, NEW count \in 0..p.closings,
         p.previewRequested /\ ~p.previewEnabled => p.previewClear
  PROVE  LET q == Elapse(p, count) IN
         /\ q \in Page
         /\ q.previewRequested /\ ~q.previewEnabled => q.previewClear
<1>1. CASE count = 0
  BY <1>1 DEF Elapse
<1>2. CASE count # 0
  <2>1. p.closings \in Nat /\ p.closings - count \in Nat
    BY DEF Page
  <2> QED
    BY <1>2, <2>1 DEF Elapse, Finish, Page
<1> QED
  BY <1>1, <1>2

\* The queue of ProcessWin32Message never grows beyond its capacity.
LEMMA QueueKeeps ==
  ASSUME NEW q \in Seq(PageEvents), Len(q) <= Capacity, NEW e \in PageEvents
  PROVE  LET longer == Append(q, e)
             kept == IF Len(longer) > Capacity THEN Tail(longer) ELSE longer
         IN  kept \in Seq(PageEvents) /\ Len(kept) <= Capacity
<1> DEFINE longer == Append(q, e)
<1>1. longer \in Seq(PageEvents) /\ Len(longer) = Len(q) + 1 /\ longer # <<>>
  BY AppendProperties
<1>2. Tail(longer) \in Seq(PageEvents) /\ Len(Tail(longer)) = Len(longer) - 1
  BY <1>1, HeadTailProperties
<1>3. Len(q) \in Nat /\ Capacity \in Nat
  BY BoundsAssumption, LenProperties
<1> QED
  BY <1>1, <1>2, <1>3

\* The panel starts closed, with nothing on the screen.
LEMMA InitInv == Init => Inv
<1> SUFFICES ASSUME Init PROVE Inv
  OBVIOUS
<1>1. TypeOK
  <2>1. <<>> \in Seq(PageEvents) /\ Len(<<>>) = 0
    BY EmptySeq
  <2>2. Capacity \in Nat
    BY BoundsAssumption
  <2>3. page \in Page
    BY DEF Init, Page
  <2>4. events \in Seq(PageEvents) /\ Len(events) <= Capacity /\ batch \in Seq(PageEvents)
    BY <2>1, <2>2 DEF Init
  <2>5. wpc \in WindowStages /\ rpc \in RenderStages /\ message \in PageEvents
    BY DEF Init, WindowStages, RenderStages, PageEvents
  <2> QED
    BY <2>3, <2>4, <2>5 DEF Init, TypeOK
<1> QED
  BY <1>1 DEF Init, Inv, CaptureInTransit, LoadedFalseStays, PreviewRemembered,
              StaleRequestCleared, NoGhostPreview

\* A step of the message thread touches neither the page nor the preview.
LEMMA WindowInv ==
  ASSUME Inv,
         PressF10 \/ WindowFinishes \/ (\E click \in Clicks : Input(click))
  PROVE  Inv'
<1> USE DEF Inv, window, frame
<1>1. TypeOK'
  <2>1. CASE PressF10
    BY <2>1 DEF PressF10, WindowStep, TypeOK, WindowStages
  <2>2. CASE FlipSettingsOpen
    BY <2>2 DEF FlipSettingsOpen, WindowStep, TypeOK, WindowStages
  <2>3. CASE LoadSettingsOpen
    BY <2>3 DEF LoadSettingsOpen, WindowStep, TypeOK, WindowStages
  <2>4. CASE SetOpen
    BY <2>4 DEF SetOpen, WindowStep, TypeOK, WindowStages
  <2>5. CASE ProcessWin32Message
    <3>1. events' \in Seq(PageEvents) /\ Len(events') <= Capacity
      BY <2>5, QueueKeeps DEF ProcessWin32Message, TypeOK
    <3> QED
      BY <2>5, <3>1 DEF ProcessWin32Message, WindowStep, TypeOK, WindowStages
  <2>6. ASSUME NEW click \in Clicks, Input(click)
        PROVE  TypeOK'
    BY <2>6, ClicksAssumption DEF Input, WindowStep, TypeOK, WindowStages
  <2> QED
    BY <2>1, <2>2, <2>3, <2>4, <2>5, <2>6 DEF WindowFinishes
<1>2. CaptureInTransit' /\ LoadedFalseStays'
  BY DEF PressF10, WindowFinishes, FlipSettingsOpen, LoadSettingsOpen, SetOpen,
         ProcessWin32Message, Input, WindowStep, CaptureInTransit, LoadedFalseStays,
         TypeOK
<1>3. UNCHANGED frame
  BY DEF PressF10, WindowFinishes, FlipSettingsOpen, LoadSettingsOpen, SetOpen,
         ProcessWin32Message, Input
<1> QED
  BY <1>1, <1>2, <1>3 DEF PreviewRemembered, StaleRequestCleared, NoGhostPreview

\* A step of the render thread that leaves the page alone: the edge detection,
\* the drain and the close.
LEMMA QuietInv ==
  ASSUME Inv,
         \/ CompareOpen \/ LoadOpened \/ Render \/ Drained \/ PollHidden
         \/ CheckSettingsOpen \/ LowerSettingsOpen \/ ServeNothing
  PROVE  Inv'
<1> USE DEF Inv, window, RenderStep
<1>1. TypeOK'
  <2>1. <<>> \in Seq(PageEvents) /\ Len(<<>>) = 0
    BY EmptySeq
  <2>2. Capacity \in Nat
    BY BoundsAssumption
  <2>3. CASE CompareOpen \/ LoadOpened
    BY <2>3 DEF CompareOpen, LoadOpened, TypeOK, RenderStages
  <2>4. CASE Render
    <3>1. /\ events' \in Seq(PageEvents) /\ Len(events') <= Capacity
          /\ batch' \in Seq(PageEvents)
      <4>1. CASE uiOpen
        <5>1. batch' = events /\ events' = <<>>
          BY <2>4, <4>1 DEF Render
        <5>2. Len(events') <= Capacity
          BY <2>1, <2>2, <5>1
        <5> QED
          BY <2>1, <5>1, <5>2 DEF TypeOK
      <4>2. CASE ~uiOpen
        BY <2>4, <4>2 DEF Render, TypeOK
      <4> QED
        BY <4>1, <4>2
    <3> QED
      BY <2>4, <3>1 DEF Render, TypeOK, RenderStages
  <2>5. CASE Drained \/ CheckSettingsOpen \/ LowerSettingsOpen \/ ServeNothing
    BY <2>5 DEF Drained, CheckSettingsOpen, LowerSettingsOpen, ServeNothing,
                TypeOK, RenderStages
  <2>6. CASE PollHidden
    BY <2>6 DEF PollHidden, TypeOK, RenderStages, Page
  <2> QED
    BY <2>3, <2>4, <2>5, <2>6
<1>2. CaptureInTransit' /\ LoadedFalseStays'
  BY DEF CompareOpen, LoadOpened, Render, Drained, PollHidden, CheckSettingsOpen,
         LowerSettingsOpen, ServeNothing, CaptureInTransit, LoadedFalseStays, TypeOK
<1>3. page' = page /\ showing' = showing /\ lastEnabled' = lastEnabled /\ rpc' # "update"
  BY DEF CompareOpen, LoadOpened, Render, Drained, PollHidden,
         CheckSettingsOpen, LowerSettingsOpen, ServeNothing
<1> QED
  BY <1>1, <1>2, <1>3 DEF PreviewRemembered, StaleRequestCleared, NoGhostPreview

\* A step of the render thread that runs the page or serves its requests.
LEMMA PageInv ==
  ASSUME Inv,
         \/ RememberOpen \/ DispatchInputMessage
         \/ ServeSave \/ ServeReset \/ ServePreview
         \/ \E count \in 0..page.closings : Update(count)
  PROVE  Inv'
<1> USE DEF Inv, window, RenderStep
<1>1. /\ page' \in Page
      /\ page'.previewRequested /\ ~page'.previewEnabled => page'.previewClear
  <2>1. CASE RememberOpen
    BY <2>1 DEF RememberOpen, TypeOK, Page, StaleRequestCleared
  <2>2. CASE DispatchInputMessage
    <3>1. Head(batch) \in PageEvents
      BY <2>2, HeadTailProperties DEF DispatchInputMessage, TypeOK
    <3>2. PICK animated \in BOOLEAN : page' = Handle(page, Head(batch), animated)
      BY <2>2 DEF DispatchInputMessage
    <3> QED
      BY <3>1, <3>2, HandleKeeps DEF TypeOK, StaleRequestCleared
  <2>3. CASE ServeSave \/ ServeReset
    BY <2>3 DEF ServeSave, ServeReset, ClearFlags, TypeOK, Page
  <2>4. CASE ServePreview
    BY <2>4 DEF ServePreview, TypeOK, Page
  <2>5. ASSUME NEW count \in 0..page.closings, Update(count)
        PROVE  /\ page' \in Page
               /\ page'.previewRequested /\ ~page'.previewEnabled => page'.previewClear
    BY <2>5, ElapseKeeps DEF Update, TypeOK, StaleRequestCleared
  <2> QED
    BY <2>1, <2>2, <2>3, <2>4, <2>5
<1>2. showing' \in BOOLEAN /\ (showing' => lastEnabled')
  <2>1. CASE ServePreview
    BY <2>1 DEF ServePreview, TypeOK, Page, PreviewRemembered, StaleRequestCleared
  <2>2. CASE RememberOpen \/ DispatchInputMessage
    BY <2>2 DEF RememberOpen, DispatchInputMessage, TypeOK, PreviewRemembered
  <2>3. CASE ServeSave \/ ServeReset
    BY <2>3 DEF ServeSave, ServeReset
  <2>4. ASSUME NEW count \in 0..page.closings, Update(count)
        PROVE  showing' \in BOOLEAN /\ (showing' => lastEnabled')
    BY <2>4 DEF Update, TypeOK, PreviewRemembered
  <2> QED
    BY <2>1, <2>2, <2>3, <2>4
<1>3. rpc' = "update" => lastEnabled' = page'.previewEnabled
  BY DEF RememberOpen, DispatchInputMessage, ServeSave, ServeReset, ServePreview,
         Update, TypeOK, Page
<1>4. batch' \in Seq(PageEvents)
  BY HeadTailProperties
    DEF RememberOpen, DispatchInputMessage, ServeSave, ServeReset, ServePreview,
        Update, TypeOK
<1>5. TypeOK'
  BY <1>1, <1>2, <1>4
    DEF RememberOpen, DispatchInputMessage, ServeSave, ServeReset, ServePreview,
        Update, TypeOK, RenderStages, Page
<1>6. CaptureInTransit' /\ LoadedFalseStays'
  BY DEF RememberOpen, DispatchInputMessage, ServeSave, ServeReset, ServePreview,
         Update, CaptureInTransit, LoadedFalseStays
<1> QED
  BY <1>1, <1>2, <1>3, <1>5, <1>6
    DEF PreviewRemembered, StaleRequestCleared, NoGhostPreview

\* Every step of either thread preserves the invariant.
LEMMA NextInv == Inv /\ [Next]_vars => Inv'
<1> SUFFICES ASSUME Inv, [Next]_vars PROVE Inv'
  OBVIOUS
<1>1. CASE Next
  BY <1>1, WindowInv, QuietInv, PageInv DEF Next, Present
<1>2. CASE UNCHANGED vars
  BY <1>2 DEF vars, window, frame, Inv, TypeOK, CaptureInTransit, LoadedFalseStays,
              PreviewRemembered, StaleRequestCleared, NoGhostPreview
<1> QED
  BY <1>1, <1>2

\* The inductive invariant of the panel.
THEOREM Invariance == Spec => []Inv
BY InitInv, NextInv, PTL DEF Spec

\* The variables keep their types, and the event queue its capacity.
THEOREM TypeCorrect == Spec => []TypeOK
<1>1. Inv => TypeOK
  BY DEF Inv
<1> QED
  BY <1>1, Invariance, PTL

\* F10 and a close by the page, however they interleave, never leave the game
\* without input and without a panel.
THEOREM InputNeverLost == Spec => []NoInvisibleCapture
<1>1. Inv => NoInvisibleCapture
  BY DEF Inv, CaptureInTransit, NoInvisibleCapture
<1> QED
  BY <1>1, Invariance, PTL

\* No frame of the open panel leaves a preview that the page has switched off.
THEOREM NoGhost == Spec => []NoGhostPreview
<1>1. Inv => NoGhostPreview
  BY DEF Inv
<1> QED
  BY <1>1, Invariance, PTL
=============================================================================
