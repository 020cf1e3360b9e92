---------------------------- MODULE SettingsPanel ----------------------------
(***************************************************************************)
(* The settings panel of Hlyx Caption.  The game's message thread (WndProc) *)
(* toggles it on F10 and queues input for it; the render thread (hkPresent, *)
(* UltralightManager::Render) notices that it opened, runs the page, polls  *)
(* the page's flags and closes it when the page says so.                    *)
(*                                                                         *)
(* Shared are two atomic flags, Renderer::m_SettingsOpen and                *)
(* UltralightManager::m_Open, and the event queue under m_EventMutex.  Each *)
(* load, store and critical section is a step of its own.  The page         *)
(* (bindings.js) runs on the render thread only, when input is dispatched,  *)
(* when native code evaluates a script, and in Update, where its timers     *)
(* fire.                                                                    *)
(*                                                                         *)
(* The caption queue is reduced to whether it holds a preview; CaptionQueue *)
(* has the rest.                                                            *)
(***************************************************************************)
EXTENDS Integers, Sequences

CONSTANTS
  Clicks,       \* what the user does in the panel, of PageEvents
  Capacity,     \* length of the event queue beyond which the oldest is dropped
  MaxQueued,    \* bound: no input while this number of events waits
  MaxClosings   \* bound: no more close requests than this at a time

\* Esc or the Close button; the Preview, Save and Reset buttons; another
\* language in the drop-down.
PageEvents == {"close", "preview", "save", "reset", "language"}

ASSUME ClicksAssumption == Clicks \subseteq PageEvents
ASSUME BoundsAssumption ==
  /\ Capacity \in Nat \ {0}
  /\ MaxQueued \in Nat
  /\ MaxClosings \in Nat

VARIABLES
  settingsOpen,  \* Renderer::m_SettingsOpen
  uiOpen,        \* UltralightManager::m_Open
  events,        \* m_EventQueue
  wpc,           \* where the message thread is in WndProc
  loaded,        \* the value of m_SettingsOpen it loaded last
  message,       \* the message it is about to queue
  rpc,           \* where the render thread is in hkPresent
  prevOpen,      \* s_PrevSettingsOpen
  opened,        \* hkPresent's local of that name
  batch,         \* the events DrainInputQueue took and has not dispatched
  page,          \* the state of the page
  lastEnabled,   \* s_LastEnabled
  showing        \* the caption queue holds a preview

window == <<wpc, loaded, message>>
frame == <<rpc, prevOpen, opened, batch, page, lastEnabled, showing>>
vars == <<settingsOpen, uiOpen, events, window, frame>>

\* closings counts the calls of closePanel whose animation has not ended; the
\* other fields are the flags of that name, hidden is __panelHidden.
Page == [hidden: BOOLEAN, closings: Nat, previewEnabled: BOOLEAN,
         previewRequested: BOOLEAN, previewClear: BOOLEAN,
         saveRequested: BOOLEAN, resetRequested: BOOLEAN]

WindowStages == {"rest", "flip", "load", "setOpen", "queue"}
RenderStages == {"compare", "opened", "remember", "render", "dispatch", "poll",
                 "closing", "lower", "serve", "preview", "update", "warmup"}
-----------------------------------------------------------------------------
(* The page *)

\* finish of closePanel.
Finish(p) ==
  [p EXCEPT !.hidden = TRUE,
            !.previewEnabled = FALSE,
            !.previewClear = @ \/ p.previewEnabled]

\* The handlers of the page.  closePanel without animations (__noAnim, which the
\* user may toggle) finishes at once.
Handle(p, event, animated) ==
  CASE event = "close" ->
         IF animated THEN [p EXCEPT !.closings = @ + 1] ELSE Finish(p)
    [] event = "preview" ->
         [p EXCEPT !.previewEnabled = ~@, !.previewRequested = ~p.previewEnabled,
                   !.previewClear = @ \/ p.previewEnabled]
    [] event = "save" -> [p EXCEPT !.saveRequested = TRUE]
    [] event = "reset" -> [p EXCEPT !.resetRequested = TRUE]
    [] event = "language" ->
         [p EXCEPT !.previewRequested = @ \/ p.previewEnabled]

\* Mutant: the end of the animation is never reported.
ElapseSilently(p, count) == [p EXCEPT !.closings = @ - count]

\* Timers and transitions that end in one Update: count of the open closings.
Elapse(p, count) ==
  IF count = 0 THEN p ELSE Finish([p EXCEPT !.closings = @ - count])

ClearFlags(p) ==
  [p EXCEPT !.saveRequested = FALSE, !.resetRequested = FALSE,
            !.previewRequested = FALSE, !.previewClear = FALSE]
-----------------------------------------------------------------------------
(* The message thread *)

WindowStep(from, to) == wpc = from /\ wpc' = to

\* ToggleSettingsPanel: the load of `!m_SettingsOpen', ...
PressF10 ==
  /\ WindowStep("rest", "flip")
  /\ loaded' = settingsOpen
  /\ UNCHANGED <<settingsOpen, uiOpen, events, message, frame>>

\* ... the store, ...
FlipSettingsOpen ==
  /\ WindowStep("flip", "load")
  /\ settingsOpen' = ~loaded
  /\ UNCHANGED <<uiOpen, events, loaded, message, frame>>

\* ... and SetOpen(m_SettingsOpen), which loads it again.
LoadSettingsOpen ==
  /\ WindowStep("load", "setOpen")
  /\ loaded' = settingsOpen
  /\ UNCHANGED <<settingsOpen, uiOpen, events, message, frame>>

SetOpen ==
  /\ WindowStep("setOpen", "rest")
  /\ uiOpen' = loaded
  /\ UNCHANGED <<settingsOpen, events, loaded, message, frame>>

PendingCloses ==
  page.closings + Len(SelectSeq(events \o batch, LAMBDA e : e = "close"))

\* Input is for the panel only while m_SettingsOpen ...
Input(click) ==
  /\ Len(events) < MaxQueued
  /\ click = "close" => PendingCloses < MaxClosings
  /\ WindowStep("rest", "queue")
  /\ settingsOpen
  /\ message' = click
  /\ UNCHANGED <<settingsOpen, uiOpen, events, loaded, frame>>

\* ... and ProcessWin32Message queues it, dropping the oldest on overflow.
ProcessWin32Message ==
  /\ WindowStep("queue", "rest")
  /\ LET longer == Append(events, message)
     IN  events' = IF Len(longer) > Capacity THEN Tail(longer) ELSE longer
  /\ UNCHANGED <<settingsOpen, uiOpen, loaded, message, frame>>

WindowFinishes ==
  FlipSettingsOpen \/ LoadSettingsOpen \/ SetOpen \/ ProcessWin32Message
-----------------------------------------------------------------------------
(* The render thread *)

RenderStep(from, to) == rpc = from /\ rpc' = to

\* hkPresent compares m_SettingsOpen with s_PrevSettingsOpen, ...
CompareOpen ==
  /\ RenderStep("compare", IF settingsOpen # prevOpen THEN "opened" ELSE "render")
  /\ UNCHANGED <<settingsOpen, uiOpen, events, window>>
  /\ UNCHANGED <<prevOpen, opened, batch, page, lastEnabled, showing>>

\* ... on a difference loads it again, ...
LoadOpened ==
  /\ RenderStep("opened", "remember")
  /\ opened' = settingsOpen
  /\ UNCHANGED <<settingsOpen, uiOpen, events, window>>
  /\ UNCHANGED <<prevOpen, batch, page, lastEnabled, showing>>

\* ... and once more, and calls OnPanelOpened if the second load gave true.
RememberOpen ==
  /\ RenderStep("remember", "render")
  /\ prevOpen' = settingsOpen
  /\ page' = [page EXCEPT !.hidden = @ /\ ~opened]
  /\ UNCHANGED <<settingsOpen, uiOpen, events, window>>
  /\ UNCHANGED <<opened, batch, lastEnabled, showing>>

\* UltralightManager::Render: closed, it only runs Update; open, it drains the
\* event queue first.
Render ==
  /\ RenderStep("render", IF uiOpen THEN "dispatch" ELSE "warmup")
  /\ IF uiOpen THEN batch' = events /\ events' = <<>>
     ELSE UNCHANGED <<batch, events>>
  /\ UNCHANGED <<settingsOpen, uiOpen, window>>
  /\ UNCHANGED <<prevOpen, opened, page, lastEnabled, showing>>

DispatchInputMessage ==
  /\ RenderStep("dispatch", "dispatch")
  /\ batch # <<>>
  /\ \E animated \in BOOLEAN : page' = Handle(page, Head(batch), animated)
  /\ batch' = Tail(batch)
  /\ UNCHANGED <<settingsOpen, uiOpen, events, window>>
  /\ UNCHANGED <<prevOpen, opened, lastEnabled, showing>>

Drained ==
  /\ RenderStep("dispatch", "poll")
  /\ batch = <<>>
  /\ UNCHANGED <<settingsOpen, uiOpen, events, window>>
  /\ UNCHANGED <<prevOpen, opened, batch, page, lastEnabled, showing>>

\* The poll of __panelHidden; RequestCloseUI first clears m_Open, ...
PollHidden ==
  /\ RenderStep("poll", IF page.hidden THEN "closing" ELSE "serve")
  /\ uiOpen' = (uiOpen /\ ~page.hidden)
  /\ UNCHANGED <<settingsOpen, events, window>>
  /\ UNCHANGED <<prevOpen, opened, batch, page, lastEnabled, showing>>

\* Mutant: RequestCloseUI clears m_Open only.
CheckNothing ==
  /\ RenderStep("closing", "compare")
  /\ UNCHANGED <<settingsOpen, uiOpen, events, window>>
  /\ UNCHANGED <<prevOpen, opened, batch, page, lastEnabled, showing>>

\* ... loads m_SettingsOpen, ...
CheckSettingsOpen ==
  /\ RenderStep("closing", IF settingsOpen THEN "lower" ELSE "compare")
  /\ UNCHANGED <<settingsOpen, uiOpen, events, window>>
  /\ UNCHANGED <<prevOpen, opened, batch, page, lastEnabled, showing>>

\* ... and clears it.  Render returns: nothing below runs in this frame.
LowerSettingsOpen ==
  /\ RenderStep("lower", "compare")
  /\ settingsOpen' = FALSE
  /\ UNCHANGED <<uiOpen, events, window>>
  /\ UNCHANGED <<prevOpen, opened, batch, page, lastEnabled, showing>>

ServeNothing ==
  /\ RenderStep("serve", "preview")
  /\ ~page.saveRequested /\ ~page.resetRequested
  /\ UNCHANGED <<settingsOpen, uiOpen, events, window>>
  /\ UNCHANGED <<prevOpen, opened, batch, page, lastEnabled, showing>>

\* Save and Reset end in ReloadFont, which empties the caption queue, and in
\* _clearFlags, which takes every request away.
ServeSave ==
  /\ RenderStep("serve", "preview")
  /\ page.saveRequested
  /\ showing' = FALSE
  /\ page' = ClearFlags(page)
  /\ UNCHANGED <<settingsOpen, uiOpen, events, window>>
  /\ UNCHANGED <<prevOpen, opened, batch, lastEnabled>>

ServeReset ==
  /\ RenderStep("serve", "preview")
  /\ ~page.saveRequested /\ page.resetRequested
  /\ showing' = FALSE
  /\ page' = ClearFlags(page)
  /\ UNCHANGED <<settingsOpen, uiOpen, events, window>>
  /\ UNCHANGED <<prevOpen, opened, batch, lastEnabled>>

\* Mutant: a preview the page asks for is shown whatever __previewClear says.
ServePreviewThenClear ==
  /\ RenderStep("preview", "update")
  /\ LET shows == page.previewRequested \/ (page.previewEnabled /\ ~lastEnabled)
         clears == (~page.previewEnabled /\ lastEnabled) \/ page.previewClear
     IN  showing' = (shows \/ (showing /\ ~clears))
  /\ page' = [page EXCEPT !.previewRequested = FALSE, !.previewClear = FALSE]
  /\ lastEnabled' = page.previewEnabled
  /\ UNCHANGED <<settingsOpen, uiOpen, events, window>>
  /\ UNCHANGED <<prevOpen, opened, batch>>

\* The preview section: ShowPreview or ClearPreview, then __previewClear.
ServePreview ==
  /\ RenderStep("preview", "update")
  /\ LET shows == \/ page.previewEnabled /\ ~lastEnabled
                  \/ page.previewRequested /\ (page.previewEnabled \/ ~lastEnabled)
         clears == ~page.previewEnabled /\ lastEnabled
     IN  showing' = ((shows \/ (showing /\ ~clears)) /\ ~page.previewClear)
  /\ page' = [page EXCEPT !.previewRequested = FALSE, !.previewClear = FALSE]
  /\ lastEnabled' = page.previewEnabled
  /\ UNCHANGED <<settingsOpen, uiOpen, events, window>>
  /\ UNCHANGED <<prevOpen, opened, batch>>

\* Update fires the timers that are due, with the panel open or closed.
Update(count) ==
  /\ RenderStep("update", "compare") \/ RenderStep("warmup", "compare")
  /\ page' = Elapse(page, count)
  /\ UNCHANGED <<settingsOpen, uiOpen, events, window>>
  /\ UNCHANGED <<prevOpen, opened, batch, lastEnabled, showing>>

Present ==
  \/ CompareOpen \/ LoadOpened \/ RememberOpen
  \/ Render \/ DispatchInputMessage \/ Drained
  \/ PollHidden \/ CheckSettingsOpen \/ LowerSettingsOpen
  \/ ServeNothing \/ ServeSave \/ ServeReset \/ ServePreview
  \/ \E count \in 0..page.closings : Update(count)
-----------------------------------------------------------------------------
(* The specification *)

Init ==
  /\ settingsOpen = FALSE /\ uiOpen = FALSE
  /\ events = <<>>
  /\ wpc = "rest" /\ loaded = FALSE /\ message = "close"
  /\ rpc = "compare" /\ prevOpen = FALSE /\ opened = FALSE
  /\ batch = <<>>
  /\ page = [hidden |-> FALSE, closings |-> 0, previewEnabled |-> FALSE,
             previewRequested |-> FALSE, previewClear |-> FALSE,
             saveRequested |-> FALSE, resetRequested |-> FALSE]
  /\ lastEnabled = FALSE /\ showing = FALSE

Next ==
  \/ PressF10
  \/ \E click \in Clicks : Input(click)
  \/ WindowFinishes
  \/ Present

Spec == Init /\ [][Next]_vars

\* The message thread returns from WndProc, the game presents frames, and the
\* 400 ms timer of closePanel fires in one of them.
FairSpec ==
  /\ Spec
  /\ WF_vars(WindowFinishes)
  /\ WF_vars(Present)
  /\ SF_vars(page.closings > 0 /\ Update(page.closings))
-----------------------------------------------------------------------------
(* Properties *)

\* The types of the variables.
TypeOK ==
  /\ settingsOpen \in BOOLEAN /\ uiOpen \in BOOLEAN
  /\ prevOpen \in BOOLEAN /\ opened \in BOOLEAN
  /\ events \in Seq(PageEvents) /\ Len(events) <= Capacity
  /\ batch \in Seq(PageEvents)
  /\ wpc \in WindowStages /\ rpc \in RenderStages
  /\ loaded \in BOOLEAN /\ message \in PageEvents
  /\ page \in Page
  /\ lastEnabled \in BOOLEAN /\ showing \in BOOLEAN

\* While no toggle and no close is under way, the panel does not swallow the
\* game's input (m_SettingsOpen) without being rendered (m_Open), however F10
\* and RequestCloseUI interleaved before.
NoInvisibleCapture ==
  wpc = "rest" /\ rpc \notin {"closing", "lower"} => (settingsOpen => uiOpen)

\* A frame of the open panel never leaves a preview on the screen that the page
\* holds to be off, however clicks, closings, Save and Reset were mixed.
NoGhostPreview == rpc = "update" /\ showing => page.previewEnabled

\* When the page has closed the panel, no preview is left.
PreviewEndsWithPanel ==
  rpc = "compare" /\ ~uiOpen /\ page.hidden => ~showing

\* A close that the render thread takes from the event queue, once it has noticed
\* that the panel is open, ends in a closed panel, whatever F10 does meanwhile.
CloseServed ==
  (prevOpen /\ \E i \in DOMAIN batch : batch[i] = "close") ~> ~settingsOpen
=============================================================================
