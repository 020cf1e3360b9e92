-------------------------- MODULE CaptionVisibility --------------------------
(***************************************************************************)
(* Whether the captions are visible, and the label that says so.            *)
(*                                                                         *)
(* F11 toggles Renderer::m_OverlayVisible on the message thread, a click on *)
(* the panel's button toggles it on the render thread, both through         *)
(* ToggleCaptionVisibility: a load, a store of the opposite, and a request  *)
(* that leaves the new value in a mailbox under m_EventMutex.  F10 leaves   *)
(* the current value there when it opens the panel.  Once a frame the       *)
(* render thread takes the mailbox and sets the label of the page.          *)
(***************************************************************************)

VARIABLES
  visible,   \* m_OverlayVisible
  pending,   \* m_PendingOverlayVisible
  value,     \* m_PendingOverlayVisibleValue
  label,     \* what the page shows
  ready,     \* bindings.js has run: the page has a hlaBanner
  pc,        \* where each thread is
  local,     \* the value each thread is working with
  odd,       \* history: the number of toggles begun is odd
  crossed,   \* history: F10 or F11 and the button were under way together
  early      \* history: F10 or F11 was pressed while the page was loading

history == <<odd, crossed, early>>
vars == <<visible, pending, value, label, ready, pc, local, history>>

Threads == {"window", "render"}

\* Where a thread goes on after RequestCaptionVisibleChange.
After(t) == IF t = "window" THEN "rest" ELSE "take"

Move(t, from, to) ==
  /\ pc[t] = from
  /\ pc' = [pc EXCEPT ![t] = to]

\* Between the load of m_OverlayVisible and the end of the request.
Busy(t) == pc[t] \in {"store", "request"}

\* A thread begins a toggle or, with F10, a request.
Begin(t, step) ==
  /\ Move(t, "rest", step)
  /\ crossed' = (crossed \/ \E u \in Threads \ {t} : Busy(u))
  /\ early' = (early \/ ~ready)
  /\ UNCHANGED <<visible, pending, value, label, ready>>
-----------------------------------------------------------------------------
(* ToggleCaptionVisibility, on either thread *)

\* Mutant: the new state is derived from the label.
LoadLabel(t) ==
  /\ local' = [local EXCEPT ![t] = ~label]
  /\ odd' = ~odd

LoadVisible(t) ==
  /\ local' = [local EXCEPT ![t] = ~visible]
  /\ odd' = ~odd

StoreVisible(t) ==
  /\ Move(t, "store", "request")
  /\ visible' = local[t]
  /\ UNCHANGED <<pending, value, label, ready, local, history>>

\* Mutant: a value that waits already is not replaced.
RequestOnce(t) ==
  /\ Move(t, "request", After(t))
  /\ pending' = TRUE
  /\ value' = IF pending THEN value ELSE local[t]
  /\ UNCHANGED <<visible, label, ready, local, history>>

RequestCaptionVisibleChange(t) ==
  /\ Move(t, "request", After(t))
  /\ pending' = TRUE
  /\ value' = local[t]
  /\ UNCHANGED <<visible, label, ready, local, history>>
-----------------------------------------------------------------------------
(* The message thread *)

PressF11 == Begin("window", "store") /\ LoadVisible("window")

\* F10 opens the panel.
PressF10 ==
  /\ Begin("window", "request")
  /\ local' = [local EXCEPT !["window"] = visible]
  /\ UNCHANGED odd
-----------------------------------------------------------------------------
(* The render thread: UltralightManager::Render *)

\* No click on the button in this frame, or the panel is closed.
BeginFrame ==
  /\ Move("render", "rest", "take")
  /\ UNCHANGED <<visible, pending, value, label, ready, local, history>>

\* ConsumeCaptionToggleRequest after a click.
ConsumeCaptionToggleRequest ==
  ready /\ Begin("render", "store") /\ LoadVisible("render")

\* ConsumePendingCaptionVisible takes the mailbox, ...
TakePending ==
  /\ Move("render", "take", IF pending THEN "label" ELSE "update")
  /\ local' = [local EXCEPT !["render"] = value]
  /\ pending' = FALSE
  /\ UNCHANGED <<visible, value, label, ready, history>>

\* Mutant: the mailbox is emptied when the label is set.
SetTranslationVisibleAndEmpty ==
  /\ Move("render", "label", "update")
  /\ label' = IF ready THEN local["render"] ELSE label
  /\ pending' = FALSE
  /\ UNCHANGED <<visible, value, ready, local, history>>

\* ... and evaluates a script, which does nothing in a page without hlaBanner.
SetTranslationVisible ==
  /\ Move("render", "label", "update")
  /\ label' = IF ready THEN local["render"] ELSE label
  /\ UNCHANGED <<visible, pending, value, ready, local, history>>

\* Update runs the page's script, in one frame or another.
Update ==
  /\ Move("render", "update", "rest")
  /\ ready' \in {ready, TRUE}
  /\ UNCHANGED <<visible, pending, value, label, local, history>>
-----------------------------------------------------------------------------
(* The specification *)

Init ==
  /\ visible = TRUE
  /\ pending = FALSE /\ value = TRUE
  /\ label = TRUE /\ ready = FALSE
  /\ pc = [t \in Threads |-> "rest"]
  /\ local = [t \in Threads |-> TRUE]
  /\ odd = FALSE /\ crossed = FALSE /\ early = FALSE

Next ==
  \/ \E t \in Threads : StoreVisible(t) \/ RequestCaptionVisibleChange(t)
  \/ PressF11 \/ PressF10
  \/ BeginFrame \/ ConsumeCaptionToggleRequest
  \/ TakePending \/ SetTranslationVisible \/ Update

Spec == Init /\ [][Next]_vars
-----------------------------------------------------------------------------
(* Properties *)

\* The types of the variables.
TypeOK ==
  /\ visible \in BOOLEAN /\ pending \in BOOLEAN /\ value \in BOOLEAN
  /\ label \in BOOLEAN /\ ready \in BOOLEAN
  /\ odd \in BOOLEAN /\ crossed \in BOOLEAN /\ early \in BOOLEAN
  /\ pc \in [Threads -> {"rest", "store", "request", "take", "label", "update"}]
  /\ local \in [Threads -> BOOLEAN]

\* The label shows the last value requested, unless one waits or is being set:
\* the mailbox loses no request, however the threads race, once the page loads.
LastRequestShown ==
  ~early /\ ~pending /\ pc["render"] # "label" => label = value

AtRest == ~Busy("window") /\ ~Busy("render")

\* While nothing is under way and nothing waits, the label tells the truth, if
\* no key came too early and no key and click ever crossed.
LabelCurrent ==
  ~early /\ ~crossed /\ AtRest /\ ~pending /\ pc["render"] # "label" => label = visible

\* No toggle is lost while key and button do not cross: between toggles the
\* captions are visible if and only if their number is even.
NoToggleLost == ~crossed /\ AtRest => visible = ~odd
=============================================================================
