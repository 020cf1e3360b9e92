------------------------ MODULE CaptionVisibilityProofs ------------------------
(***************************************************************************)
(* Theorems about CaptionVisibility.  Two arguments, each an invariant: what*)
(* is requested reaches the label (Delivery), and what is requested is true *)
(* as long as key and button do not cross (Order).                          *)
(***************************************************************************)
EXTENDS CaptionVisibility, TLAPS

\* Before the page's script has run, nothing is under way.
QuietWhileLoading ==
  ~ready => ~pending /\ ~Busy("window") /\ pc["render"] \in {"rest", "take", "update"}

\* The value the render thread took is the last one, or a newer one waits.
TakenIsLast == pc["render"] = "label" => pending \/ local["render"] = value

Delivered == ~pending /\ pc["render"] # "label" => label = value

Delivery ==
  TypeOK /\ (~early => QuietWhileLoading /\ TakenIsLast /\ Delivered)

\* A thread that toggles or requests while the other does not knows what it
\* will find.
Alone(t) ==
  /\ pc[t] = "store" => value = visible /\ local[t] = ~visible /\ visible = odd
  /\ pc[t] = "request" => local[t] = visible /\ visible = ~odd

OneAtATime ==
  /\ ~(Busy("window") /\ Busy("render"))
  /\ AtRest => value = visible /\ visible = ~odd
  /\ \A t \in Threads : Alone(t)

\* The message thread only ever rests, stores and requests.
WindowStages == pc["window"] \in {"rest", "store", "request"}

Order == TypeOK /\ WindowStages /\ (~crossed => OneAtATime)

\* No step breaks the types.
LEMMA TypeInv == TypeOK /\ [Next]_vars => TypeOK'
<1> SUFFICES ASSUME TypeOK, [Next]_vars PROVE TypeOK'
  OBVIOUS
<1> USE DEF TypeOK, Move, Threads, history
<1>1. ASSUME NEW t \in Threads, StoreVisible(t) PROVE TypeOK'
  BY <1>1 DEF StoreVisible
<1>2. ASSUME NEW t \in Threads, RequestCaptionVisibleChange(t) PROVE TypeOK'
  BY <1>2 DEF RequestCaptionVisibleChange, After
<1>3. CASE PressF11
  BY <1>3 DEF PressF11, Begin, LoadVisible
<1>4. CASE PressF10
  BY <1>4 DEF PressF10, Begin
<1>5. CASE BeginFrame
  BY <1>5 DEF BeginFrame
<1>6. CASE ConsumeCaptionToggleRequest
  BY <1>6 DEF ConsumeCaptionToggleRequest, Begin, LoadVisible
<1>7. CASE TakePending
  BY <1>7 DEF TakePending
<1>8. CASE SetTranslationVisible
  BY <1>8 DEF SetTranslationVisible
<1>9. CASE Update
  BY <1>9 DEF Update
<1>10. CASE UNCHANGED vars
  BY <1>10 DEF vars, history
<1> QED
  BY <1>1, <1>2, <1>3, <1>4, <1>5, <1>6, <1>7, <1>8, <1>9, <1>10 DEF Next

\* Once the page is ready, requests reach it in order.
LEMMA DeliveryInv == Delivery /\ [Next]_vars => Delivery'
<1> SUFFICES ASSUME Delivery, [Next]_vars PROVE Delivery'
  OBVIOUS
<1> USE DEF Delivery, TypeOK, Move, Threads, Busy, QuietWhileLoading, TakenIsLast,
            Delivered, history
<1>0. TypeOK'
  BY TypeInv
<1>1. ASSUME NEW t \in Threads, StoreVisible(t) PROVE Delivery'
  BY <1>0, <1>1 DEF StoreVisible
<1>2. ASSUME NEW t \in Threads, RequestCaptionVisibleChange(t) PROVE Delivery'
  BY <1>0, <1>2 DEF RequestCaptionVisibleChange, After
<1>3. CASE PressF11
  BY <1>0, <1>3 DEF PressF11, Begin, LoadVisible
<1>4. CASE PressF10
  BY <1>0, <1>4 DEF PressF10, Begin
<1>5. CASE BeginFrame
  BY <1>0, <1>5 DEF BeginFrame
<1>6. CASE ConsumeCaptionToggleRequest
  BY <1>0, <1>6 DEF ConsumeCaptionToggleRequest, Begin, LoadVisible
<1>7. CASE TakePending
  BY <1>0, <1>7 DEF TakePending
<1>8. CASE SetTranslationVisible
  BY <1>0, <1>8 DEF SetTranslationVisible
<1>9. CASE Update
  BY <1>0, <1>9 DEF Update
<1>10. CASE UNCHANGED vars
  BY <1>10 DEF vars
<1> QED
  BY <1>1, <1>2, <1>3, <1>4, <1>5, <1>6, <1>7, <1>8, <1>9, <1>10 DEF Next

\* As long as nothing crosses, every toggle starts from the true state.
LEMMA OrderInv == Order /\ [Next]_vars => Order'
<1> SUFFICES ASSUME Order, [Next]_vars PROVE Order'
  OBVIOUS
<1> USE DEF Order, TypeOK, Move, Threads, Busy, AtRest, Alone, OneAtATime, WindowStages,
            history
<1>0. TypeOK'
  BY TypeInv
<1>1. ASSUME NEW t \in Threads, StoreVisible(t) PROVE Order'
  BY <1>0, <1>1 DEF StoreVisible
<1>2. ASSUME NEW t \in Threads, RequestCaptionVisibleChange(t) PROVE Order'
  BY <1>0, <1>2 DEF RequestCaptionVisibleChange, After
<1>3. CASE PressF11
  BY <1>0, <1>3 DEF PressF11, Begin, LoadVisible
<1>4. CASE PressF10
  BY <1>0, <1>4 DEF PressF10, Begin
<1>5. CASE BeginFrame
  BY <1>0, <1>5 DEF BeginFrame
<1>6. CASE ConsumeCaptionToggleRequest
  BY <1>0, <1>6 DEF ConsumeCaptionToggleRequest, Begin, LoadVisible
<1>7. CASE TakePending
  BY <1>0, <1>7 DEF TakePending
<1>8. CASE SetTranslationVisible
  BY <1>0, <1>8 DEF SetTranslationVisible
<1>9. CASE Update
  BY <1>0, <1>9 DEF Update
<1>10. CASE UNCHANGED vars
  BY <1>10 DEF vars
<1> QED
  BY <1>1, <1>2, <1>3, <1>4, <1>5, <1>6, <1>7, <1>8, <1>9, <1>10 DEF Next

\* Both invariants hold at the start.
LEMMA InitInv == Init => Delivery /\ Order
BY DEF Init, Delivery, Order, TypeOK, Threads, Busy, QuietWhileLoading, TakenIsLast,
       Delivered, WindowStages, OneAtATime, Alone, AtRest

\* Requests are not lost between the threads: the label is the last one made.
THEOREM RequestsArrive == Spec => []LastRequestShown
<1>1. Delivery /\ [Next]_vars => Delivery'
  BY DeliveryInv
<1>2. Delivery => LastRequestShown
  BY DEF Delivery, Delivered, LastRequestShown
<1>3. Init => Delivery
  BY InitInv
<1> QED
  BY <1>1, <1>2, <1>3, PTL DEF Spec

\* As long as key and button do not cross, every toggle counts.
THEOREM TogglesCount == Spec => []NoToggleLost
<1>1. Order /\ [Next]_vars => Order'
  BY OrderInv
<1>2. Order => NoToggleLost
  BY DEF Order, OneAtATime, NoToggleLost
<1>3. Init => Order
  BY InitInv
<1> QED
  BY <1>1, <1>2, <1>3, PTL DEF Spec

\* As long as nothing crosses and no key comes too early, the label is true.
THEOREM LabelIsTrue == Spec => []LabelCurrent
<1>1. Order /\ [Next]_vars => Order'
  BY OrderInv
<1>2. Delivery /\ [Next]_vars => Delivery'
  BY DeliveryInv
<1>3. Order /\ Delivery => LabelCurrent
  BY DEF Order, Delivery, Delivered, OneAtATime, LabelCurrent
<1> QED
  BY <1>1, <1>2, <1>3, InitInv, PTL DEF Spec
=============================================================================
