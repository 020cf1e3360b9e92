--------------------------- MODULE MCCaptionQueue ---------------------------
(* Values for the constants of CaptionQueue. *)
EXTENDS CaptionQueue

P(delays, chars, sfx, tagged) ==
  [delays |-> delays, chars |-> chars, sfx |-> sfx, tagged |-> tagged]
T(parts, duration) == [parts |-> parts, duration |-> duration]

\* Two <sb> parts: a tagged one, the second phrase of which is due after a
\* tick, and a sound effect.
Split == T(<<P(<<0, 1>>, 2, FALSE, TRUE), P(<<0>>, 1, TRUE, FALSE)>>, 2)
\* The delays out of order: the first phrase is due after the second.
Unordered == T(<<P(<<1, 0>>, 1, FALSE, TRUE)>>, 1)
\* A plain caption, and one of two short parts.
Short == T(<<P(<<0>>, 1, FALSE, FALSE)>>, 1)
ShortSplit == T(<<P(<<0>>, 1, FALSE, TRUE), P(<<0>>, 1, TRUE, FALSE)>>, 2)
\* The text of the Preview button.
Sample == T(<<P(<<0>>, 1, FALSE, FALSE)>>, 99)

Look(colour, font, layout, spacing) ==
  [s \in Settings |-> CASE s = "colour"  -> colour
                        [] s = "font"    -> font
                        [] s = "layout"  -> layout
                        [] s = "spacing" -> spacing]
Plain == Look(0, 0, 0, 0)

MCTexts == {Split, Unordered}
MCTextsShort == {Short, ShortSplit}
MCPreviews == {Sample}
MCPreviewsShort == {Short}
MCNoPreviews == {}
MCPlain == {Plain}
MCLooks == {Plain, Look(1, 0, 1, 0), Look(0, 1, 0, 0), Look(0, 0, 0, 1)}
MCFontOnly == {Plain, Look(0, 1, 0, 0)}
MCBuilds == {TRUE}
MCBoth == BOOLEAN

(***************************************************************************)
(* A clock without an end.  CaptionQueue looks at differences of times only *)
(* (a rebuilt of 0 stands for "never"), so that at MaxTime the clock may    *)
(* stand still while every other time moves one tick back.  Times long past *)
(* stay at 1, which is at least Throttle ticks before MaxTime; the start of *)
(* an expired entry matters to nothing any more.                            *)
(***************************************************************************)
Earlier(t) == IF t > 1 THEN t - 1 ELSE t

Rebase ==
  /\ now = MaxTime
  /\ MaxTime > Throttle
  /\ lastFrame > 1
  /\ lastFrame' = lastFrame - 1
  /\ queue' = [i \in DOMAIN queue |->
                 [queue[i] EXCEPT !.start = IF queue[i].expired THEN @ ELSE @ - 1,
                                  !.rebuilt = Earlier(@)]]
  /\ UNCHANGED <<now, cfg, pushed, imgui, shaper, rpc, before, drawList>>
  /\ UNCHANGED history

ForeverSpec ==
  /\ Init /\ [][Next \/ Rebase]_vars
  /\ WF_vars(Tick \/ Rebase) /\ WF_vars(Present)
=============================================================================
