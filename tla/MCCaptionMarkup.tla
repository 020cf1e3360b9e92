--------------------------- MODULE MCCaptionMarkup ---------------------------
(* Values for the constants of CaptionMarkup and WordWrap. *)
EXTENDS WordWrap

MCColours == {"config", "red", "green"}
MCTokens ==
  [tag: {"char"}, cp: Letters] \cup [tag: {"space"} \cup (Plain \ {"italic"})] \cup
  {[tag |-> "clr", ink |-> "red"],
   [tag |-> "playerclr", own |-> "red", other |-> "green"],
   [tag |-> "delay", delay |-> 1], [tag |-> "openDelay", delay |-> 2]}
=============================================================================
