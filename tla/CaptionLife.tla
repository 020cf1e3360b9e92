---------------------------- MODULE CaptionLife ----------------------------
(***************************************************************************)
(* What the overlay promises of a caption: it waits until its window opens, *)
(* is shown while the window is open, fades out once the window is closed,  *)
(* and is gone.  Nothing is said here of textures, phrases, settings or of  *)
(* the threads behind it.  Only the settings panel may take captions away   *)
(* before their time.                                                       *)
(***************************************************************************)
EXTENDS Integers

VARIABLES
  now,    \* the time
  sent,   \* number of captions sent so far
  life,   \* the captions not yet gone, by arrival number
  panel   \* the settings panel is acting on the captions

vars == <<now, sent, life, panel>>

Caption == [stage: {"waiting", "shown", "leaving"}, from: Int, until: Int]

TypeOK ==
  /\ now \in Nat /\ sent \in Nat /\ panel \in BOOLEAN
  /\ DOMAIN life \subseteq 1..sent
  /\ \A i \in DOMAIN life : life[i] \in Caption

Pass ==
  /\ now' = now + 1
  /\ UNCHANGED <<sent, life, panel>>

\* Captions arrive, now or with a window that opens later.
Send ==
  /\ sent' >= sent
  /\ DOMAIN life \subseteq DOMAIN life'
  /\ DOMAIN life' \subseteq DOMAIN life \cup (sent + 1 .. sent')
  /\ \A i \in DOMAIN life : life'[i] = life[i]
  /\ \A i \in DOMAIN life' \ DOMAIN life :
       /\ life'[i].stage = "waiting"
       /\ life'[i].from >= now
       /\ life'[i].until >= life'[i].from
  /\ UNCHANGED <<now, panel>>

\* A frame moves every caption to where it should be at this time.  One that
\* was never shown before its window closed is gone at once.
Moved(c, d) ==
  /\ d.from = c.from
  /\ d.until = c.until
  /\ IF now >= c.until THEN c.stage # "waiting" /\ d.stage = "leaving"
     ELSE IF now >= c.from THEN c.stage # "leaving" /\ d.stage \in {c.stage, "shown"}
     ELSE c.stage = "waiting" /\ d.stage = "waiting"

Frame ==
  /\ DOMAIN life' \subseteq DOMAIN life
  /\ \A i \in DOMAIN life' : Moved(life[i], life'[i])
  /\ \A i \in DOMAIN life \ DOMAIN life' : now >= life[i].until
  /\ UNCHANGED <<now, sent, panel>>

\* The panel takes captions away: previews, or all of them on Save and Reset.
Withdraw ==
  /\ panel
  /\ DOMAIN life' \subseteq DOMAIN life
  /\ \A i \in DOMAIN life' : life'[i] = life[i]
  /\ panel' \in BOOLEAN
  /\ UNCHANGED <<now, sent>>

PanelStarts ==
  /\ panel' = TRUE
  /\ UNCHANGED <<now, sent, life>>

Init ==
  /\ now \in Nat
  /\ sent = 0
  /\ DOMAIN life = {}
  /\ panel = FALSE

Next == Pass \/ Send \/ Frame \/ Withdraw \/ PanelStarts

Spec == Init /\ [][Next]_vars
=============================================================================
