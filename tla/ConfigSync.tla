----------------------------- MODULE ConfigSync -----------------------------
(***************************************************************************)
(* Where a setting lives: in settings.ini, in g_Config, and in the page of  *)
(* the settings panel (window.__state).  LoadConfig reads the file when the *)
(* game starts; OnDOMReady pushes g_Config into the page; every frame of    *)
(* the open panel carries out Save or Reset and polls the page back into    *)
(* g_Config; Save writes the file key by key.  The game may end at any      *)
(* point, also in the middle of Save.                                       *)
(*                                                                         *)
(* The way back from the page is a string of JSON that ApplyConfigJson      *)
(* takes apart by hand: it does not undo the escapes of JSON.stringify, and *)
(* it ends every value at the first ',' or '}'.  What becomes of a value on *)
(* that way is a constant, and what is promised of a setting depends on it. *)
(*                                                                         *)
(* All of this runs on the render thread, so that a step is what happens    *)
(* between two points where input arrives or the game may end.              *)
(***************************************************************************)

EXTENDS Naturals

CONSTANTS
  Exposed,   \* settings with a control that RefreshAllFromConfig sets
  Unsynced,  \* settings with a control that it leaves alone: text_alignment
  FileOnly,  \* settings without a control
  Language,  \* ui_language
  Before,    \* the setting in front of each in the snapshot, where that can matter
  Rank,      \* the place of each in SaveConfig
  Values,    \* what a setting may be, after SanitizeConfig
  Texts,     \* what may follow a key in the file
  Offered,   \* the values a control offers
  Typed,     \* the texts a user gives a setting in the file
  Format,    \* the text SaveConfig writes for a value
  Parse,     \* the value LoadConfig makes of a text, sanitized
  Shown,     \* what the page gets for a value: of a number, six digits
  Received,  \* what ApplyConfigJson makes of a value of the page, sanitized
  Cut,       \* values with a ',' or '}' in them, which end there
  Default,   \* g_DefaultConfig, which the markup of the page repeats
  Absent     \* no such key, and no value received

Keys == Exposed \cup Unsynced \cup FileOnly
Controls == Exposed \cup Unsynced

ASSUME KeysAssumption ==
  /\ Exposed \cap Unsynced = {}
  /\ FileOnly \cap (Exposed \cup Unsynced) = {}
  /\ Language \in Exposed
  /\ Absent \notin Keys
  /\ Before \in [Controls -> Exposed \cup {Absent}]
  /\ Rank \in [Keys -> Nat]
ASSUME ValuesAssumption ==
  /\ Default \in [Keys -> Values]
  /\ Offered \in [Controls -> SUBSET Values]
  /\ Typed \in [Keys -> SUBSET Texts]
  /\ Format \in [Values -> Texts]
  /\ Parse \in [Texts -> Values]
  /\ Absent \notin Values \cup Texts
ASSUME BridgeAssumption ==
  /\ Shown \in [Values -> Values]
  /\ Received \in [Values -> Values \cup {Absent}]
  /\ Cut \subseteq Values
  /\ \A v \in Values : Shown[v] \in Cut <=> v \in Cut

VARIABLES
  rpc,             \* where the render thread is; "off": the game is not running
  file,            \* settings.ini
  config,          \* g_Config
  page,            \* window.__state
  dirty,           \* window.__stateDirty
  saveRequested,   \* window.__saveRequested
  resetRequested,  \* window.__resetRequested
  unwritten,       \* the keys SaveConfig has still to write
  wanted,          \* history: the last value the file, the user or Reset asked for
  wasReset,        \* history: Reset was carried out in this session
  promise          \* history: the values the next start may find

flags == <<saveRequested, resetRequested>>
history == <<wanted, wasReset, promise>>
vars == <<rpc, file, config, page, dirty, flags, unwritten, history>>

Stages == {"off", "loaded", "closed", "events", "serve", "saving", "poll", "update"}

Step(from, to) == rpc = from /\ rpc' = to
-----------------------------------------------------------------------------
(* Start and end of the game *)

\* Without the key the default stands.
Loaded == [k \in Keys |-> IF file[k] = Absent THEN Default[k] ELSE Parse[file[k]]]

LoadConfig ==
  /\ Step("off", "loaded")
  /\ config' = Loaded
  /\ wanted' = Loaded
  /\ wasReset' = FALSE
  /\ UNCHANGED <<file, page, dirty, flags, unwritten, promise>>

\* RefreshAllFromConfig; a key without a control is not in __state.
Refreshed(p, c) == [k \in Keys |-> IF k \in Exposed THEN Shown[c[k]] ELSE p[k]]

\* The script of the page and OnDOMReady, in one Update.
PageLoads ==
  /\ rpc = "loaded" /\ rpc' \in {"closed", "events"}
  /\ page' = Refreshed(page, config)
  /\ dirty' = TRUE
  /\ UNCHANGED <<file, config, flags, unwritten, history>>

\* The game ends, or crashes.
Exit ==
  /\ rpc # "off" /\ rpc' = "off"
  /\ config' = Default
  /\ page' = [k \in Keys |-> Absent]
  /\ dirty' = FALSE
  /\ saveRequested' = FALSE /\ resetRequested' = FALSE
  /\ unwritten' = {}
  /\ UNCHANGED <<file, history>>

\* The user edits settings.ini.
EditFile(k, text) ==
  /\ rpc = "off"
  /\ file' = [file EXCEPT ![k] = text]
  /\ promise' = [promise EXCEPT ![k] = {Parse[text]}]
  /\ UNCHANGED <<rpc, config, page, dirty, flags, unwritten, wanted, wasReset>>
-----------------------------------------------------------------------------
(* The user, in the open panel *)

Pick(k, value) ==
  /\ rpc = "events"
  /\ page' = [page EXCEPT ![k] = value]
  /\ dirty' = TRUE
  /\ wanted' = [wanted EXCEPT ![k] = value]
  /\ UNCHANGED <<rpc, file, config, flags, unwritten, wasReset, promise>>

ClickSave ==
  /\ rpc = "events"
  /\ saveRequested' = TRUE
  /\ UNCHANGED <<rpc, file, config, page, dirty, resetRequested, unwritten, history>>

ClickReset ==
  /\ rpc = "events"
  /\ resetRequested' = TRUE
  /\ UNCHANGED <<rpc, file, config, page, dirty, saveRequested, unwritten, history>>

\* F10 opens the panel.
Open ==
  /\ Step("closed", "events")
  /\ UNCHANGED <<file, config, page, dirty, flags, unwritten, history>>
-----------------------------------------------------------------------------
(* A frame of the open panel *)

\* Behind a value that is cut short the parser takes its closing quote for the
\* opening one of a key, and the next setting for that of an unknown key.
Swallowed(k) == Before[k] # Absent /\ page[Before[k]] \in Cut

\* ApplyConfigJson of hlaConfig.snapshot().
Applied ==
  [k \in Keys |->
     IF page[k] = Absent \/ Swallowed(k) \/ Received[page[k]] = Absent
     THEN config[k] ELSE Received[page[k]]]

Dispatched ==
  /\ Step("events", "serve")
  /\ UNCHANGED <<file, config, page, dirty, flags, unwritten, history>>

\* The page asked to be closed: Render returns and leaves the rest for the next
\* time the panel is open.
CloseFirst ==
  /\ Step("serve", "closed")
  /\ UNCHANGED <<file, config, page, dirty, flags, unwritten, history>>

ServeNothing ==
  /\ Step("serve", "poll")
  /\ ~saveRequested /\ ~resetRequested
  /\ UNCHANGED <<file, config, page, dirty, flags, unwritten, history>>

\* Reset leaves the alignment in the page, and the page hands it back.
Settled(k) == k \notin Unsynced \/ ~wasReset

\* The wanted value goes to the page and back unchanged, and so does not cut off
\* the next one.
Whole(v) == Shown[v] = v /\ Received[v] = v
Travels(k) ==
  k \in FileOnly \/
    /\ Whole(wanted[k])
    /\ Before[k] = Absent \/ wanted[Before[k]] \notin Cut

\* What is saved is read again as the same: at most two decimals, no '#' or ';'.
Lasts(k) == Travels(k) /\ Parse[Format[wanted[k]]] = wanted[k]

Meant(k) == IF Settled(k) /\ Lasts(k) THEN {wanted[k]} ELSE Values

\* Mutant: the file gets what was polled last.
ServeSaveStale ==
  /\ Step("serve", "saving")
  /\ saveRequested
  /\ unwritten' = Keys
  /\ promise' = [k \in Keys |-> promise[k] \cup Meant(k)]
  /\ UNCHANGED <<file, config, page, dirty, flags, wanted, wasReset>>

\* Save: a fresh snapshot first, ...
ServeSave ==
  /\ Step("serve", "saving")
  /\ saveRequested
  /\ config' = Applied
  /\ unwritten' = Keys
  /\ promise' = [k \in Keys |-> promise[k] \cup Meant(k)]
  /\ UNCHANGED <<file, page, dirty, flags, wanted, wasReset>>

\* ... then SaveConfig, one WritePrivateProfileString per key, ...
WriteKey(k) ==
  /\ Step("saving", "saving")
  /\ k \in unwritten /\ \A i \in unwritten : Rank[k] <= Rank[i]
  /\ file' = [file EXCEPT ![k] = Format[config[k]]]
  /\ unwritten' = unwritten \ {k}
  /\ UNCHANGED <<config, page, dirty, flags, history>>

\* ... and _clearFlags.
Saved ==
  /\ Step("saving", "poll")
  /\ unwritten = {}
  /\ saveRequested' = FALSE /\ resetRequested' = FALSE
  /\ promise' = [k \in Keys |-> Meant(k)]
  /\ UNCHANGED <<file, config, page, dirty, unwritten, wanted, wasReset>>

\* Mutant: the language g_Config holds survives instead.
ResetConfigEarlier == [Default EXCEPT ![Language] = config[Language]]

\* The language chosen in the page survives a Reset.
ResetConfig == [Default EXCEPT ![Language] = page[Language]]

\* Mutant: Reset does not set the controls.
ServeResetAlone ==
  /\ Step("serve", "poll")
  /\ ~saveRequested /\ resetRequested
  /\ config' = ResetConfig
  /\ saveRequested' = FALSE /\ resetRequested' = FALSE
  /\ wanted' = [Default EXCEPT ![Language] = wanted[Language]]
  /\ wasReset' = TRUE
  /\ UNCHANGED <<file, page, dirty, unwritten, promise>>

\* Reset, RefreshAllFromConfig and _clearFlags.
ServeReset ==
  /\ Step("serve", "poll")
  /\ ~saveRequested /\ resetRequested
  /\ config' = ResetConfig
  /\ page' = Refreshed(page, ResetConfig)
  /\ saveRequested' = FALSE /\ resetRequested' = FALSE
  /\ wanted' = [Default EXCEPT ![Language] = wanted[Language]]
  /\ wasReset' = TRUE
  /\ UNCHANGED <<file, dirty, unwritten, promise>>

\* The live poll, in every fifth frame ...
PollConfig ==
  /\ Step("poll", "update")
  /\ config' = Applied
  /\ dirty' = FALSE
  /\ UNCHANGED <<file, page, flags, unwritten, history>>

\* ... and whenever the page is dirty.
SkipPoll ==
  /\ Step("poll", "update")
  /\ ~dirty
  /\ UNCHANGED <<file, config, page, dirty, flags, unwritten, history>>

\* The frame ends; F10 may close the panel before the next.
Update ==
  /\ rpc = "update" /\ rpc' \in {"events", "closed"}
  /\ UNCHANGED <<file, config, page, dirty, flags, unwritten, history>>
-----------------------------------------------------------------------------
(* The specification *)

Init ==
  /\ rpc = "off"
  /\ file = [k \in Keys |-> Absent]
  /\ config = Default
  /\ page = [k \in Keys |-> Absent]
  /\ dirty = FALSE
  /\ saveRequested = FALSE /\ resetRequested = FALSE
  /\ unwritten = {}
  /\ wanted = Default
  /\ wasReset = FALSE
  /\ promise = [k \in Keys |-> {Default[k]}]

Next ==
  \/ LoadConfig \/ PageLoads \/ Exit
  \/ \E k \in Keys : \E text \in Typed[k] : EditFile(k, text)
  \/ \E k \in Controls : \E value \in Offered[k] : Pick(k, value)
  \/ ClickSave \/ ClickReset \/ Open
  \/ Dispatched \/ CloseFirst \/ ServeNothing
  \/ ServeSave \/ Saved \/ ServeReset
  \/ \E k \in Keys : WriteKey(k)
  \/ PollConfig \/ SkipPoll \/ Update

Spec == Init /\ [][Next]_vars
-----------------------------------------------------------------------------
(* Properties *)

\* The types of the variables.
TypeOK ==
  /\ rpc \in Stages
  /\ file \in [Keys -> Texts \cup {Absent}]
  /\ config \in [Keys -> Values]
  /\ page \in [Keys -> Values \cup {Absent}]
  /\ dirty \in BOOLEAN /\ saveRequested \in BOOLEAN /\ resetRequested \in BOOLEAN
  /\ unwritten \subseteq Keys
  /\ wanted \in [Keys -> Values]
  /\ wasReset \in BOOLEAN
  /\ promise \in [Keys -> SUBSET Values]

\* At the end of a frame g_Config holds what was asked for last, in the file, in
\* the panel or by Reset, if that crosses the bridge unchanged: no edit is lost or
\* undone by Save, Reset, the poll or a close in between, a setting does not
\* suffer from another one but the one in front of it, and the language outlives
\* Reset.
ConfigIsWanted ==
  rpc = "update" => \A k \in Keys : Settled(k) /\ Travels(k) => config[k] = wanted[k]

\* At the end of a frame the controls show what is configured, wherever the page
\* and ApplyConfigJson agree on what the setting is.
PanelShowsConfig ==
  rpc = "update" => \A k \in Exposed : Travels(k) => page[k] = config[k]

\* The next start finds what the panel showed at the last Save, or what was
\* written into the file since, of every setting that crosses the bridge and the
\* file unchanged; after a crash during Save each setting is the old or the new
\* one.
SavedSurvives ==
  rpc = "loaded" => \A k \in Keys : config[k] \in promise[k]

\* Reset restores every setting but the language.
ResetRestores ==
  rpc = "update" => \A k \in Keys : Travels(k) => config[k] = wanted[k]
=============================================================================
