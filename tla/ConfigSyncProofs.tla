-------------------------- MODULE ConfigSyncProofs --------------------------
(***************************************************************************)
(* Theorems about ConfigSync, for any set of settings, values and texts, and *)
(* whatever the bridge makes of a value.  Two arguments: as long as page and *)
(* g_Config differ the page is dirty and right (Wants), and the file is      *)
(* never further from the promise than the Save that is under way (Keeps).   *)
(***************************************************************************)
EXTENDS ConfigSync, TLAPS

Running == rpc \notin {"off", "loaded"}

\* Which keys the page knows: none before it is loaded, then at least the ones
\* it was sent, and never one it has no control for.
PageKeys ==
  \A k \in Keys :
    /\ k \in FileOnly \/ ~Running => page[k] = Absent
    /\ k \in Exposed /\ Running => page[k] # Absent

\* What the page knows is what is wanted, as far as the page can show it; of the
\* rest g_Config is right.  It also knows whether the wanted value will be cut.
PageIsWanted ==
  Running => \A k \in Keys : Settled(k) =>
    /\ page[k] = Absent => config[k] = wanted[k]
    /\ page[k] # Absent /\ Shown[wanted[k]] = wanted[k] => page[k] = wanted[k]
    /\ k \in Exposed => (page[k] \in Cut <=> wanted[k] \in Cut)

\* A difference between page and g_Config is flagged.
Flagged ==
  ~dirty => \A k \in Keys :
    Settled(k) /\ Travels(k) /\ page[k] # Absent => config[k] = page[k]

Wants ==
  /\ TypeOK /\ PageKeys /\ PageIsWanted /\ Flagged
  /\ rpc = "loaded" => config = wanted /\ ~wasReset
  /\ rpc = "update" => ~dirty

\* The file is within the promise, and during Save on the way to g_Config.
Keeps ==
  /\ \A k \in Keys : Loaded[k] \in promise[k]
  /\ rpc = "loaded" => config = Loaded
  /\ rpc = "saving" => \A k \in Keys :
       /\ config[k] \in Meant(k)
       /\ Meant(k) \subseteq promise[k]
       /\ k \notin unwritten => Loaded[k] \in Meant(k)

USE KeysAssumption, ValuesAssumption, BridgeAssumption

\* The language is a setting with a control.
LEMMA LanguageKey == Language \in Keys /\ Settled(Language)
BY DEF Keys, Settled

\* A start leaves g_Config with proper values.
LEMMA LoadedType == TypeOK => Loaded \in [Keys -> Values]
BY DEF TypeOK, Loaded

\* So does a snapshot of the page.
LEMMA AppliedType == TypeOK => Applied \in [Keys -> Values]
BY DEF TypeOK, Applied

\* What is wanted and travels comes back as it is, past a neighbour that is whole.
LEMMA AppliedIsWanted ==
  ASSUME TypeOK, PageKeys, PageIsWanted, Running, NEW k \in Keys, Settled(k), Travels(k)
  PROVE  Applied[k] = wanted[k]
<1>1. CASE page[k] = Absent
  BY <1>1 DEF Applied, PageIsWanted
<1>2. CASE page[k] # Absent
  <2>1. k \in Controls /\ Whole(wanted[k])
    BY <1>2 DEF PageKeys, Travels, Controls, Keys
  <2>2. page[k] = wanted[k] /\ Received[page[k]] = wanted[k]
    BY <1>2, <2>1 DEF PageIsWanted, Whole
  <2>3. ~Swallowed(k)
    <3> SUFFICES ASSUME Before[k] # Absent PROVE page[Before[k]] \notin Cut
      BY DEF Swallowed
    <3>1. Before[k] \in Exposed /\ Settled(Before[k])
      BY <2>1 DEF Settled
    <3>2. wanted[Before[k]] \notin Cut
      BY <2>1 DEF Travels, Controls
    <3> QED
      BY <3>1, <3>2 DEF PageIsWanted, Keys
  <2> QED
    BY <1>2, <2>2, <2>3 DEF Applied, TypeOK
<1> QED
  BY <1>1, <1>2

\* What is meant is a value.
LEMMA MeantType == TypeOK => \A k \in Keys : Meant(k) \subseteq Values
BY DEF TypeOK, Meant

\* Reset needs to know the language of the page.
LEMMA ResetType ==
  TypeOK /\ PageKeys /\ Running => ResetConfig \in [Keys -> Values]
BY LanguageKey DEF TypeOK, PageKeys, ResetConfig

\* Initially both invariants hold.
LEMMA InitInv == Init => Wants /\ Keeps
<1> SUFFICES ASSUME Init PROVE Wants /\ Keeps
  OBVIOUS
<1>1. TypeOK
  <2>1. promise \in [Keys -> SUBSET Values]
    BY DEF Init
  <2>2. wanted \in [Keys -> Values] /\ config \in [Keys -> Values]
    BY DEF Init
  <2>3. file \in [Keys -> Texts \cup {Absent}] /\ page \in [Keys -> Values \cup {Absent}]
    BY DEF Init
  <2> QED
    BY <2>1, <2>2, <2>3 DEF Init, TypeOK, Stages
<1>2. Wants
  BY <1>1 DEF Init, Wants, PageKeys, PageIsWanted, Flagged, Running
<1>3. Keeps
  BY DEF Init, Keeps, Loaded
<1> QED
  BY <1>2, <1>3

\* What is wanted, and whether it travels, is a matter of the history alone.
LEMMA SameWishes ==
  ASSUME UNCHANGED <<wanted, wasReset>>
  PROVE  \A k \in Keys : Settled(k)' = Settled(k) /\ Travels(k)' = Travels(k)
BY DEF Settled, Travels

\* Reset wants the defaults and the language.
LEMMA ResetIsWanted ==
  ASSUME Wants, Running, ServeReset, NEW k \in Keys, Settled(k)'
  PROVE  /\ k \notin Unsynced
         /\ k # Language => wanted'[k] = ResetConfig[k]
         /\ wanted'[Language] = wanted[Language]
         /\ ResetConfig[Language] = page[Language]
BY LanguageKey DEF Wants, TypeOK, ServeReset, Settled, ResetConfig

\* A step that leaves page, g_Config and wishes alone, and no difference unflagged.
LEMMA WantsFrame ==
  ASSUME Wants, UNCHANGED <<config, page, wanted, wasReset>>,
         Running <=> Running', rpc' = "loaded" => rpc = "loaded",
         rpc' = "update" => ~dirty', TypeOK', dirty => dirty'
  PROVE  Wants'
BY SameWishes DEF Wants, PageKeys, PageIsWanted, Flagged

\* What is wanted reaches g_Config.
LEMMA WantsInv == Wants /\ [Next]_vars => Wants'
<1> SUFFICES ASSUME Wants, [Next]_vars PROVE Wants'
  OBVIOUS
<1> USE DEF Step, flags, history
<1>1. CASE LoadConfig
  <2>1. TypeOK'
    BY <1>1, LoadedType DEF LoadConfig, Wants, TypeOK, Stages
  <2> QED
    BY <1>1, <2>1 DEF LoadConfig, Wants, PageKeys, PageIsWanted, Flagged, Running
<1>2. CASE PageLoads
  <2>1. TypeOK'
    BY <1>2 DEF PageLoads, Refreshed, Wants, TypeOK, Stages, Keys
  <2>2. config = wanted /\ ~wasReset /\ \A k \in Keys : page[k] = Absent
    BY <1>2 DEF PageLoads, Wants, PageKeys, Running
  <2>3. \A k \in Keys : page'[k] = IF k \in Exposed THEN Shown[wanted[k]] ELSE Absent
    BY <1>2, <2>2 DEF PageLoads, Refreshed
  <2>4. \A k \in Keys : wanted[k] \in Values
    BY DEF Wants, TypeOK
  <2>5. PageKeys'
    BY <1>2, <2>3, <2>4 DEF PageLoads, PageKeys, Keys, Running
  <2>6. PageIsWanted'
    BY <1>2, <2>2, <2>3, <2>4 DEF PageLoads, PageIsWanted
  <2> QED
    BY <1>2, <2>1, <2>5, <2>6 DEF PageLoads, Wants, Flagged
<1>3. CASE Exit
  <2>1. TypeOK'
    BY <1>3 DEF Exit, Wants, TypeOK, Stages
  <2> QED
    BY <1>3, <2>1 DEF Exit, Wants, PageKeys, PageIsWanted, Flagged, Running
<1>4. ASSUME NEW k \in Keys, NEW text \in Typed[k], EditFile(k, text) PROVE Wants'
  <2>1. TypeOK'
    BY <1>4 DEF EditFile, Wants, TypeOK, Stages
  <2> QED
    BY <1>4, <2>1, WantsFrame DEF EditFile, Running
<1>5. ASSUME NEW k \in Controls, NEW value \in Offered[k], Pick(k, value)
      PROVE Wants'
  <2>1. k \in Keys /\ k \notin FileOnly /\ value \in Values
    BY <1>5 DEF Controls, Keys
  <2>2. TypeOK'
    BY <1>5, <2>1 DEF Pick, Wants, TypeOK, Stages
  <2>3. PageKeys'
    BY <1>5, <2>1 DEF Pick, Wants, TypeOK, PageKeys, Running
  <2>4. ASSUME NEW i \in Keys PROVE Settled(i)' = Settled(i)
    BY <1>5 DEF Pick, Settled
  <2>5. PageIsWanted'
    BY <1>5, <2>1, <2>4 DEF Pick, Wants, TypeOK, PageIsWanted, Running
  <2> QED
    BY <1>5, <2>2, <2>3, <2>5 DEF Pick, Wants, Flagged
<1>6. CASE ClickSave \/ ClickReset
  <2>1. TypeOK'
    BY <1>6 DEF ClickSave, ClickReset, Wants, TypeOK, Stages
  <2> QED
    BY <1>6, <2>1, WantsFrame DEF ClickSave, ClickReset, Running
<1>7. CASE Open \/ Dispatched \/ CloseFirst \/ ServeNothing \/ SkipPoll \/ Update
  <2>1. TypeOK'
    BY <1>7 DEF Open, Dispatched, CloseFirst, ServeNothing, SkipPoll, Update, Wants,
                TypeOK, Stages
  <2> QED
    BY <1>7, <2>1, WantsFrame DEF Open, Dispatched, CloseFirst, ServeNothing, SkipPoll,
                                  Update, Running
<1>8. ASSUME config' = Applied, UNCHANGED <<page, wanted, wasReset>>, TypeOK',
             Running, Running', rpc' = "update" => ~dirty'
      PROVE  Wants'
  <2>1. ASSUME NEW k \in Keys, Settled(k), Travels(k) PROVE config'[k] = wanted[k]
    BY <1>8, <2>1, AppliedIsWanted DEF Wants
  <2>2. ASSUME NEW k \in Keys, Settled(k), page[k] = Absent PROVE config'[k] = wanted[k]
    BY <1>8, <2>2 DEF Wants, Applied, PageIsWanted
  <2>3. ASSUME NEW k \in Keys, Settled(k), Travels(k), page[k] # Absent
        PROVE  page[k] = wanted[k]
    BY <1>8, <2>3 DEF Wants, PageIsWanted, PageKeys, Travels, Whole
  <2>4. PageKeys' /\ PageIsWanted'
    BY <1>8, <2>2, SameWishes DEF Wants, PageKeys, PageIsWanted
  <2>5. Flagged'
    BY <1>8, <2>1, <2>3, SameWishes DEF Flagged
  <2> QED
    BY <1>8, <2>4, <2>5 DEF Wants, Running
<1>9. CASE ServeSave
  <2>1. TypeOK'
    BY <1>9, AppliedType, MeantType DEF ServeSave, Wants, TypeOK, Stages
  <2> QED
    BY <1>8, <1>9, <2>1 DEF ServeSave, Running
<1>10. CASE Saved
  <2>1. TypeOK'
    BY <1>10, MeantType DEF Saved, Wants, TypeOK, Stages
  <2> QED
    BY <1>10, <2>1, WantsFrame DEF Saved, Running
<1>11. CASE ServeReset
  <2>1. Running /\ Running' /\ rpc' = "poll"
    BY <1>11 DEF ServeReset, Running
  <2>2. ResetConfig \in [Keys -> Values]
    BY <2>1, ResetType DEF Wants
  <2>3. TypeOK'
    <3>1. page' \in [Keys -> Values \cup {Absent}]
      BY <1>11, <2>2 DEF ServeReset, Refreshed, Wants, TypeOK
    <3>2. wanted' \in [Keys -> Values]
      BY <1>11, LanguageKey DEF ServeReset, Wants, TypeOK
    <3> QED
      BY <1>11, <2>2, <3>1, <3>2 DEF ServeReset, Wants, TypeOK, Stages
  <2>4. PageKeys'
    BY <1>11, <2>1, <2>2 DEF ServeReset, Refreshed, Wants, PageKeys, Keys
  <2>5. ASSUME NEW k \in Keys, Settled(k)'
        PROVE  /\ page'[k] = Absent => config'[k] = wanted'[k]
               /\ page'[k] # Absent /\ Shown[wanted'[k]] = wanted'[k] =>
                    page'[k] = wanted'[k] /\ config'[k] = wanted'[k]
               /\ k \in Exposed => (page'[k] \in Cut <=> wanted'[k] \in Cut)
    <3>1. /\ k \notin Unsynced
          /\ k # Language => wanted'[k] = ResetConfig[k]
          /\ wanted'[Language] = wanted[Language]
          /\ ResetConfig[Language] = page[Language]
      BY <1>11, <2>1, <2>5, ResetIsWanted
    <3>2. config'[k] = ResetConfig[k] /\ ResetConfig[k] \in Values
      BY <1>11, <2>2 DEF ServeReset
    <3>3. page'[k] = IF k \in Exposed THEN Shown[ResetConfig[k]] ELSE page[k]
      BY <1>11 DEF ServeReset, Refreshed
    <3>4. CASE k = Language
      <4>1. /\ page[k] # Absent
            /\ Shown[wanted[k]] = wanted[k] => page[k] = wanted[k]
            /\ page[k] \in Cut <=> wanted[k] \in Cut
        BY <2>1, <3>4, LanguageKey DEF Wants, PageKeys, PageIsWanted
      <4>2. page'[k] = Shown[page[k]] /\ page[k] \in Values /\ page'[k] \in Values
        BY <3>1, <3>2, <3>3, <3>4
      <4> QED
        BY <3>1, <3>2, <3>4, <4>1, <4>2
    <3>5. CASE k \in Exposed /\ k # Language
      BY <3>1, <3>2, <3>3, <3>5
    <3>6. CASE k \in FileOnly
      <4>1. page[k] = Absent /\ k \notin Exposed
        BY <3>6 DEF Wants, PageKeys
      <4> QED
        BY <3>1, <3>2, <3>3, <3>6, <4>1
    <3> QED
      BY <3>1, <3>4, <3>5, <3>6 DEF Keys
  <2>6. PageIsWanted'
    BY <2>5 DEF PageIsWanted
  <2>7. ASSUME NEW k \in Keys, Travels(k)', page'[k] # Absent
        PROVE  Shown[wanted'[k]] = wanted'[k]
    <3>1. k \notin FileOnly
      BY <2>1, <2>4, <2>7 DEF PageKeys
    <3> QED
      BY <2>7, <3>1 DEF Travels, Whole
  <2>8. Flagged'
    BY <2>5, <2>7 DEF Flagged
  <2> QED
    BY <2>1, <2>3, <2>4, <2>6, <2>8 DEF Wants
<1>12. ASSUME NEW k \in Keys, WriteKey(k) PROVE Wants'
  <2>1. TypeOK'
    BY <1>12 DEF WriteKey, Wants, TypeOK, Stages
  <2> QED
    BY <1>12, <2>1, WantsFrame DEF WriteKey, Running
<1>13. CASE PollConfig
  <2>1. TypeOK'
    BY <1>13, AppliedType DEF PollConfig, Wants, TypeOK, Stages
  <2> QED
    BY <1>8, <1>13, <2>1 DEF PollConfig, Running
<1>14. CASE UNCHANGED vars
  <2>1. UNCHANGED <<rpc, file, config, page, dirty, saveRequested, resetRequested,
                    unwritten, wanted, wasReset, promise>>
    BY <1>14 DEF vars
  <2>2. TypeOK'
    BY <2>1 DEF Wants, TypeOK
  <2> QED
    BY <2>1, <2>2, WantsFrame DEF Running, Wants
<1> QED
  BY <1>1, <1>2, <1>3, <1>4, <1>5, <1>6, <1>7, <1>9, <1>10, <1>11, <1>12, <1>13, <1>14
  DEF Next

\* A start, and what Save promises, depend on the file and the wishes alone.
LEMMA SameFile == UNCHANGED file => Loaded' = Loaded
BY DEF Loaded

LEMMA SameMeaning ==
  ASSUME UNCHANGED <<wanted, wasReset>>, NEW k \in Keys
  PROVE  Meant(k)' = Meant(k)
BY DEF Meant, Settled, Lasts, Travels

\* What is meant is still meant when it has been through the file.
LEMMA FileKeepsMeaning ==
  ASSUME TypeOK, NEW k \in Keys, config[k] \in Meant(k)
  PROVE  Parse[Format[config[k]]] \in Meant(k)
BY DEF TypeOK, Meant, Lasts

\* The snapshot that Save takes is what is meant.
LEMMA SnapshotIsMeant ==
  ASSUME Wants, Running, NEW k \in Keys
  PROVE  Applied[k] \in Meant(k)
BY AppliedType, AppliedIsWanted DEF Wants, Meant, Lasts

\* The file stays within the promise.
LEMMA KeepsInv == Wants /\ Keeps /\ [Next]_vars => Keeps'
<1> SUFFICES ASSUME Wants, Keeps, [Next]_vars PROVE Keeps'
  OBVIOUS
<1> TypeOK
  BY DEF Wants
<1> USE DEF Keeps, Step, flags, history
<1>1. CASE LoadConfig
  BY <1>1, SameFile DEF LoadConfig
<1>2. CASE PageLoads \/ Exit
  BY <1>2, SameFile DEF PageLoads, Exit
<1>3. ASSUME NEW k \in Keys, NEW text \in Typed[k], EditFile(k, text) PROVE Keeps'
  <2>1. ASSUME NEW i \in Keys PROVE Loaded'[i] \in promise'[i]
    <3>1. CASE i = k
      BY <1>3, <3>1 DEF EditFile, Loaded, TypeOK
    <3>2. CASE i # k
      BY <1>3, <3>2 DEF EditFile, Loaded, TypeOK
    <3> QED
      BY <3>1, <3>2
  <2> QED
    BY <1>3, <2>1 DEF EditFile
<1>4. ASSUME NEW k \in Controls, NEW value \in Offered[k], Pick(k, value)
      PROVE Keeps'
  BY <1>4, SameFile DEF Pick
<1>5. CASE ClickSave \/ ClickReset
  BY <1>5, SameFile DEF ClickSave, ClickReset
<1>6. CASE Open \/ Dispatched \/ CloseFirst \/ ServeNothing \/ SkipPoll \/ Update
  BY <1>6, SameFile DEF Open, Dispatched, CloseFirst, ServeNothing, SkipPoll, Update
<1>7. CASE ServeSave
  <2>1. Running
    BY <1>7 DEF ServeSave, Running
  <2>2. Loaded' = Loaded /\ rpc' = "saving" /\ unwritten' = Keys /\ config' = Applied
    BY <1>7, SameFile DEF ServeSave
  <2>3. ASSUME NEW k \in Keys
        PROVE  /\ Loaded'[k] \in promise'[k]
               /\ config'[k] \in Meant(k)' /\ Meant(k)' \subseteq promise'[k]
    BY <1>7, <2>1, <2>2, SameMeaning, SnapshotIsMeant DEF ServeSave
  <2> QED
    BY <2>2, <2>3
<1>8. CASE Saved
  <2>1. Loaded' = Loaded /\ rpc' = "poll" /\ promise' = [k \in Keys |-> Meant(k)]
    BY <1>8, SameFile DEF Saved
  <2>2. \A k \in Keys : Loaded[k] \in Meant(k)
    BY <1>8 DEF Saved
  <2> QED
    BY <2>1, <2>2
<1>9. CASE ServeReset
  BY <1>9, SameFile DEF ServeReset
<1>10. ASSUME NEW k \in Keys, WriteKey(k) PROVE Keeps'
  <2>1. file' = [file EXCEPT ![k] = Format[config[k]]] /\ unwritten' = unwritten \ {k}
    BY <1>10 DEF WriteKey
  <2>2. rpc = "saving" /\ rpc' = "saving" /\ UNCHANGED <<config, wanted, wasReset, promise>>
    BY <1>10 DEF WriteKey
  <2>3. ASSUME NEW i \in Keys
        PROVE  Loaded'[i] = IF i = k THEN Parse[Format[config[k]]] ELSE Loaded[i]
    <3>1. Format[config[k]] \in Texts
      BY DEF TypeOK
    <3>2. file'[i] = IF i = k THEN Format[config[k]] ELSE file[i]
      BY <2>1 DEF TypeOK
    <3> QED
      BY <3>1, <3>2 DEF Loaded
  <2>4. ASSUME NEW i \in Keys PROVE Meant(i)' = Meant(i)
    BY <2>2, SameMeaning
  <2>5. Loaded'[k] \in Meant(k)
    BY <2>2, <2>3, FileKeepsMeaning
  <2>6. ASSUME NEW i \in Keys
        PROVE  /\ Loaded'[i] \in promise'[i]
               /\ config'[i] \in Meant(i)' /\ Meant(i)' \subseteq promise'[i]
               /\ i \notin unwritten' => Loaded'[i] \in Meant(i)'
    <3>1. config[i] \in Meant(i) /\ Meant(i) \subseteq promise[i] /\ Loaded[i] \in promise[i]
      BY <2>2
    <3>2. CASE i = k
      BY <2>2, <2>4, <2>5, <3>1, <3>2
    <3>3. CASE i # k
      BY <2>1, <2>2, <2>3, <2>4, <3>1, <3>3
    <3> QED
      BY <3>2, <3>3
  <2> QED
    BY <2>2, <2>6
<1>11. CASE PollConfig
  BY <1>11, SameFile DEF PollConfig
<1>12. CASE UNCHANGED vars
  <2>1. UNCHANGED <<rpc, file, config, unwritten, wanted, wasReset, promise>>
    BY <1>12 DEF vars
  <2> QED
    BY <2>1, SameFile, SameMeaning
<1> QED
  BY <1>1, <1>2, <1>3, <1>4, <1>5, <1>6, <1>7, <1>8, <1>9, <1>10, <1>11, <1>12 DEF Next

\* The two invariants hold in every state.
THEOREM Invariance == Spec => [](Wants /\ Keeps)
<1>1. (Wants /\ Keeps) /\ [Next]_vars => (Wants /\ Keeps)'
  BY WantsInv, KeepsInv
<1> QED
  BY <1>1, InitInv, PTL DEF Spec

\* The types of the variables.
THEOREM TypeCorrect == Spec => []TypeOK
<1>1. Wants => TypeOK
  BY DEF Wants
<1> QED
  BY <1>1, Invariance, PTL

\* No edit is lost or undone between the file, the panel and g_Config.
THEOREM EditsApply == Spec => []ConfigIsWanted
<1>1. Wants => ConfigIsWanted
  <2> SUFFICES ASSUME Wants, rpc = "update", NEW k \in Keys, Settled(k), Travels(k)
               PROVE  config[k] = wanted[k]
    BY DEF ConfigIsWanted
  <2>1. Running /\ ~dirty
    BY DEF Wants, Running
  <2>2. page[k] # Absent => Shown[wanted[k]] = wanted[k]
    BY <2>1 DEF Wants, PageKeys, Travels, Whole
  <2> QED
    BY <2>1, <2>2 DEF Wants, PageIsWanted, Flagged
<1> QED
  BY <1>1, Invariance, PTL

\* The controls show what is configured.
THEOREM PanelIsTrue == Spec => []PanelShowsConfig
<1>1. Wants => PanelShowsConfig
  BY DEF Wants, PageKeys, Flagged, PanelShowsConfig, Running, Settled, Keys
<1> QED
  BY <1>1, Invariance, PTL

\* A saved setting survives the end of the game, and a crash during Save costs
\* no setting more than the change.
THEOREM SaveIsKept == Spec => []SavedSurvives
<1>1. Keeps => SavedSurvives
  BY DEF Keeps, SavedSurvives
<1> QED
  BY <1>1, Invariance, PTL
=============================================================================
