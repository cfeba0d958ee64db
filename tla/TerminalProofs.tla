---------------------------- MODULE TerminalProofs ----------------------------
(***************************************************************************)
(* Proofs about Screens, for any number of agents, sessions and models,    *)
(* screens of any height and any number of commands under way.             *)
(***************************************************************************)
EXTENDS Screens, FiniteSetTheorems, TLAPS

\* The check for updates has for each agent an answer, or one to come.
Checking ==
  /\ \A a \in Agents : versions[a] \in {0, 1}
  /\ \A a \in Agents : versions[a] = 1 => checkingUpdates /\ a \notin checked
  /\ checkingUpdates => \A a \in Agents : versions[a] = 1 \/ a \in checked
  /\ checkingUpdates => \E a \in Agents : versions[a] = 1

\* A picker that was left is forgotten, and a visit's list comes once.
Forgotten ==
  /\ open \notin {"models", "tag"} => current = NoTag /\ pulled = {} /\ ~listed /\ ~relisted
  /\ ~listed => pulled = {} /\ ~relisted
  /\ crashed => screen = "quit"

\* The cursor is on a row, and the row on the screen.
OnRow ==
  /\ open # "none" /\ ~relisted => cursor < P!Rows /\ offset <= cursor
  /\ open \in {"menu", "browse", "path"} => cursor < offset + Visible
  /\ open \in {"models", "tag"} => offset = 0
  /\ crashed => relisted

ScreensInv == TypesOK /\ Checking /\ Forgotten /\ OnRow
-----------------------------------------------------------------------------
(* The dashboard *)

LEMMA DashboardKeeps ==
  ASSUME TypeOK, Checking, ScreensNext
  PROVE  TypeOK' /\ Checking'
<1> USE DashboardAssumption DEF DashboardAssumption, TypeOK, Checking, updVars, listVars
<1>1. /\ versions \in [Agents -> Nat] /\ checked \subseteq Agents /\ dashCursor \in 0..Total(sessions) - 1
      /\ sessions \in Nat /\ refreshes \in Nat /\ ticks \in Nat /\ MaxPending \in Nat /\ MaxSessions \in Nat
      /\ checkingUpdates \in BOOLEAN
  OBVIOUS
<1>0. \A n : Total(n) = n + 1 + 3
  BY DEF Total, GlobalRows
<1>2. CASE UNCHANGED vars
  BY <1>2 DEF vars
<1>3. CASE DockerChecked
  BY <1>3 DEF DockerChecked
<1>b. CASE ConfigReloaded
  BY <1>b DEF ConfigReloaded
<1>c. CASE DirChosen \/ Quit
  BY <1>c DEF DirChosen, Quit
<1>4. ASSUME NEW a \in Agents, VersionsRead(a) PROVE TypeOK' /\ Checking'
  <2>1. /\ versions[a] = 1 /\ versions' = [versions EXCEPT ![a] = 0]
        /\ checkingUpdates /\ checked' = checked \cup {a}
        /\ checkingUpdates' = (checked' # Agents)
    <3>1. versions[a] = 1 /\ versions[a] - 1 = 0
      BY <1>1, <1>4 DEF VersionsRead
    <3> QED  BY <3>1, <1>4 DEF VersionsRead
  <2>2. versions' \in [Agents -> Nat] /\ versions'[a] = 0 /\ \A b \in Agents \ {a} : versions'[b] = versions[b]
    BY <1>1, <2>1
  <2>3. TypeOK'
    BY <1>1, <1>4, <2>1, <2>2 DEF VersionsRead
  <2>4. \A b \in Agents : versions'[b] = 1 \/ b \in checked'
    BY <2>1, <2>2
  <2>5. \A b \in Agents : versions'[b] = 1 => b \notin checked'
    BY <2>1, <2>2
  <2>6. checkingUpdates' <=> \E b \in Agents : versions'[b] = 1
    BY <1>1, <2>1, <2>4, <2>5
  <2> QED  BY <2>2, <2>3, <2>4, <2>5, <2>6
<1>5. CASE SessionsListed
  <2>1. sessions' \in 0..MaxSessions /\ dashCursor' \in 0..Total(sessions') - 1
    BY <1>0, <1>1, <1>5 DEF SessionsListed
  <2>2. refreshes' \in 0..MaxPending
    BY <1>1, <1>5 DEF SessionsListed
  <2> QED  BY <1>1, <1>5, <2>1, <2>2 DEF SessionsListed
<1>6. CASE Tick
  BY <1>1, <1>6 DEF Tick
<1>7. CASE MoveCursor
  BY <1>1, <1>7 DEF MoveCursor, Total, GlobalRows
<1>8. CASE Activate
  BY <1>1, <1>8 DEF Activate, RowIs
<1>9. CASE TriggerUpdates
  <2>1. \A a \in Agents : versions[a] = 0
    BY <1>9 DEF TriggerUpdates
  <2>2. versions' \in [Agents -> Nat] /\ \A a \in Agents : versions'[a] = 1
    BY <1>1, <1>9, <2>1 DEF TriggerUpdates
  <2> QED  BY <1>1, <1>9, <2>2 DEF TriggerUpdates
<1>a. CASE EnterDashboard
  BY <1>1, <1>a DEF EnterDashboard
<1> QED  BY <1>2, <1>3, <1>4, <1>5, <1>6, <1>7, <1>8, <1>9, <1>a, <1>b, <1>c
         DEF ScreensNext, Answer, Key, Result, ScreensQuit, Panic
-----------------------------------------------------------------------------
(* The pickers *)

LEMMA CardinalityIs == \A S : P!Cardinality(S) = Cardinality(S)
  BY DEF P!Cardinality, Cardinality

\* A list of models is finite, so it has a length.
LEMMA ItemsFinite ==
  ASSUME NEW c \in Tags \cup {NoTag}, NEW s \in SUBSET Tags
  PROVE  /\ IsFiniteSet(({c} \cup KnownModels \cup s) \ {NoTag})
         /\ Cardinality(({c} \cup KnownModels \cup s) \ {NoTag}) \in Nat
<1>1. ({c} \cup KnownModels \cup s) \ {NoTag} \subseteq Tags
  BY ScreensAssumption DEF ScreensAssumption
<1>2. IsFiniteSet(({c} \cup KnownModels \cup s) \ {NoTag})
  BY <1>1, FS_Subset, ScreensAssumption DEF ScreensAssumption
<1> QED  BY <1>2, FS_CardinalityType

\* How many rows there are.
Counted ==
  /\ P!Rows \in Nat
  /\ open # "none" => P!Rows > 0
  /\ open \in {"menu", "path"} => P!Rows = recents + 3
  /\ open = "browse" => P!Rows = entries + IF up THEN 2 ELSE 1
  /\ open \in {"models", "tag"} => P!Rows = Cardinality(P!Items) + 1

LEMMA RowsType == P!TypeOK => Counted
<1> SUFFICES ASSUME P!TypeOK PROVE Counted
  OBVIOUS
<1>1. Cardinality(P!Items) \in Nat
  BY ItemsFinite DEF P!TypeOK, P!Items
<1> QED  BY <1>1, CardinalityIs DEF P!TypeOK, P!Rows, Counted

LEMMA RowsTypeNext == P!TypeOK' => Counted'
  BY RowsType, PTL

\* Models that become known make the list longer, never shorter.
LEMMA ItemsGrow ==
  ASSUME P!TypeOK, NEW s \in SUBSET Tags, pulled = {}
  PROVE  Cardinality(P!Items) <= Cardinality(({current} \cup KnownModels \cup s) \ {NoTag})
<1>1. P!Items \subseteq ({current} \cup KnownModels \cup s) \ {NoTag}
  BY DEF P!Items
<1>2. IsFiniteSet(({current} \cup KnownModels \cup s) \ {NoTag})
  BY ItemsFinite DEF P!TypeOK
<1> QED  BY <1>1, <1>2, FS_Subset

LEMMA PickersKeep ==
  ASSUME loaded \in BOOLEAN, P!TypeOK, Forgotten, OnRow, ScreensNext
  PROVE  P!TypeOK' /\ Forgotten' /\ OnRow'
<1> USE ScreensAssumption DEF ScreensAssumption, P!browser, P!models
<1> DEFINE Goal == P!TypeOK' /\ Forgotten' /\ OnRow'
<1>1. /\ cursor \in Nat /\ offset \in Nat /\ Visible \in Nat /\ Visible > 0 /\ recents \in Nat /\ entries \in Nat
      /\ Counted /\ 0 \in 0..MaxRows /\ 0 \in 0..MaxListings
  BY RowsType DEF P!TypeOK
<1>2. /\ crashed => screen = "quit"
      /\ screen = "quit" => screen' = "quit"
  BY DEF Forgotten, ScreensNext, Answer, Key, Result, DockerChecked, ConfigReloaded,
     SessionsListed, Tick,
         VersionsRead, DirChosen, MoveCursor, Activate, RowIs, TriggerUpdates, EnterDashboard, ScreensQuit, Panic,
         Quit, Open, P!Key
<1>3. CASE UNCHANGED pickerVars
  BY <1>2, <1>3 DEF pickerVars, P!TypeOK, Forgotten, OnRow, P!Rows, P!Items
\* What is closed has no rows, and what is opened begins at the first.
<1>4. CASE screen # "quit" /\ (P!DirChosen \/ P!End)
  <2>1. /\ open' = "none" /\ cursor' = 0 /\ offset' = 0 /\ up' = FALSE /\ entries' = 0
        /\ current' = NoTag /\ pulled' = {} /\ listed' = FALSE /\ relisted' = FALSE
        /\ chosen' = FALSE /\ listings' \in {listings, 0} /\ UNCHANGED <<recents, crashed>>
    BY <1>4 DEF P!DirChosen, P!End, P!Close, P!Top, P!ForgetModels
  <2>2. P!TypeOK'
    <3>1. /\ open' \in {"none", "menu", "browse", "path", "models", "tag"}
          /\ {cursor, offset}' \subseteq Nat
          /\ recents' \in 0..MaxRows /\ entries' \in 0..MaxRows /\ listings' \in 0..MaxListings
      BY <1>1, <2>1 DEF P!TypeOK
    <3>2. /\ up' \in BOOLEAN /\ current' \in Tags \cup {NoTag} /\ pulled' \subseteq Tags
          /\ {chosen, listed, relisted, crashed}' \subseteq BOOLEAN
      BY <1>1, <2>1 DEF P!TypeOK
    <3> QED  BY <3>1, <3>2 DEF P!TypeOK
  <2>3. ~crashed
    BY <1>4 DEF Forgotten
  <2> QED  BY <1>2, <2>1, <2>2, <2>3 DEF Forgotten, OnRow
<1>5. CASE P!OpenPicker \/ P!SelectPath \/ P!GoTo \/ P!ToggleHidden
  <2>1. P!TypeOK' /\ open' \in {"menu", "browse"} /\ cursor' = 0 /\ offset' = 0
    BY <1>1, <1>5 DEF P!TypeOK, P!OpenPicker, P!SelectPath, P!GoTo, P!ToggleHidden, P!ReadDir, P!Top
  <2>2. Counted'
    BY <2>1, RowsTypeNext
  <2> QED  BY <1>1, <1>2, <1>5, <2>1, <2>2
           DEF Counted, Forgotten, OnRow, P!OpenPicker, P!SelectPath, P!GoTo, P!ToggleHidden
<1>6. CASE P!MoveCursor
  <2>1. UNCHANGED <<open, recents, P!browser, chosen, P!models, listings, crashed>> /\ open \in {"menu", "browse"}
    BY <1>6 DEF P!MoveCursor
  <2>2. UNCHANGED P!Rows
    BY <2>1 DEF P!Rows, P!Items
  <2>3. ~relisted
    BY <2>1 DEF Forgotten
  <2>4. cursor < P!Rows /\ offset <= cursor
    BY <2>1, <2>3 DEF OnRow
  <2>5. /\ cursor' \in Nat /\ offset' \in Nat /\ cursor' < P!Rows
        /\ offset' <= cursor' /\ cursor' < offset' + Visible
    BY <1>1, <1>6, <2>1, <2>4 DEF Counted, P!MoveCursor, P!MoveTo, P!Top
  <2>6. P!TypeOK'
    BY <2>1, <2>5 DEF P!TypeOK
  <2> QED  BY <1>2, <2>1, <2>2, <2>5, <2>6 DEF Forgotten, OnRow
<1>7. CASE P!Choose \/ P!TypePath \/ P!TypedPath
  <2>1. /\ UNCHANGED <<cursor, offset, recents, P!browser, P!models, listings, crashed>>
        /\ chosen' \in BOOLEAN /\ open' \in {"menu", "path", "browse"}
        /\ open' = open \/ {open, open'} \subseteq {"menu", "path"}
    BY <1>7 DEF P!TypeOK, P!Choose, P!TypePath, P!TypedPath
  <2>2. UNCHANGED P!Rows
    BY <2>1 DEF P!Rows, P!Items
  <2>3. P!TypeOK'
    BY <2>1 DEF P!TypeOK
  <2> QED  BY <1>2, <2>1, <2>2, <2>3 DEF Forgotten, OnRow
<1>8. CASE P!LeavePicker
  <2>1. /\ open' \in {"none", "menu"} /\ cursor' = 0 /\ offset' = 0 /\ up' = FALSE /\ entries' = 0
        /\ open \in {"menu", "browse"} /\ UNCHANGED <<recents, chosen, P!models, listings, crashed>>
    BY <1>8 DEF P!LeavePicker, P!Close, P!Top
  <2>2. P!TypeOK'
    <3>1. /\ open' \in {"none", "menu", "browse", "path", "models", "tag"}
          /\ {cursor, offset}' \subseteq Nat
          /\ recents' \in 0..MaxRows /\ entries' \in 0..MaxRows /\ listings' \in 0..MaxListings
      BY <1>1, <2>1 DEF P!TypeOK
    <3>2. /\ up' \in BOOLEAN /\ current' \in Tags \cup {NoTag} /\ pulled' \subseteq Tags
          /\ {chosen, listed, relisted, crashed}' \subseteq BOOLEAN
      BY <1>1, <2>1 DEF P!TypeOK
    <3> QED  BY <3>1, <3>2 DEF P!TypeOK
  <2>3. Counted'
    BY <2>2, RowsTypeNext
  <2> QED  BY <1>1, <1>2, <2>1, <2>2, <2>3 DEF Counted, Forgotten, OnRow
<1>9. ASSUME NEW cfg \in BOOLEAN, P!OpenModels(cfg) PROVE Goal
  <2>1. P!TypeOK' /\ open' = "models" /\ cursor' = 0 /\ offset' = 0
    BY <1>1, <1>9 DEF P!TypeOK, P!OpenModels, P!Top
  <2>2. Counted'
    BY <2>1, RowsTypeNext
  <2> QED  BY <1>1, <1>2, <1>9, <2>1, <2>2 DEF Counted, Forgotten, OnRow, P!OpenModels
<1>a. CASE P!MoveAmongModels
  <2>1. /\ UNCHANGED <<open, offset, recents, P!browser, chosen, P!models, listings, crashed>>
        /\ open = "models"
        /\ \/ cursor > 0 /\ cursor' = cursor - 1
           \/ cursor < P!Rows - 1 /\ cursor' = cursor + 1
    BY <1>a DEF P!MoveAmongModels
  <2>2. UNCHANGED P!Rows
    BY <2>1 DEF P!Rows, P!Items
  <2>3. cursor' \in Nat /\ offset = 0 /\ P!Rows \in Nat
    BY <1>1, <2>1 DEF Counted, OnRow
  <2>4. P!TypeOK'
    BY <2>1, <2>3 DEF P!TypeOK
  <2>5. cursor < P!Rows => cursor' < P!Rows
    BY <1>1, <2>1, <2>3
  <2> QED  BY <1>2, <2>1, <2>2, <2>3, <2>4, <2>5 DEF Forgotten, OnRow
\* A model that is saved is the first of the list from then on.
<1>b. CASE P!ActivateModel \/ P!TypedTag
  <2>1. /\ UNCHANGED <<offset, recents, P!browser, chosen, pulled, listed, relisted, listings, crashed>>
        /\ open \in {"models", "tag"} /\ open' = "models"
        /\ UNCHANGED <<current, cursor>> \/ (cursor' = 0 /\ current' \in Tags)
    <3>1. P!Items \subseteq Tags
      BY DEF P!Items, P!TypeOK
    <3> QED  BY <1>b, <3>1 DEF P!ActivateModel, P!TypedTag, P!SelectModel
  <2>2. P!TypeOK'
    BY <2>1 DEF P!TypeOK
  <2>3. Counted'
    BY <2>2, RowsTypeNext
  <2>4. CASE UNCHANGED <<current, cursor>>
    <3>1. P!Rows' = P!Rows
      BY <2>1, <2>4 DEF P!Rows, P!Items
    <3> QED  BY <1>2, <2>1, <2>2, <2>4, <3>1 DEF Forgotten, OnRow
  <2>5. CASE cursor' = 0
    BY <1>2, <2>1, <2>2, <2>3, <2>5 DEF Counted, Forgotten, OnRow
  <2> QED  BY <2>1, <2>4, <2>5
<1>c. CASE P!TypeTag
  <2>1. UNCHANGED <<cursor, offset, recents, P!browser, chosen, P!models, listings, crashed>> /\ open = "models"
        /\ open' = "tag"
    BY <1>c DEF P!TypeTag
  <2>2. P!Rows' = P!Rows
    BY <2>1 DEF P!Rows, P!Items
  <2>3. P!TypeOK'
    BY <2>1 DEF P!TypeOK
  <2> QED  BY <1>2, <2>1, <2>2, <2>3 DEF Forgotten, OnRow
<1>d. CASE screen = "new" /\ P!LeaveModels
  <2>1. /\ open' = "none" /\ cursor' = 0 /\ offset' = 0 /\ up' = FALSE /\ entries' = 0
        /\ current' = NoTag /\ pulled' = {} /\ listed' = FALSE /\ relisted' = FALSE
        /\ UNCHANGED <<recents, chosen, listings, crashed>>
    BY <1>d DEF P!LeaveModels, P!Close, P!Top, P!ForgetModels
  <2>2. P!TypeOK'
    <3>1. /\ open' \in {"none", "menu", "browse", "path", "models", "tag"}
          /\ {cursor, offset}' \subseteq Nat
          /\ recents' \in 0..MaxRows /\ entries' \in 0..MaxRows /\ listings' \in 0..MaxListings
      BY <1>1, <2>1 DEF P!TypeOK
    <3>2. /\ up' \in BOOLEAN /\ current' \in Tags \cup {NoTag} /\ pulled' \subseteq Tags
          /\ {chosen, listed, relisted, crashed}' \subseteq BOOLEAN
      BY <1>1, <2>1 DEF P!TypeOK
    <3> QED  BY <3>1, <3>2 DEF P!TypeOK
  <2>3. ~crashed
    BY <1>d DEF Forgotten
  <2> QED  BY <1>2, <2>1, <2>2, <2>3 DEF Forgotten, OnRow
\* A crash is one of a list that was overtaken by an earlier visit's.
<1>e. CASE Panic
  <2>1. /\ UNCHANGED <<open, cursor, offset, recents, P!browser, chosen, P!models, listings>>
        /\ crashed' = TRUE /\ open = "models" /\ screen' = "quit"
        /\ cursor > P!Cardinality(P!Items)
    BY <1>e DEF Panic, P!Crash, Quit
  <2>2. P!Rows' = P!Rows
    BY <2>1 DEF P!Rows, P!Items
  <2>3. P!TypeOK'
    BY <2>1 DEF P!TypeOK
  <2>4. ~(cursor < P!Rows)
    <3>1. cursor > Cardinality(P!Items) /\ P!Rows = Cardinality(P!Items) + 1
      BY <1>1, <2>1, CardinalityIs DEF Counted
    <3>2. Cardinality(P!Items) \in Nat
      BY ItemsFinite DEF P!TypeOK, P!Items
    <3> QED  BY <1>1, <3>1, <3>2
  <2>5. relisted
    BY <2>1, <2>4 DEF OnRow
  <2> QED  BY <2>1, <2>2, <2>3, <2>5 DEF Forgotten, OnRow
<1>f. CASE P!RecentsLoaded
  <2>1. /\ UNCHANGED <<open, cursor, offset, P!browser, chosen, P!models, listings, crashed>>
        /\ recents = 0 /\ recents' \in 1..MaxRows /\ recents' > 0
    BY <1>f DEF P!RecentsLoaded
  <2>2. P!TypeOK'
    BY <2>1 DEF P!TypeOK
  <2>3. Counted'
    BY <2>2, RowsTypeNext
  <2>4. open # "none" => P!Rows <= P!Rows'
    <3>1. CASE open \in {"menu", "path"}
      <4>1. PICK r \in Nat : recents' = r
        BY <2>1
      <4>2. P!Rows = recents + 3
        BY <1>1, <3>1 DEF Counted
      <4>3. open' \in {"menu", "path"}
        BY <2>1, <3>1
      <4>4. P!Rows' = recents' + 3
        BY <2>3, <4>3 DEF Counted
      <4>5. P!Rows = 3
        BY <2>1, <4>2
      <4>6. r + 3 >= 3
        OBVIOUS
      <4> QED  BY <4>1, <4>4, <4>5, <4>6
    <3>2. CASE open \notin {"menu", "path"}
      <4>1. P!Rows' = P!Rows
        BY <2>1, <3>2 DEF P!Rows, P!Items
      <4> QED  BY <1>1, <4>1 DEF Counted
    <3> QED  BY <3>1, <3>2
  <2> QED  BY <1>1, <1>2, <2>1, <2>2, <2>3, <2>4 DEF Counted, Forgotten, OnRow
\* The first list of a visit is added to what was there.
<1>g. CASE P!ModelsLoaded
  <2>1. UNCHANGED <<open, cursor, offset, recents, P!browser, chosen, current, crashed>>
    BY <1>g DEF P!ModelsLoaded
  <2>2. listings' \in 0..MaxListings
    BY <1>g DEF P!ModelsLoaded, P!TypeOK
  <2>3. CASE open \notin {"models", "tag"}
    <3>1. UNCHANGED <<pulled, listed, relisted>>
      BY <1>g, <2>3 DEF P!ModelsLoaded
    <3>2. P!Rows' = P!Rows
      BY <2>1, <3>1 DEF P!Rows, P!Items
    <3>3. P!TypeOK'
      BY <2>1, <2>2, <3>1 DEF P!TypeOK
    <3> QED  BY <1>2, <2>1, <3>1, <3>2, <3>3 DEF Forgotten, OnRow
  <2>4. CASE open \in {"models", "tag"}
    <3>1. pulled' \in SUBSET Tags /\ listed' = TRUE /\ relisted' = (relisted \/ listed)
      BY <1>g, <2>4 DEF P!ModelsLoaded
    <3>2. P!TypeOK'
      BY <2>1, <2>2, <3>1 DEF P!TypeOK
    <3>3. ~relisted' => pulled = {} /\ ~relisted
      BY <3>1 DEF Forgotten
    <3>4. ~relisted' => P!Rows <= P!Rows'
      <4>1. Counted'
        BY <3>2, RowsTypeNext
      <4>2. ~relisted' => Cardinality(P!Items) <= Cardinality(P!Items')
        BY <2>1, <3>1, <3>3, ItemsGrow DEF P!Items
      <4>3. Cardinality(P!Items) \in Nat /\ Cardinality(P!Items') \in Nat
        BY <2>1, <3>1, ItemsFinite DEF P!TypeOK, P!Items
      <4> QED  BY <1>1, <2>1, <2>4, <4>1, <4>2, <4>3 DEF Counted
    <3>5. P!Rows' \in Nat
      BY <3>2, RowsTypeNext DEF Counted
    <3> QED  BY <1>1, <1>2, <2>1, <2>4, <3>1, <3>2, <3>3, <3>4, <3>5 DEF Counted, Forgotten, OnRow
  <2> QED  BY <2>3, <2>4
<1> QED  BY <1>3, <1>4, <1>5, <1>6, <1>7, <1>8, <1>9, <1>a, <1>b, <1>c, <1>d, <1>e, <1>f, <1>g
         DEF ScreensNext, Answer, Key, ScreensQuit, DirChosen, Quit, P!Key
-----------------------------------------------------------------------------
LEMMA ScreensStart == ScreensInit => ScreensInv
<1> SUFFICES ASSUME ScreensInit PROVE ScreensInv
  OBVIOUS
<1>1. TypeOK /\ Checking
  <2>1. Total(0) = 4
    BY DEF Total, GlobalRows
  <2>2. 0 \in 0..MaxSessions /\ 0 \in 0..MaxPending /\ 1 \in 0..MaxPending /\ 0 \in 0..3
    BY DashboardAssumption DEF DashboardAssumption
  <2>3. versions \in [Agents -> Nat] /\ \A a \in Agents : versions[a] = 0
    BY DEF ScreensInit, Init
  <2>4. {dockerErr, loaded, checkingUpdates} \subseteq BOOLEAN
    BY DEF ScreensInit, Init
  <2>5. TypeOK
    BY <2>1, <2>2, <2>3, <2>4 DEF ScreensInit, Init, TypeOK
  <2> QED  BY <2>3, <2>5 DEF ScreensInit, Init, Checking
<1>2. P!TypeOK /\ Forgotten /\ OnRow
  <2>1. 0 \in 0..MaxRows /\ 0 \in 0..MaxListings
    BY ScreensAssumption DEF ScreensAssumption
  <2>2. {cursor, offset} \subseteq Nat
    BY DEF ScreensInit, P!Init
  <2>3. {chosen, listed, relisted, crashed} \subseteq BOOLEAN
    BY DEF ScreensInit, P!Init
  <2>4. P!TypeOK
    BY <2>1, <2>2, <2>3 DEF ScreensInit, P!Init, P!TypeOK
  <2> QED  BY <2>4 DEF ScreensInit, P!Init, Forgotten, OnRow
<1> QED  BY <1>1, <1>2 DEF ScreensInv, TypesOK

LEMMA ScreensStep == ScreensInv /\ [ScreensNext]_allVars => ScreensInv'
<1> SUFFICES ASSUME ScreensInv, [ScreensNext]_allVars PROVE ScreensInv'
  OBVIOUS
<1>1. CASE ScreensNext
  <2>1. TypeOK' /\ Checking'
    BY <1>1, DashboardKeeps DEF ScreensInv, TypesOK
  <2>2. P!TypeOK' /\ Forgotten' /\ OnRow'
    BY <1>1, PickersKeep DEF ScreensInv, TypesOK, TypeOK
  <2> QED  BY <2>1, <2>2 DEF ScreensInv, TypesOK
<1>2. CASE UNCHANGED allVars
  BY <1>2 DEF ScreensInv, TypesOK, TypeOK, Checking, P!TypeOK, Forgotten, OnRow, P!Rows, P!Items,
     P!browser, P!models,
              allVars, vars, pickerVars, updVars, listVars
<1> QED  BY <1>1, <1>2

\* The invariant the rest follows from.
THEOREM ScreensInvariant == FairSpec => []ScreensInv
<1> QED  BY ScreensStart, ScreensStep, PTL DEF FairSpec

\* Every variable of the dashboard and of the pickers keeps its type; the
\* dashboard's cursor is always on one of its rows.
THEOREM TypesCorrect == FairSpec => []TypesOK
<1>1. ScreensInv => TypesOK
  BY DEF ScreensInv
<1> QED  BY <1>1, ScreensInvariant, PTL

\* The interface says that it checks for updates exactly as long as an answer is
\* to come.
THEOREM SpinnerIsHonest == FairSpec => []SpinnerHonest
<1>1. ScreensInv => SpinnerHonest
  BY DEF ScreensInv, TypesOK, TypeOK, Checking, SpinnerHonest
<1> QED  BY <1>1, ScreensInvariant, PTL

\* Lists that change under a cursor leave it on a row that is shown.
THEOREM CursorsStayOnRows == FairSpec => []CursorsOnRows
<1>1. ScreensInv => CursorsOnRows
  <2> SUFFICES ASSUME ScreensInv PROVE CursorsOnRows
    OBVIOUS
  <2>1. Total(sessions) = sessions + 4 /\ sessions \in Nat /\ dashCursor \in 0..Total(sessions) - 1
    BY DashboardAssumption DEF ScreensInv, TypesOK, TypeOK, Total, GlobalRows, DashboardAssumption
  <2> QED  BY <2>1 DEF ScreensInv, OnRow, CursorsOnRows
<1> QED  BY <1>1, ScreensInvariant, PTL
=============================================================================
