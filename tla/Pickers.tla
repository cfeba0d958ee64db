------------------------------- MODULE Pickers -------------------------------
(***************************************************************************)
(* The directory picker and the model picker of the terminal interface: a  *)
(* cursor over a list that changes under it.  The directory picker has a   *)
(* menu, which shows the recent projects once they are known, a browser of *)
(* directories, and a line to type a path in.  The model picker shows the  *)
(* configured model, the known ones and those that are in the sidecar,     *)
(* which a command lists, and has a line to type a tag in.                 *)
(*                                                                         *)
(* Each picker is reset when it is opened, so the two share a cursor here. *)
(* A list of directories is its length; which directory is chosen is in    *)
(* Interface, as is the configuration a saved model is read back into.     *)
(*                                                                         *)
(* Definitions marked "Fault" are not part of the specification: each is   *)
(* the definition after it with a mistake a change to the code could make, *)
(* kept to show that the properties below notice it.                       *)
(***************************************************************************)
EXTENDS Integers, FiniteSets

CONSTANTS
  Tags, KnownModels,  \* tags of models, and OllamaKnownModels
  NoTag,              \* the empty tag
  Visible,            \* how many rows fit on the screen
  MaxRows,            \* bound: recent projects, and subdirectories of a directory
  MaxListings         \* bound: listings of models under way

VARIABLES
  open,     \* "none", "menu", "browse", "path", "models" or "tag"
  cursor, offset,
  recents,  \* how many recent projects the menu lists; none before they are known
  up,       \* the directory browsed has a parent
  entries,  \* how many of its subdirectories are listed
  chosen,   \* dirChosenMsg is under way (bound: one at a time)
  current, pulled,
  listed,   \* the list of this visit has come
  relisted, \* history: another has, which an earlier visit had asked for
  listings, \* ollamaModelsLoadedMsg under way
  crashed   \* a row was used that is not there

browser == <<up, entries>>
models  == <<current, pulled, listed, relisted>>
vars == <<open, cursor, offset, recents, browser, chosen, models, listings, crashed>>

Init ==
  /\ open = "none"
  /\ cursor = 0 /\ offset = 0
  /\ recents = 0
  /\ up = FALSE /\ entries = 0
  /\ chosen = FALSE
  /\ current = NoTag /\ pulled = {} /\ listed = FALSE /\ relisted = FALSE
  /\ listings = 0
  /\ crashed = FALSE
-----------------------------------------------------------------------------
(* Lists *)

\* buildItems: the current model first, and none twice.
Items == ({current} \cup KnownModels \cup pulled) \ {NoTag}

\* "Current directory", "Select a path" and "Type a path" in the menu, "Use this
\* directory" and ".." in the browser, "Type a custom tag" below the models.
Rows == CASE open \in {"menu", "path"}   -> recents + 3
          [] open = "browse"             -> entries + IF up THEN 2 ELSE 1
          [] open \in {"models", "tag"}  -> Cardinality(Items) + 1
          [] OTHER                       -> 0

Top == cursor' = 0 /\ offset' = 0

\* readDir, of any directory.  One that cannot be read has no entries.
ReadDir == entries' \in 0..MaxRows /\ Top

\* What a picker does not look at before it is reset is left out of the state.
Close == open' = "none" /\ Top /\ up' = FALSE /\ entries' = 0

ForgetModels == current' = NoTag /\ pulled' = {} /\ listed' = FALSE /\ relisted' = FALSE
-----------------------------------------------------------------------------
(* The directory picker *)

OpenPicker ==
  /\ open = "none"
  /\ open' = "menu"
  /\ Top
  /\ UNCHANGED <<recents, browser, chosen, models, listings, crashed>>

\* clampOffset
MoveTo(c) ==
  /\ cursor' = c
  /\ offset' = CASE c < offset            -> c
                 [] c >= offset + Visible -> c - Visible + 1
                 [] OTHER                 -> offset

MoveCursor ==
  /\ open \in {"menu", "browse"}
  /\ \/ cursor > 0 /\ MoveTo(cursor - 1)
     \/ cursor < Rows - 1 /\ MoveTo(cursor + 1)
     \/ MoveTo(Rows - 1)
     \/ Top
  /\ UNCHANGED <<open, recents, browser, chosen, models, listings, crashed>>

\* commit, on each kind of row.
Choose ==
  /\ \/ open = "menu" /\ cursor <= recents
     \/ open = "browse" /\ cursor = 0
  /\ ~chosen /\ chosen' = TRUE
  /\ UNCHANGED <<open, cursor, offset, recents, browser, models, listings, crashed>>

SelectPath ==
  /\ open = "menu" /\ cursor = recents + 1
  /\ open' = "browse"
  /\ ReadDir /\ up' \in BOOLEAN
  /\ UNCHANGED <<recents, chosen, models, listings, crashed>>

\* The row of the parent or of an entry, or backspace.
GoTo ==
  /\ open = "browse" /\ (cursor \in 1..(Rows - 1) \/ up)
  /\ ReadDir /\ up' \in BOOLEAN
  /\ UNCHANGED <<open, recents, chosen, models, listings, crashed>>

\* Fault: the cursor stays where it was in the longer list.
ToggleHiddenInPlace ==
  /\ open = "browse"
  /\ entries' \in 0..MaxRows
  /\ UNCHANGED <<open, cursor, offset, recents, up, chosen, models, listings, crashed>>

ToggleHidden ==
  /\ open = "browse"
  /\ ReadDir
  /\ UNCHANGED <<open, recents, up, chosen, models, listings, crashed>>

TypePath ==
  /\ open = "menu" /\ cursor = recents + 2
  /\ open' = "path"
  /\ UNCHANGED <<cursor, offset, recents, browser, chosen, models, listings, crashed>>

\* updateTyping: a path that is a directory is chosen; nothing, or esc, only ends
\* the typing, and anything else does not.
TypedPath ==
  /\ open = "path"
  /\ open' = "menu"
  /\ \/ ~chosen /\ chosen' = TRUE
     \/ UNCHANGED chosen
  /\ UNCHANGED <<cursor, offset, recents, browser, models, listings, crashed>>

LeavePicker ==
  /\ \/ open = "menu" /\ Close
     \/ open = "browse" /\ open' = "menu" /\ Top /\ up' = FALSE /\ entries' = 0
  /\ UNCHANGED <<recents, chosen, models, listings, crashed>>
-----------------------------------------------------------------------------
(* The model picker *)

\* reset, which takes the model from the configuration, if there is one.
OpenModels(cfg) ==
  /\ open = "none"
  /\ open' = "models"
  /\ Top
  /\ current' \in {NoTag} \cup IF cfg THEN Tags ELSE {}
  /\ listings < MaxListings /\ listings' = listings + 1
  /\ UNCHANGED <<recents, browser, chosen, pulled, listed, relisted, crashed>>

MoveAmongModels ==
  /\ open = "models"
  /\ \/ cursor > 0 /\ cursor' = cursor - 1
     \/ cursor < Rows - 1 /\ cursor' = cursor + 1
  /\ UNCHANGED <<open, offset, recents, browser, chosen, models, listings, crashed>>

\* selectModel: the model that is saved is then the first of the list.  Without a
\* configuration nothing is saved, as when a write fails.
SelectModel(tag) ==
  \/ tag # current /\ current' = tag /\ cursor' = 0
  \/ UNCHANGED <<current, cursor>>

\* activate, on a model: the first row is the current one's, if there is one.
ActivateModel ==
  /\ open = "models" /\ cursor < Cardinality(Items)
  /\ \E tag \in Items :
       /\ tag = current <=> (cursor = 0 /\ current # NoTag)
       /\ SelectModel(tag)
  /\ UNCHANGED <<open, offset, recents, browser, chosen, pulled, listed, relisted, listings, crashed>>

TypeTag ==
  /\ open = "models" /\ cursor = Cardinality(Items)
  /\ open' = "tag"
  /\ UNCHANGED <<cursor, offset, recents, browser, chosen, models, listings, crashed>>

\* updateAdding, and esc.
TypedTag ==
  /\ open = "tag"
  /\ open' = "models"
  /\ \/ \E tag \in Tags : SelectModel(tag)
     \/ UNCHANGED <<current, cursor>>
  /\ UNCHANGED <<offset, recents, browser, chosen, pulled, listed, relisted, listings, crashed>>

\* activate, with the cursor past the last row: the index is out of range.
Crash ==
  /\ open = "models" /\ cursor > Cardinality(Items)
  /\ crashed' = TRUE
  /\ UNCHANGED <<open, cursor, offset, recents, browser, chosen, models, listings>>

LeaveModels ==
  /\ open = "models"
  /\ Close /\ ForgetModels
  /\ UNCHANGED <<recents, chosen, listings, crashed>>
-----------------------------------------------------------------------------
(* Results *)

\* recentsLoadedMsg comes once, and moves no cursor.
RecentsLoaded ==
  /\ recents = 0
  /\ recents' \in 1..MaxRows
  /\ UNCHANGED <<open, cursor, offset, browser, chosen, models, listings, crashed>>

\* ollamaModelsLoadedMsg: none if the sidecar is down or cannot be asked.  Which
\* visit had asked is not looked at.
ModelsLoaded ==
  /\ listings > 0
  /\ listings' = listings - 1
  /\ IF open \in {"models", "tag"}
       THEN pulled' \in SUBSET Tags /\ listed' = TRUE /\ relisted' = (relisted \/ listed)
       ELSE UNCHANGED <<pulled, listed, relisted>>
  /\ UNCHANGED <<open, cursor, offset, recents, browser, chosen, current, crashed>>

\* dirChosenMsg, which shows the submenu, whatever was open.
DirChosen ==
  /\ chosen
  /\ chosen' = FALSE
  /\ Close /\ ForgetModels
  /\ UNCHANGED <<recents, listings, crashed>>

\* The process ends, and what was under way with it.
End ==
  /\ Close /\ ForgetModels
  /\ chosen' = FALSE /\ listings' = 0
  /\ UNCHANGED <<recents, crashed>>

\* The line being typed takes every key, ctrl+c too.
Typing == open \in {"path", "tag"}

Key(cfg) ==
  \/ OpenPicker \/ MoveCursor \/ Choose \/ SelectPath \/ GoTo \/ ToggleHidden
  \/ TypePath \/ TypedPath \/ LeavePicker
  \/ OpenModels(cfg) \/ MoveAmongModels \/ ActivateModel \/ TypeTag \/ TypedTag \/ LeaveModels
-----------------------------------------------------------------------------
TypeOK ==
  /\ open \in {"none", "menu", "browse", "path", "models", "tag"}
  /\ {cursor, offset} \subseteq Nat
  /\ recents \in 0..MaxRows
  /\ up \in BOOLEAN /\ entries \in 0..MaxRows
  /\ listings \in 0..MaxListings
  /\ current \in Tags \cup {NoTag} /\ pulled \subseteq Tags
  /\ {chosen, listed, relisted, crashed} \subseteq BOOLEAN
=============================================================================
