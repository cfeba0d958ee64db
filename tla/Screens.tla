------------------------------- MODULE Screens -------------------------------
(***************************************************************************)
(* The dashboard and, opened from the submenu, the two pickers: the keys   *)
(* go to what is open, the answers of commands to where they belong,       *)
(* whatever is open by then.                                               *)
(***************************************************************************)
EXTENDS Dashboard, Integers

CONSTANTS Tags, KnownModels, NoTag, Visible, MaxRows, MaxListings

ASSUME ScreensAssumption ==
  /\ IsFiniteSet(Tags) /\ KnownModels \subseteq Tags /\ NoTag \notin Tags
  /\ Visible \in Nat \ {0}
  /\ MaxRows \in Nat /\ MaxListings \in Nat \ {0}

VARIABLES open, cursor, offset, recents, up, entries, chosen,
          current, pulled, listed, relisted, listings, crashed

P == INSTANCE Pickers

pickerVars == <<open, cursor, offset, recents, up, entries, chosen,
                current, pulled, listed, relisted, listings, crashed>>
allVars == <<vars, pickerVars>>

ScreensInit == Init /\ P!Init

\* A picker's line takes ctrl+c; all else ends with it.
ScreensQuit == ~P!Typing /\ Quit /\ P!End

\* A panic ends the interface, too.
Panic == P!Crash /\ Quit

Answer ==
  \/ Result /\ UNCHANGED pickerVars
  \/ DirChosen /\ P!DirChosen
  \/ Open /\ (P!RecentsLoaded \/ P!ModelsLoaded) /\ UNCHANGED vars

Key ==
  \/ (MoveCursor \/ Activate \/ TriggerUpdates) /\ UNCHANGED pickerVars
  \/ open = "none" /\ EnterDashboard /\ UNCHANGED pickerVars
  \/ screen = "new" /\ P!Key(loaded) /\ UNCHANGED vars

ScreensNext == Answer \/ Key \/ ScreensQuit \/ Panic

\* Ticks and listings come, as long as the interface is open.
FairSpec ==
  /\ ScreensInit /\ [][ScreensNext]_allVars
  /\ WF_allVars(Open /\ Tick /\ UNCHANGED pickerVars)
  /\ WF_allVars(Open /\ SessionsListed /\ UNCHANGED pickerVars)
-----------------------------------------------------------------------------
TypesOK == TypeOK /\ P!TypeOK

\* Every list that changes under a cursor leaves it on a row, and on a row that is
\* shown: sessions that end, recent projects that become known, directories read
\* again, models listed, saved or typed in.  The one exception, by which a key can
\* end the interface, is a list of models that an earlier visit had asked for.
CursorsOnRows ==
  /\ dashCursor < Total(sessions)
  /\ open # "none" /\ ~relisted => cursor < P!Rows /\ offset <= cursor
  /\ open \in {"menu", "browse", "path"} => cursor < offset + Visible
  /\ crashed => relisted
=============================================================================
