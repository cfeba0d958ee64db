------------------------------ MODULE Dashboard ------------------------------
(***************************************************************************)
(* The terminal interface's first screen: the list of active sessions,     *)
(* which a chain of ticks keeps fresh, the cursor over it and over the     *)
(* rows below it, and the check for updates, which one command per agent   *)
(* answers.  Interface has the configuration; here it is loaded or not.    *)
(* All other screens are "new", the submenu and what is opened from it,    *)
(* and "away", what the rows below the sessions open.  Screens adds what   *)
(* is opened from the submenu, and has the specification.                  *)
(*                                                                         *)
(* Definitions marked "Fault" are not part of the specification: each is   *)
(* the definition after it with a mistake a change to the code could make, *)
(* kept to show that the properties below notice it.                       *)
(***************************************************************************)
EXTENDS Naturals, Sequences, FiniteSets

CONSTANTS
  Agents,
  MaxSessions,  \* bound: active sessions
  MaxPending    \* bound: ticks, and listings, under way

ASSUME DashboardAssumption ==
  /\ IsFiniteSet(Agents) /\ Agents # {}
  /\ MaxSessions \in Nat /\ MaxPending \in Nat \ {0}

\* dashGlobalItems; "away" is the artifacts, Doctor and Help.
GlobalRows == <<"away", "updates", "quit">>

VARIABLES
  screen,
  dockerErr,        \* docker was asked, and did not answer
  loaded,           \* cfg is not nil
  sessions,         \* how many are listed
  dashCursor,
  checked,          \* the agents whose answer to the check has come
  checkingUpdates,
  versions,         \* versionsMsg under way, by agent
  refreshes,        \* activeSessionsMsg under way
  ticks             \* activeSessionsTickMsg under way

updVars  == <<checked, checkingUpdates, versions>>
listVars == <<sessions, dashCursor>>
vars == <<screen, dockerErr, loaded, listVars, updVars, refreshes, ticks>>
-----------------------------------------------------------------------------
Init ==
  /\ screen = "dashboard"
  /\ dockerErr = FALSE
  /\ loaded \in BOOLEAN
  /\ sessions = 0
  /\ dashCursor = 0
  /\ checked = {}
  /\ checkingUpdates = FALSE
  /\ versions = [a \in Agents |-> 0]
  /\ refreshes = 1
  /\ ticks = 1
-----------------------------------------------------------------------------
(* Results *)

\* dockerCheckedMsg with an error; without one nothing changes.
DockerChecked ==
  /\ ~dockerErr
  /\ dockerErr' = TRUE
  /\ UNCHANGED <<screen, loaded, listVars, updVars, refreshes, ticks>>

\* configReloadedMsg.  Interface has the keys that cause it; here it comes at any
\* time.
ConfigReloaded ==
  /\ loaded' = TRUE
  /\ UNCHANGED <<screen, dockerErr, listVars, updVars, refreshes, ticks>>

\* dirChosenMsg shows the submenu.
DirChosen ==
  /\ screen # "quit"
  /\ screen' = "new"
  /\ UNCHANGED <<dockerErr, loaded, listVars, updVars, refreshes, ticks>>

VersionsRead(a) ==
  /\ versions[a] > 0
  /\ versions' = [versions EXCEPT ![a] = @ - 1]
  /\ checked' = checked \cup {a}
  /\ checkingUpdates' = (checked' # Agents)
  /\ UNCHANGED <<screen, dockerErr, loaded, listVars, refreshes, ticks>>

\* "New session" is between the sessions and the global rows.
Total(n) == n + 1 + Len(GlobalRows)

\* Fault: the cursor stays where it is when the list gets shorter.
ListedOnly ==
  /\ refreshes > 0
  /\ refreshes' = refreshes - 1
  /\ sessions' \in 0..MaxSessions
  /\ UNCHANGED <<screen, dockerErr, loaded, dashCursor, updVars, ticks>>

\* activeSessionsMsg, with no sessions if they could not be listed.
SessionsListed ==
  /\ refreshes > 0
  /\ refreshes' = refreshes - 1
  /\ sessions' \in 0..MaxSessions
  /\ dashCursor' = IF dashCursor > Total(sessions') - 1 THEN 0 ELSE dashCursor
  /\ UNCHANGED <<screen, dockerErr, loaded, updVars, ticks>>

\* On another screen the tick is the last of its chain.
Tick ==
  /\ ticks > 0
  /\ IF screen = "dashboard"
       THEN refreshes < MaxPending /\ refreshes' = refreshes + 1 /\ UNCHANGED ticks
       ELSE ticks' = ticks - 1 /\ UNCHANGED refreshes
  /\ UNCHANGED <<screen, dockerErr, loaded, listVars, updVars>>

Result ==
  /\ screen # "quit"
  /\ \/ DockerChecked \/ ConfigReloaded \/ SessionsListed \/ Tick
     \/ \E a \in Agents : VersionsRead(a)
-----------------------------------------------------------------------------
(* Keys *)

MoveCursor ==
  /\ screen = "dashboard"
  /\ \/ dashCursor > 0 /\ dashCursor' = dashCursor - 1
     \/ dashCursor < Total(sessions) - 1 /\ dashCursor' = dashCursor + 1
  /\ UNCHANGED <<screen, dockerErr, loaded, sessions, updVars, refreshes, ticks>>

\* The row under the cursor, once the cursor is past the sessions.
RowIs(r) ==
  /\ screen = "dashboard"
  /\ dashCursor > sessions
  /\ GlobalRows[dashCursor - sessions] = r

\* A session opens its netview, which ends the interface; then "New session",
\* and the global rows.  The artifacts want docker, Doctor and Help do not.
Activate ==
  /\ \/ screen = "dashboard" /\ dashCursor < sessions /\ screen' = "quit"
     \/ screen = "dashboard" /\ dashCursor = sessions /\ screen' = "new"
     \/ RowIs("away") /\ screen' = "away"
     \/ RowIs("quit") /\ screen' = "quit"
  /\ UNCHANGED <<dockerErr, loaded, listVars, updVars, refreshes, ticks>>

\* Fault: a check may be started while one is under way.
CheckAgain ==
  /\ RowIs("updates")
  /\ ~dockerErr /\ loaded
  /\ checkingUpdates' = TRUE
  /\ checked' = {}
  /\ versions' = [a \in Agents |-> versions[a] + 1]
  /\ UNCHANGED <<screen, dockerErr, loaded, listVars, refreshes, ticks>>

TriggerUpdates ==
  /\ RowIs("updates")
  /\ ~dockerErr /\ loaded
  /\ ~checkingUpdates
  /\ checkingUpdates' = TRUE
  /\ checked' = {}
  /\ versions' = [a \in Agents |-> versions[a] + 1]
  /\ UNCHANGED <<screen, dockerErr, loaded, listVars, refreshes, ticks>>

\* Fault: the list is asked for once, and the ticks of the last time are trusted.
ListOnce ==
  /\ screen \in {"new", "away"}
  /\ screen' = "dashboard"
  /\ refreshes < MaxPending /\ refreshes' = refreshes + 1
  /\ UNCHANGED <<dockerErr, loaded, listVars, updVars, ticks>>

EnterDashboard ==
  /\ screen \in {"new", "away"}
  /\ screen' = "dashboard"
  /\ refreshes < MaxPending /\ refreshes' = refreshes + 1
  /\ ticks < MaxPending /\ ticks' = ticks + 1
  /\ UNCHANGED <<dockerErr, loaded, listVars, updVars>>

\* launch from below the submenu, or ctrl+c.
Quit ==
  /\ screen # "quit"
  /\ screen' = "quit"
  /\ UNCHANGED <<dockerErr, loaded, listVars, updVars, refreshes, ticks>>

Open == screen # "quit"
-----------------------------------------------------------------------------
TypeOK ==
  /\ screen \in {"dashboard", "new", "away", "quit"}
  /\ {dockerErr, loaded, checkingUpdates} \subseteq BOOLEAN
  /\ sessions \in 0..MaxSessions
  /\ dashCursor \in 0..Total(sessions) - 1
  /\ checked \subseteq Agents
  /\ versions \in [Agents -> Nat]
  /\ {refreshes, ticks} \subseteq 0..MaxPending

\* The interface says that it checks for updates exactly as long as an answer of
\* that check is to come: one for each agent at most, so none of an earlier check.
SpinnerHonest ==
  /\ checkingUpdates <=> \E a \in Agents : versions[a] > 0
  /\ \A a \in Agents : versions[a] <= 1 /\ (versions[a] = 1 => a \notin checked)

\* As long as the dashboard is shown its list is asked for again and again, also
\* when the user was elsewhere for longer than a tick.
StaysFresh == refreshes = 0 ~> (refreshes > 0 \/ screen # "dashboard")
=============================================================================
