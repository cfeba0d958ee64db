------------------------------ MODULE Artifacts ------------------------------
(***************************************************************************)
(* The artifacts screen beside the sessions of one project.  Opening it,   *)
(* "r" and every removal start a load, which asks docker several questions *)
(* one after the other, judges each object on the answers, and posts the   *)
(* result to the screen; several loads may be under way.  "o" selects      *)
(* every object judged an orphan, and a removal goes through the selection *)
(* while sessions go on.                                                   *)
(*                                                                         *)
(* Objects are the containers of each session, the project's network and   *)
(* home volume, which every session uses by name, and the image of the     *)
(* jail's helper.  That one stands for the images judged without regard to *)
(* anything else: the proxy's, layers without a tag, those of an agent     *)
(* this version of smith-jail does not know.  The sessions' own agent may  *)
(* be such a one; they are then another version's, with a helper of its    *)
(* own, which is left out.  The sessions and docker are as in Session,     *)
(* reduced to what exists at each moment; one is alive at a time.          *)
(*                                                                         *)
(* Definitions marked "Fault" are not part of the specification: each is   *)
(* the definition after it with a mistake a change to the code could make, *)
(* kept to show that the properties below notice it.                       *)
(***************************************************************************)
EXTENDS Naturals, FiniteSets

CONSTANTS
  Sessions,   \* sessions of the project, one after the other
  Loads,      \* bound: the loads that may be under way at once
  MaxTicks,   \* bound: how many rows are ticked one by one, or before a whole tab
  MaxMoves    \* bound: how often the directory goes or comes back

ASSUME ArtifactsAssumption ==
  /\ Cardinality(Loads) > 0
  /\ MaxTicks \in Nat /\ MaxMoves \in Nat

Proxy(s) == [tab |-> "containers", role |-> "proxy", of |-> {s}]
Agent(s) == [tab |-> "containers", role |-> "agent", of |-> {s}]
Home     == [tab |-> "volumes",  role |-> "home",    of |-> Sessions]
Net      == [tab |-> "networks", role |-> "network", of |-> Sessions]
Helper   == [tab |-> "images",   role |-> "helper",  of |-> Sessions]

Containers == {Proxy(s) : s \in Sessions} \cup {Agent(s) : s \in Sessions}
Objects == Containers \cup {Helper, Home, Net}
Tabs == {"images", "containers", "volumes", "networks"}

VARIABLES
  spc,      \* what each session does next
  box,      \* the state of each container
  known,    \* this version knows the agent
  things,   \* the other objects, as far as they exist
  dir,      \* the project directory is there
  moves,    \* how often it went or came back
  load,     \* the loads under way
  rows,     \* set: the objects on the screen
  orphans,  \* those with a reason to be purged
  loaded, selected,
  mode,     \* "away", "browse", "confirm", "working" or "quit"
  removal,  \* what removeArtifactsCmd has still to remove
  purging,  \* history: the selection confirmed was made by "o"
  jailing,  \* history: on the screen, the sessions that ran when it was listed
  vouched   \* history: those when "o" was pressed

worldVars  == <<known, spc, box, things, dir, moves>>
screenVars == <<rows, orphans, loaded, selected, mode, removal>>
ghostVars  == <<purging, jailing, vouched>>
vars == <<worldVars, load, screenVars, ghostVars>>
-----------------------------------------------------------------------------
(* docker, and the sessions *)

Idle == [pc |-> "idle", images |-> {}, containers |-> {}, running |-> {},
         volumes |-> {}, networks |-> {}, orphans |-> {}]

\* A load, with what it has found so far.
Listings == [pc : {"idle", "resources", "networks", "posted"},
             images : SUBSET {Helper}, containers : SUBSET Containers, running : SUBSET Containers,
             volumes : SUBSET {Home}, networks : SUBSET {Net}, orphans : SUBSET Objects]

Running(c) == box[c] = "running"
Jailing    == {s \in Sessions : Running(Proxy(s))}
InUse(o) ==
  \/ o = Net /\ Jailing # {}
  \/ o = Home /\ \E s \in Sessions : box[Agent(s)] # "absent"

\* The helper's image that EnsureProxyImages makes, if it is of this version.
Helpers == IF known THEN {Helper} ELSE {}

\* An earlier session left its home and, killed within Cleanup, its network.
Init ==
  /\ spc = [s \in Sessions |-> "none"]
  /\ box = [c \in Containers |-> "absent"]
  /\ known \in BOOLEAN
  /\ things = {Home, Net} \cup Helpers
  /\ dir = TRUE
  /\ moves = 0
  /\ load = [l \in Loads |-> Idle]
  /\ rows = {}
  /\ orphans = {}
  /\ loaded = FALSE
  /\ selected = {}
  /\ mode = "away"
  /\ removal = {}
  /\ purging = FALSE
  /\ jailing = {}
  /\ vouched = {}

Goes(s, from, to) == spc[s] = from /\ spc' = [spc EXCEPT ![s] = to]

\* EnsureProxyImages, and createDockerNetwork: the name is cleared, if docker
\* lets it be, and taken.
CreateNetwork(s) ==
  /\ dir
  /\ \A t \in Sessions : spc[t] \in {"none", "over"}
  /\ IF InUse(Net)
       THEN Goes(s, "none", "over") /\ things' = things \cup Helpers
       ELSE Goes(s, "none", "proxy") /\ things' = things \cup Helpers \cup {Net}
  /\ UNCHANGED <<known, box, dir, moves>>

StartProxy(s) ==
  /\ IF Net \in things
       THEN Goes(s, "proxy", "netsetup") /\ box' = [box EXCEPT ![Proxy(s)] = "running"]
       ELSE Goes(s, "proxy", "cleanup") /\ UNCHANGED box
  /\ UNCHANGED <<known, things, dir, moves>>

\* The helper joins the proxy's namespace; its image may have been removed.
RunNetsetup(s) ==
  /\ Goes(s, "netsetup", IF Helpers \subseteq things /\ Running(Proxy(s)) THEN "create" ELSE "cleanup")
  /\ UNCHANGED <<known, box, things, dir, moves>>

\* EnsureHomeVolume, then docker run makes the container, and the volume if it
\* is gone again ...
CreateAgent(s) ==
  /\ Goes(s, "create", "start")
  /\ box' = [box EXCEPT ![Agent(s)] = "created"]
  /\ things' = things \cup {Home}
  /\ UNCHANGED <<known, dir, moves>>

\* ... and starts it in the proxy's namespace, if both are still there.
StartAgent(s) ==
  /\ IF box[Agent(s)] = "created" /\ Running(Proxy(s))
       THEN Goes(s, "start", "run") /\ box' = [box EXCEPT ![Agent(s)] = "running"]
       ELSE Goes(s, "start", "cleanup") /\ box' = [box EXCEPT ![Agent(s)] = "absent"]
  /\ UNCHANGED <<known, things, dir, moves>>

\* The agent exits, or was removed; --rm removes its container.
EndAgent(s) ==
  /\ \/ Goes(s, "run", "cleanup")
     \/ spc[s] = "over" /\ box[Agent(s)] # "absent" /\ UNCHANGED spc
  /\ box' = [box EXCEPT ![Agent(s)] = "absent"]
  /\ UNCHANGED <<known, things, dir, moves>>

Cleanup(s) ==
  /\ Goes(s, "cleanup", "over")
  /\ box' = [box EXCEPT ![Proxy(s)] = "absent"]
  /\ things' = IF Jailing \subseteq {s} THEN things \ {Net} ELSE things
  /\ UNCHANGED <<known, dir, moves>>

\* The process is killed, and leaves what there is.
Kill(s) ==
  /\ spc[s] \notin {"none", "over"}
  /\ spc' = [spc EXCEPT ![s] = "over"]
  /\ UNCHANGED <<known, box, things, dir, moves>>

\* The host restarts: containers made with --rm go, the others have exited.
Restart ==
  /\ \E c \in Containers : box[c] # "absent"
  /\ spc' = [s \in Sessions |-> IF spc[s] = "none" THEN "none" ELSE "over"]
  /\ box' = [c \in Containers |-> IF c.role = "proxy" /\ Running(c) THEN "exited"
                                  ELSE IF c.role = "agent" THEN "absent" ELSE box[c]]
  /\ UNCHANGED <<known, things, dir, moves>>

\* The directory is deleted, or on a drive that is unmounted or mounted again.
MoveDir ==
  /\ moves < MaxMoves
  /\ moves' = moves + 1
  /\ dir' = ~dir
  /\ UNCHANGED <<known, spc, box, things>>

World ==
  /\ \/ \E s \in Sessions :
          \/ CreateNetwork(s) \/ StartProxy(s) \/ RunNetsetup(s) \/ CreateAgent(s)
          \/ StartAgent(s) \/ EndAgent(s) \/ Cleanup(s) \/ Kill(s)
     \/ Restart
     \/ MoveDir
  /\ UNCHANGED <<load, screenVars, ghostVars>>
-----------------------------------------------------------------------------
(* loadArtifacts *)

\* Starting one is part of the key, or of the message, that asks for it.  Images
\* are listed first; what cannot be listed is a row that says so, and is nothing
\* to select.
StartLoad ==
  \E l \in Loads, is \in {{}, things \cap {Helper}} :
    load[l].pc = "idle" /\ load' = [load EXCEPT ![l].pc = "resources", ![l].images = is]

\* ListAllResources, where an error is no containers at all.  (No volumes or
\* networks is what is listed when there are none, too.)
ListResources(l) ==
  /\ load[l].pc = "resources"
  /\ \E cs \in {{}, {c \in Containers : box[c] # "absent"}} :
       load' = [load EXCEPT ![l].pc = "networks", ![l].volumes = things \cap {Home},
                            ![l].containers = cs, ![l].running = {c \in cs : Running(c)}]
  /\ UNCHANGED <<worldVars, screenVars, ghostVars>>

\* os.Stat says that the directory is absent; other errors do not count.
StatSaysGone == ~dir

\* Fault: nobody asks whether the project has a running container.
IgnoreActive(r, gone) == gone

\* verdict: an object of an agent this version does not know; otherwise one of a
\* project that is gone.
ProjectGone(r, gone) == gone /\ r.running = {}

\* markOrphansWith, for one load: on a set of networks, of which some are known to
\* be idle, and on what Stat said.  No agent claims the tags of the jail's images.
Orphans(r, nets, idle, gone) ==
  r.images \cup idle
  \cup IF ~known \/ ProjectGone(r, gone)
         THEN (r.containers \ r.running) \cup r.volumes \cup nets
         ELSE {}

\* ListNetworks, networkAttachments, which leaves out what docker would not
\* describe, and the verdicts.
Judge(l) ==
  /\ load[l].pc = "networks"
  /\ LET nets == things \cap {Net}
     IN  \E idle \in {{}, {n \in nets : ~InUse(n)}}, gone \in {FALSE, StatSaysGone} :
           load' = [load EXCEPT ![l].pc = "posted", ![l].networks = nets,
                                ![l].orphans = Orphans(load[l], nets, idle, gone)]
  /\ UNCHANGED <<worldVars, screenVars, ghostVars>>

\* artifactsLoadedMsg: the last to arrive is shown, whatever it was started for
\* and whatever the screen is doing.
Show(l, listed) ==
  /\ load[l].pc = "posted"
  /\ load' = [load EXCEPT ![l] = Idle]
  /\ IF mode = "away"
       THEN UNCHANGED <<rows, orphans, loaded, jailing>>
       ELSE /\ rows' = listed
            /\ orphans' = load[l].orphans
            /\ loaded' = TRUE
            /\ jailing' = {s \in Sessions : Proxy(s) \in load[l].running}
  /\ UNCHANGED <<worldVars, selected, mode, removal, purging, vouched>>

\* Fault: the volumes of the new listing are left out.
ArriveWithoutVolumes(l) ==
  Show(l, load[l].images \cup load[l].containers \cup load[l].networks)

Arrive(l) ==
  Show(l, load[l].images \cup load[l].containers \cup load[l].volumes \cup load[l].networks)

Loading(l) == ListResources(l) \/ Judge(l) \/ Arrive(l)
-----------------------------------------------------------------------------
(* Keys *)

\* openArtifacts and reset.  The model clears the screen when it is left, too:
\* nothing looks at it until it is opened again.
Open ==
  /\ mode = "away"
  /\ StartLoad
  /\ mode' = "browse"
  /\ rows' = {} /\ orphans' = {} /\ loaded' = FALSE /\ jailing' = {}
  /\ UNCHANGED <<worldVars, selected, removal, purging, vouched>>

Leave ==
  /\ mode = "browse"
  /\ mode' = "away"
  /\ rows' = {} /\ orphans' = {} /\ loaded' = FALSE /\ selected' = {} /\ jailing' = {}
  /\ UNCHANGED <<worldVars, load, removal, purging, vouched>>

Refresh ==
  /\ mode = "browse"
  /\ StartLoad
  /\ loaded' = FALSE
  /\ UNCHANGED <<worldVars, rows, orphans, selected, mode, removal, ghostVars>>

\* toggleSelection, for the row under the cursor.
Toggle ==
  /\ mode = "browse"
  /\ \E o \in rows :
       \/ o \in selected /\ selected' = selected \ {o}
       \/ o \notin selected /\ Cardinality(selected) < MaxTicks /\ selected' = selected \cup {o}
  /\ UNCHANGED <<worldVars, load, rows, orphans, loaded, mode, removal, ghostVars>>

SelectAllOnTab ==
  /\ mode = "browse"
  /\ Cardinality(selected) <= MaxTicks
  /\ \E t \in Tabs : selected' = selected \cup {o \in rows : o.tab = t}
  /\ UNCHANGED <<worldVars, load, rows, orphans, loaded, mode, removal, ghostVars>>

SelectNone ==
  /\ mode = "browse"
  /\ selected' = {}
  /\ UNCHANGED <<worldVars, load, rows, orphans, loaded, mode, removal, ghostVars>>

\* Fault: the orphans are added to what was ticked before.
PurgeToo ==
  /\ mode = "browse"
  /\ orphans # {}
  /\ selected' = selected \cup orphans
  /\ mode' = "confirm"
  /\ purging' = TRUE
  /\ vouched' = jailing
  /\ UNCHANGED <<worldVars, load, rows, orphans, loaded, removal, jailing>>

\* "o": the selection is replaced by every orphan.
Purge ==
  /\ mode = "browse"
  /\ orphans # {}
  /\ selected' = orphans
  /\ mode' = "confirm"
  /\ purging' = TRUE
  /\ vouched' = jailing
  /\ UNCHANGED <<worldVars, load, rows, orphans, loaded, removal, jailing>>

\* "d": the ticked rows, or else the one under the cursor.
Delete ==
  /\ mode = "browse"
  /\ IF selected = {} THEN \E o \in rows : selected' = {o} ELSE UNCHANGED selected
  /\ mode' = "confirm"
  /\ purging' = FALSE
  /\ UNCHANGED <<worldVars, load, rows, orphans, loaded, removal, jailing, vouched>>

Cancel ==
  /\ mode = "confirm"
  /\ mode' = "browse"
  /\ purging' = FALSE
  /\ vouched' = {}
  /\ UNCHANGED <<worldVars, load, rows, orphans, loaded, selected, removal, jailing>>

\* "y": the removal gets the selection.
Accept ==
  /\ mode = "confirm"
  /\ mode' = "working"
  /\ removal' = selected
  /\ UNCHANGED <<worldVars, load, rows, orphans, loaded, selected, ghostVars>>

\* ctrl+c, which ends the process with whatever it is in the middle of.
Quit ==
  /\ mode # "quit"
  /\ mode' = "quit"
  /\ load' = [l \in Loads |-> Idle]
  /\ rows' = {} /\ orphans' = {} /\ loaded' = FALSE /\ selected' = {} /\ removal' = {}
  /\ purging' = FALSE /\ jailing' = {} /\ vouched' = {}
  /\ UNCHANGED worldVars

Key == \/ Quit \/ Open \/ Leave \/ Refresh \/ Toggle \/ SelectAllOnTab \/ SelectNone
       \/ Purge \/ Delete \/ Cancel \/ Accept
-----------------------------------------------------------------------------
(* removeArtifactsCmd *)

\* Fault: the volumes are removed before the containers that use them.
VolumesFirst(o) == CASE o.tab = "volumes" -> 1 [] o.tab = "containers" -> 2
                     [] o.tab = "networks" -> 3 [] OTHER -> 4

\* The order in which the tabs are gone through.
Place(o) == CASE o.tab = "containers" -> 1 [] o.tab = "volumes" -> 2
              [] o.tab = "networks" -> 3 [] OTHER -> 4

Removable(o) == ~InUse(o)

\* One call to docker; an error is noted and the next object is tried.
RemoveOne(o) ==
  /\ mode = "working"
  /\ o \in removal
  /\ \A p \in removal : Place(o) <= Place(p)
  /\ removal' = removal \ {o}
  /\ IF o \in Containers
       THEN box' = [box EXCEPT ![o] = "absent"] /\ UNCHANGED things
       ELSE /\ things' = IF Removable(o) THEN things \ {o} ELSE things
            /\ UNCHANGED box
  /\ UNCHANGED <<known, spc, dir, moves, load, rows, orphans, loaded, selected, mode, ghostVars>>

\* artifactsRemovedMsg: the screen is free again and asks for a new listing.
Removed ==
  /\ mode = "working"
  /\ removal = {}
  /\ mode' = "browse"
  /\ selected' = {}
  /\ purging' = FALSE
  /\ vouched' = {}
  /\ StartLoad
  /\ UNCHANGED <<worldVars, rows, orphans, loaded, removal, jailing>>

Screen == Key \/ (\E o \in Objects : RemoveOne(o)) \/ Removed

Next == World \/ (\E l \in Loads : Loading(l)) \/ Screen

Spec == Init /\ [][Next]_vars
-----------------------------------------------------------------------------
Exists(o) == IF o \in Containers THEN box[o] # "absent" ELSE o \in things

TypeOK ==
  /\ spc \in [Sessions -> {"none", "proxy", "netsetup", "create", "start", "run", "cleanup", "over"}]
  /\ box \in [Containers -> {"absent", "created", "running", "exited"}]
  /\ things \subseteq {Helper, Home, Net}
  /\ known \in BOOLEAN
  /\ dir \in BOOLEAN
  /\ moves \in 0..MaxMoves
  /\ load \in [Loads -> Listings]
  /\ \A l \in Loads :
       /\ load[l].orphans \subseteq
            load[l].images \cup load[l].containers \cup load[l].volumes \cup load[l].networks
       /\ load[l].running \cap load[l].orphans = {}
  /\ orphans \subseteq rows /\ rows \subseteq Objects
  /\ loaded \in BOOLEAN
  /\ selected \subseteq Objects
  /\ mode \in {"away", "browse", "confirm", "working", "quit"}
  /\ removal \subseteq selected
  /\ purging \in BOOLEAN
  /\ jailing \subseteq Sessions /\ vouched \subseteq Sessions

Removes(o) == mode = "working" /\ Exists(o) /\ ~Exists(o)' /\ o \in removal \ removal'

\* A purge discards no project's accumulated home while its directory has never
\* been away, whatever was ticked before, whichever listings came in between and
\* whichever of docker's answers were errors; unless the home is of an agent this
\* version does not know.
HomesKept == [][purging /\ known /\ Removes(Home) => moves > 0]_vars

\* What a session that runs has to lose.  Of an unknown agent's, a container that
\* has not started and a home that is not mounted yet are taken for leftovers.
Needed(s) ==
  {Proxy(s), Net} \cup (IF known THEN {Agent(s), Home} ELSE {})
                 \cup (IF Running(Agent(s)) THEN {Home} ELSE {})

\* A purge takes nothing from a session whose proxy ran when the listing it was
\* chosen from was made and still runs, even when the project's directory has
\* vanished under it: neither its containers nor its network, nor the home
\* volume its agent is about to be started on.
PurgeSparesSessions ==
  [][\A s \in vouched : purging /\ Running(Proxy(s)) => \A o \in Needed(s) : ~Removes(o)]_vars

\* One pass over a selection removes all of it, unless a container that is not
\* in the selection uses something.
SweepInOnePass ==
  [][\A o \in removal \ removal' :
       Exists(o)' /\ mode' # "quit" => \E c \in Containers \ selected : Exists(c)]_vars
=============================================================================
