------------------------------ MODULE Interface ------------------------------
(***************************************************************************)
(* The configuration the terminal interface shows and edits.  Keys and the *)
(* results of commands go through one Update, one at a time; commands run  *)
(* beside it and nothing says in which order their results come.  A result *)
(* carries what was found and not what was asked for: a configuration does *)
(* not say for which directory it was loaded, nor an image's state for     *)
(* which configuration.  So the picker's choice of a directory can find    *)
(* the user on another screen, and an editor keeps a configuration that is *)
(* replaced under it.                                                      *)
(*                                                                         *)
(* A configuration is the directory it was loaded for.  The agents' image  *)
(* states do not meet: one, the badge, stands for all.  Dashboard has the  *)
(* rest of the loop's state: sessions, ticks and the check for updates;    *)
(* the screens that change none of this are all "hub".                     *)
(*                                                                         *)
(* Definitions marked "Fault" are not part of the specification: each is   *)
(* the definition after it with a mistake a change to the code could make, *)
(* kept to show that the properties below notice it.                       *)
(***************************************************************************)
EXTENDS Naturals

CONSTANTS
  Dirs,         \* project directories
  Start,        \* the one the interface is started in
  None,         \* no configuration, no badge
  MaxPending    \* bound: commands of one kind under way, for one directory

ASSUME InterfaceAssumption ==
  /\ Start \in Dirs
  /\ None \notin Dirs
  /\ MaxPending \in Nat \ {0}

Configs == Dirs \cup {None}
Editors == {"settings", "packages", "model"}

VARIABLES
  screen,
  dir, cfg, cfgErr,
  docker,          \* dockerChecked and dockerErr: "unchecked", "ok" or "down"
  badge,           \* the configuration an agent's image state was computed for
  editor,          \* the open editors' cfg
  working,         \* a removal of artifacts is under way
  \* results under way
  chosen,          \* dirChosenMsg, by directory
  reloads,         \* configReloadedMsg, by directory
  infos,           \* imageInfoMsg, by configuration
  \* history
  hasty,           \* the user went on before the interface caught up, or past an error
  misplaced        \* a project's settings were saved while another's directory was shown

editVars == <<editor, misplaced>>
imgVars  == <<docker, badge, infos>>
vars == <<screen, dir, cfg, cfgErr, editVars, imgVars, working, chosen, reloads, hasty>>
-----------------------------------------------------------------------------
Quiet(f) == \A x \in DOMAIN f : f[x] = 0

\* A command is started, or its result is received.
Post(f, x) == f[x] < MaxPending /\ f' = [f EXCEPT ![x] = @ + 1]
Take(f, x) == f[x] > 0 /\ f' = [f EXCEPT ![x] = @ - 1]

\* Nothing is under way that will change cfg or the badge.
CaughtUp == Quiet(reloads) /\ Quiet(chosen) /\ Quiet(infos)

\* newRootModel and Init: the configuration is loaded before the first screen.
Init ==
  /\ screen = "hub"
  /\ dir = Start
  /\ \/ cfg = Start /\ cfgErr = FALSE
     \/ cfg = None /\ cfgErr = TRUE
  /\ docker = "unchecked"
  /\ badge = None
  /\ editor = [e \in Editors |-> None]
  /\ working = FALSE
  /\ chosen = [d \in Dirs |-> 0]
  /\ reloads = [d \in Dirs |-> 0]
  /\ infos = [c \in Configs |-> 0]
  /\ hasty = FALSE
  /\ misplaced = FALSE
-----------------------------------------------------------------------------
(* Results *)

\* Fault: without a configuration, too.
ReadImagesAlways(c) == Post(infos, c)

\* imageInfoCmd for every agent, with the configuration of now.
ReadImages(c) == IF c = None THEN UNCHANGED infos ELSE Post(infos, c)

\* dockerCheckedMsg comes once.
DockerChecked ==
  /\ docker = "unchecked"
  /\ \/ docker' = "down" /\ UNCHANGED infos
     \/ docker' = "ok" /\ ReadImages(cfg)
  /\ UNCHANGED <<screen, dir, cfg, cfgErr, editVars, badge, working, chosen, reloads, hasty>>

ImageInfo(c) ==
  /\ Take(infos, c)
  /\ badge' = c
  /\ UNCHANGED <<screen, dir, cfg, cfgErr, editVars, docker, working, chosen, reloads, hasty>>

\* A result, too: it finds the user on whatever screen it is by then.
DirChosen(d) ==
  /\ Take(chosen, d)
  /\ dir' = d
  /\ screen' = "hub"
  /\ Post(reloads, d)
  /\ hasty' = (hasty \/ ~Quiet(reloads) \/ ~Quiet(infos) \/ ~Quiet(chosen'))
  /\ UNCHANGED <<cfg, cfgErr, editVars, imgVars, working>>

ReloadFailed(d) ==
  /\ Take(reloads, d)
  /\ cfgErr' = TRUE
  /\ UNCHANGED <<screen, dir, cfg, editVars, imgVars, working, chosen, hasty>>

\* Fault: the badges are left as they are.
ReloadedQuietly(d) ==
  /\ Take(reloads, d)
  /\ cfg' = d
  /\ cfgErr' = FALSE
  /\ hasty' = (hasty \/ ~Quiet(infos))
  /\ UNCHANGED <<screen, dir, editVars, imgVars, working, chosen>>

\* dockerErr is nil as long as docker has not been checked.
ConfigReloaded(d) ==
  /\ Take(reloads, d)
  /\ cfg' = d
  /\ cfgErr' = FALSE
  /\ IF docker = "down" THEN UNCHANGED infos ELSE ReadImages(d)
  /\ hasty' = (hasty \/ ~Quiet(infos))
  /\ UNCHANGED <<screen, dir, editVars, docker, badge, working, chosen>>

\* artifactsRemovedMsg: an image may have gone.
ArtifactsRemoved ==
  /\ working
  /\ working' = FALSE
  /\ IF docker = "down" THEN UNCHANGED infos ELSE ReadImages(cfg)
  /\ UNCHANGED <<screen, dir, cfg, cfgErr, editVars, docker, badge, chosen, reloads, hasty>>

Result ==
  /\ screen # "quit"
  /\ \/ DockerChecked \/ ArtifactsRemoved
     \/ \E d \in Dirs : DirChosen(d) \/ ReloadFailed(d) \/ ConfigReloaded(d) \/ ImageInfo(d)
-----------------------------------------------------------------------------
(* Keys *)

\* The picker of a directory, or the artifacts, which want docker.
OpenScreen ==
  /\ screen = "hub"
  /\ \/ screen' = "picker" /\ UNCHANGED working
     \/ docker # "down" /\ screen' = "artifacts" /\ working' = FALSE
  /\ UNCHANGED <<dir, cfg, cfgErr, editVars, imgVars, chosen, reloads, hasty>>

\* The picker stays on the screen until its result comes back.
Choose(d) ==
  /\ screen = "picker"
  /\ Post(chosen, d)
  /\ UNCHANGED <<screen, dir, cfg, cfgErr, editVars, imgVars, working, reloads, hasty>>

\* reset: the editor keeps the configuration of that moment.
OpenEditor(e, from) ==
  /\ screen = from
  /\ screen' = e
  /\ editor' = [editor EXCEPT ![e] = cfg]
  /\ hasty' = (hasty \/ ~CaughtUp \/ cfgErr)
  /\ UNCHANGED <<dir, cfg, cfgErr, misplaced, imgVars, working, chosen, reloads>>

OpenSettings  == OpenEditor("settings", "hub")
OpenPackages  == OpenEditor("packages", "settings")
OpenModelList == OpenEditor("model", "hub")

\* The configuration the editor was opened with names the file that is written,
\* and the directory that is loaded again.
Save(e, ofProject) ==
  /\ screen = e
  /\ editor[e] # None
  /\ Post(reloads, editor[e])
  /\ misplaced' = (misplaced \/ (ofProject /\ editor[e] # dir))
  /\ hasty' = (hasty \/ ~CaughtUp)
  /\ UNCHANGED <<screen, dir, cfg, cfgErr, editor, imgVars, working, chosen>>

\* The file is the global one, or the project's.
SaveSettings == \E ofProject \in BOOLEAN : Save("settings", ofProject)
SavePackages == \E ofProject \in BOOLEAN : Save("packages", ofProject)

\* The model is written to ollama.env, which all projects share.
SelectModel == Save("model", FALSE)

\* esc, back to where the screen was opened from; a removal keeps the artifacts.
\* What the editor was given is not looked at again.
Back ==
  /\ screen \in Editors \cup {"picker", "artifacts"}
  /\ screen = "artifacts" => ~working
  /\ screen' = IF screen = "packages" THEN "settings" ELSE "hub"
  /\ editor' = [e \in Editors |-> IF e = screen THEN None ELSE editor[e]]
  /\ UNCHANGED <<dir, cfg, cfgErr, misplaced, imgVars, working, chosen, reloads, hasty>>

RemoveArtifacts ==
  /\ screen = "artifacts"
  /\ ~working
  /\ working' = TRUE
  /\ UNCHANGED <<screen, dir, cfg, cfgErr, editVars, imgVars, chosen, reloads, hasty>>

\* launch, which wants docker and a directory, or ctrl+c.
Quit ==
  /\ screen # "quit"
  /\ screen' = "quit"
  /\ UNCHANGED <<dir, cfg, cfgErr, editVars, imgVars, working, chosen, reloads, hasty>>

Key ==
  \/ OpenScreen \/ OpenSettings \/ OpenPackages \/ OpenModelList
  \/ \E d \in Dirs : Choose(d)
  \/ SaveSettings \/ SavePackages \/ SelectModel
  \/ Back \/ RemoveArtifacts \/ Quit

Next == Result \/ Key

Spec == Init /\ [][Next]_vars
-----------------------------------------------------------------------------
\* With that, no image's state is asked for without a configuration.
TypeOK ==
  /\ screen \in Editors \cup {"hub", "picker", "artifacts", "quit"}
  /\ dir \in Dirs /\ cfg \in Configs /\ badge \in Configs
  /\ {cfgErr, working, hasty, misplaced} \subseteq BOOLEAN
  /\ docker \in {"unchecked", "ok", "down"}
  /\ editor \in [Editors -> Configs]
  /\ {chosen, reloads} \subseteq [Dirs -> 0..MaxPending]
  /\ infos \in [Configs -> 0..MaxPending] /\ infos[None] = 0

\* A user who waits for the interface to catch up finds the configuration and
\* the badges of the directory on the screen, or an error that says why not, and
\* the project settings such a user saves go to the project on the screen.
ShowsDirectory ==
  /\ (~hasty /\ CaughtUp /\ screen # "quit") =>
       /\ cfg = dir \/ cfgErr
       /\ docker = "ok" /\ cfg # None => badge = cfg
  /\ misplaced => hasty
=============================================================================
