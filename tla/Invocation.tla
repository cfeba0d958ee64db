------------------------------ MODULE Invocation ------------------------------
(***************************************************************************)
(* Commands a user starts side by side: run, shell and setup for an agent, *)
(* up, down and pull for the Ollama sidecar, and the two forms of clean.   *)
(* Each looks at what docker has, tells the user what it is about to do,   *)
(* asks, and does it, while the others change what it looked at.           *)
(*                                                                         *)
(* The jail is what Session says of it, set up and taken down in one step; *)
(* an image is there or not, whatever Build says of how it came to be.     *)
(* Every command may be given again and again by each of the terminals.    *)
(*                                                                         *)
(* Definitions marked "Fault" are not part of the specification: each is   *)
(* the definition after it with a mistake a change to the code could make, *)
(* kept to show that the properties below notice it.                       *)
(***************************************************************************)
EXTENDS FiniteSets, Flags

CONSTANTS
  Terms,     \* terminals, with at most one command each
  Agents,
  Local,     \* hermes-local, the agent that uses the sidecar
  Dirs,      \* project directories that exist
  Models,    \* tags OLLAMA_MODEL may name
  NoModel,   \* no model
  Listed,    \* for each agent, those whose container names its filter matches
  Menu,      \* for each terminal, the commands and configurations given there
  Lines      \* the command lines that are given

Sessions == {"run", "shell", "setup"}
Commands == Sessions \cup {"up", "down", "pull", "clean", "cleanAll"}
Templates == [cmd : Commands, agent : Agents, model : Models \cup {NoModel},
              jail : BOOLEAN, auto : BOOLEAN]

ASSUME InvocationAssumption ==
  /\ Local \in Agents /\ Cwd \in Dirs
  /\ NoModel \notin Models
  /\ Listed \in [Agents -> SUBSET Agents]
  /\ Menu \in [Terms -> SUBSET Templates]

Projects == Agents \X Dirs
OllamaNet == <<"ollama-net">>

VARIABLES
  pc,        \* what each terminal's command does next
  inv,       \* the command, its effective configuration and its project
  approved,  \* set: the commands whose plan was confirmed
  found,     \* what a clean listed and has still to remove
  images,    \* agents whose image is built
  homes,     \* projects with a home volume
  jails,     \* networks of jails: the project each is named for, and its maker
  gates,     \* proxies that run, likewise
  boxes,     \* commands whose agent container runs
  sidecar,   \* "absent", "stopped" or "running"
  ollamaNet, \* the sidecar's own network exists
  on,        \* the networks the sidecar is attached to
  pulled,    \* models in the sidecar's volume
  seeded,    \* set: the model hermes-local's config.yaml names, if the file exists
  agreed,    \* history: what the user's answers, in the plan or one by one, allow
  cutOff     \* history: sessions warned, or whose sidecar was stopped after they found it

stock  == <<images, homes>>
jail   == <<jails, gates>>
ollama == <<sidecar, ollamaNet, on, pulled>>
daemon == <<stock, jail, boxes, ollama>>
vars   == <<pc, inv, approved, found, daemon, seeded, agreed, cutOff>>
-----------------------------------------------------------------------------
NoInv == [cmd |-> "none"]

\* What the user typed and the env files say; resolved, the line's own flags are
\* spent.
Invocations == [cmd : Commands, agent : Agents, model : Models \cup {NoModel}, jail : BOOLEAN,
                auto : BOOLEAN, dir : Dirs, yes : BOOLEAN,
                flags : SUBSET {"network-jail", "no-network-jail"}]

Project(p) == <<inv[p].agent, inv[p].dir>>
IsLocal(p) == inv[p].agent = Local
AutoApprove(p) == inv[p].auto \/ p \in approved

\* networkArgFor, and the network behind the proxy's namespace.
NetworkOf(p) == IF inv[p].jail THEN Project(p) ELSE IF IsLocal(p) THEN OllamaNet ELSE <<"bridge">>
Reachable(p) == CASE inv[p].jail -> <<Project(p), p>> \in gates
                  [] IsLocal(p) -> ollamaNet
                  [] OTHER -> TRUE

NetworkExists(n) == IF n = OllamaNet THEN ollamaNet ELSE \E t \in Terms : <<n, t>> \in jails

\* Networks with an endpoint that is up are not removed.
Attached(n) == sidecar = "running" /\ n \in on
InUse(n)    == Attached(n) \/ \E t \in Terms : <<n, t>> \in gates

Box(p)  == [kind |-> "box", of |-> p]
Gate(g) == [kind |-> "gate", of |-> g]
Home(j) == [kind |-> "home", of |-> j]
Resources == {Box(t) : t \in Terms} \cup {Gate(g) : g \in Projects \X Terms} \cup {Home(j) : j \in Projects}

At(p, here) == pc[p] = here
Go(p, there) == pc' = [pc EXCEPT ![p] = there]
Step(p, here, there) == At(p, here) /\ Go(p, there)

\* The process ends.  Only Cleanup comes before it; to die is to skip that.
Over(p) ==
  /\ pc' = [pc EXCEPT ![p] = "none"]
  /\ inv' = [inv EXCEPT ![p] = NoInv]
  /\ approved' = approved \ {p}
  /\ found' = [found EXCEPT ![p] = {}]

End(p) == Over(p) /\ agreed' = [agreed EXCEPT ![p] = {}] /\ cutOff' = cutOff \ {p}

\* Where a command that changes its mind goes: deferred cleanup, if any.
Return(p) == Go(p, "cleanup")

private == <<inv, approved, found, agreed, cutOff>>

\* A container that is gone is not there to be removed by those who listed it.
Forget(os) == found' = [p \in Terms |-> found[p] \ os]

\* Whoever approved a plan, or is about to, has approved making this again.
Gone(thing, concerned) ==
  agreed' = [q \in Terms |-> IF q \in concerned /\ (q \in approved \/ At(q, "ask_plan"))
                              THEN agreed[q] \cup {thing} ELSE agreed[q]]

\* docker keeps an image that is in use, and no error of it is looked at.
RemoveImages(a) ==
  \/ /\ images' = images \ {a}
     /\ Gone("image", {q \in Terms : inv[q] # NoInv /\ inv[q].agent = a})
  \/ UNCHANGED <<images, agreed>>

Init ==
  /\ pc = [p \in Terms |-> "none"]
  /\ inv = [p \in Terms |-> NoInv]
  /\ approved = {}
  /\ found = [p \in Terms |-> {}]
  /\ images = {} /\ homes = {} /\ jails = {} /\ gates = {} /\ boxes = {}
  /\ sidecar = "absent" /\ ollamaNet = FALSE /\ on = {} /\ pulled = {}
  /\ seeded = {}
  /\ agreed = [p \in Terms |-> {}]
  /\ cutOff = {}
-----------------------------------------------------------------------------
(* Starting: the command line, the env files and the configuration *)

\* What the command lines come to that name a directory that exists.
Usable(cmd) ==
  LET Is(o, f) == o.set[f] # NoValue /\ o.set[f].val # "false"
  IN  {[dir |-> o.dir.val, yes |-> Is(o, "yes"),
        flags |-> {f \in {"network-jail", "no-network-jail"} : Is(o, f)}] :
         o \in {r \in {parseFlags(cmd, args) : args \in Lines} :
                  r.ok /\ IsPlain(r.dir) /\ r.dir.val \in Dirs}}

RunLines   == Usable("run")
SetupLines == Usable("setup")
BareLine   == {[dir |-> Cwd, yes |-> FALSE, flags |-> {}]}

LinesFor(cmd) == CASE cmd = "setup" -> SetupLines
                   [] cmd \in {"run", "shell"} -> RunLines
                   [] OTHER -> BareLine

\* resolveSession: the flags of this invocation have the last word.
Resolved(i) ==
  [i EXCEPT !.auto = @ \/ i.yes,
            !.jail = (@ \/ "network-jail" \in i.flags) /\ "no-network-jail" \notin i.flags,
            !.yes = FALSE, !.flags = {}]
Conflicting(i) == {"network-jail", "no-network-jail"} \subseteq i.flags

AfterConfig(cmd) == CASE cmd = "run" -> "gate" [] cmd = "shell" -> "find"
                      [] cmd = "setup" -> "plan" [] cmd = "up" -> "start"
                      [] cmd \in {"clean", "cleanAll"} -> "list" [] OTHER -> cmd

Resolve(p, i) ==
  /\ inv' = [inv EXCEPT ![p] = IF Conflicting(i) THEN NoInv ELSE Resolved(i)]
  /\ Go(p, IF Conflicting(i) THEN "none" ELSE AfterConfig(i.cmd))

\* A command that reads its configuration first asks for the env files it
\* misses, unless the configuration says not to ask; --yes is not looked at yet.
\* Which files the user has, or has made, changes nothing after that: those made
\* are comments, and the configuration has been read.
Begin(p) ==
  /\ At(p, "none")
  /\ \E t \in Menu[p] : \E l \in LinesFor(t.cmd) :
       LET i == [cmd |-> t.cmd, agent |-> t.agent, model |-> t.model, jail |-> t.jail,
                 auto |-> t.auto, dir |-> l.dir, yes |-> l.yes, flags |-> l.flags]
       IN  \/ Resolve(p, i)
           \/ /\ ~i.auto /\ i.cmd \notin {"clean", "cleanAll"}
              /\ Go(p, "ask_files") /\ inv' = [inv EXCEPT ![p] = i]
  /\ UNCHANGED <<approved, found, daemon, seeded, agreed, cutOff>>

\* PromptCreateEnvFiles, answered.
AnswerFiles(p) ==
  /\ At(p, "ask_files")
  /\ Resolve(p, inv[p])
  /\ UNCHANGED <<approved, found, daemon, seeded, agreed, cutOff>>
-----------------------------------------------------------------------------
(* The doctor's gate, and the plan *)

\* doctorGate: the checks find nothing, or something the user is asked about.
DoctorGate(p) ==
  /\ At(p, "gate")
  /\ \E issues \in BOOLEAN : Go(p, IF issues /\ ~AutoApprove(p) THEN "ask_doctor" ELSE "plan")
  /\ UNCHANGED <<private, daemon, seeded>>

\* FindRunningContainer: a shell joins the container of a session that runs.
FindContainer(p) ==
  /\ At(p, "find")
  /\ Go(p, IF \E b \in boxes : Project(b) = Project(p) THEN "attached" ELSE "plan")
  /\ UNCHANGED <<private, daemon, seeded>>

ChecksOllama(p) == IsLocal(p) /\ inv[p].cmd # "setup"

\* Fault: the home volume is not looked at.
NeedsWithoutHome(p) ==
  (IF inv[p].agent \notin images THEN {"image"} ELSE {})
  \cup (IF inv[p].jail THEN {"jail"} ELSE {})
  \cup (IF ChecksOllama(p) /\ sidecar # "running" THEN {"sidecar"} ELSE {})
  \cup (IF ChecksOllama(p) /\ inv[p].model # NoModel
            /\ ~(sidecar = "running" /\ inv[p].model \in pulled) THEN {"model"} ELSE {})

\* buildRunPlan: what there is to create or start.  The model is looked for
\* only in a sidecar that runs.
Needs(p) ==
  (IF inv[p].agent \notin images THEN {"image"} ELSE {})
  \cup (IF Project(p) \notin homes THEN {"home"} ELSE {})
  \cup (IF inv[p].jail THEN {"jail"} ELSE {})
  \cup (IF ChecksOllama(p) /\ sidecar # "running" THEN {"sidecar"} ELSE {})
  \cup (IF ChecksOllama(p) /\ inv[p].model # NoModel
            /\ ~(sidecar = "running" /\ inv[p].model \in pulled) THEN {"model"} ELSE {})

\* The user's approval stands for the rest of the invocation.
ApproveRest(p) == approved' = approved \cup {p}

\* confirmRunPlan: nothing to ask when the plan is empty, or under --yes.
ShowPlan(p) ==
  /\ At(p, "plan")
  /\ Go(p, IF Needs(p) = {} \/ AutoApprove(p) THEN "image" ELSE "ask_plan")
  /\ agreed' = [agreed EXCEPT ![p] = IF inv[p].auto THEN {} ELSE Needs(p)]
  /\ UNCHANGED <<inv, approved, found, daemon, seeded, cutOff>>

ApprovePlan(p) ==
  /\ Step(p, "ask_plan", "image")
  /\ ApproveRest(p)
  /\ UNCHANGED <<inv, found, agreed, daemon, seeded, cutOff>>

\* A question, its answers, and where each leads: a yes is remembered.
Ask(p, here, thing, yes) ==
  /\ Step(p, here, yes)
  /\ agreed' = [agreed EXCEPT ![p] = @ \cup {thing}]
  /\ UNCHANGED <<inv, approved, found, daemon, seeded, cutOff>>

Answers(p) ==
  \/ Ask(p, "ask_image", "image", "build")
  \/ Ask(p, "ask_sidecar", "sidecar", "start")
  \/ Ask(p, "ask_model", "model", "pulling")
  \/ Ask(p, "ask_update", "update", "rebuild")
  \/ Ask(p, "ask_home", "home", "makeHome")

\* Declining: before the jail there is nothing to clean up; a declined home
\* volume is an aborted run, which asks about the sidecar as any other.
Decline(p) ==
  /\ \/ At(p, "ask_doctor") /\ End(p)
     \/ At(p, "ask_plan") /\ End(p)
     \/ At(p, "ask_image") /\ End(p)
     \/ At(p, "ask_clean") /\ End(p)
     \/ At(p, "ask_sidecar") /\ Return(p) /\ UNCHANGED private
     \/ At(p, "ask_model") /\ Return(p) /\ UNCHANGED private
     \/ Step(p, "ask_update", "home") /\ UNCHANGED private
     \/ Step(p, "ask_home", "stop") /\ UNCHANGED private
     \/ At(p, "ask_stop") /\ Return(p) /\ UNCHANGED private
  /\ UNCHANGED <<daemon, seeded>>

ProceedAnyway(p) ==
  /\ Step(p, "ask_doctor", "plan")
  /\ UNCHANGED <<private, daemon, seeded>>
-----------------------------------------------------------------------------
(* prepareContainer: the image and the jail *)

EnsureImage(p) ==
  /\ At(p, "image")
  /\ Go(p, IF inv[p].agent \in images THEN "jail" ELSE IF AutoApprove(p) THEN "build" ELSE "ask_image")
  /\ UNCHANGED <<private, daemon, seeded>>

Build(p) ==
  /\ At(p, "build")
  /\ \/ End(p) /\ UNCHANGED images
     \/ Go(p, "jail") /\ images' = images \cup {inv[p].agent} /\ UNCHANGED private
  /\ UNCHANGED <<homes, jail, boxes, ollama, seeded>>

AfterJail(p) == IF ChecksOllama(p) THEN "sidecar" ELSE IF inv[p].cmd = "run" THEN "update" ELSE "home"

Without(j) == {n \in jails : n[1] # j}

\* NewNetworkJail: the project's network is made anew, unless it is in use; a
\* jail that fails half-way is undone, and the process dies.
MakeJail(p) ==
  /\ At(p, "jail")
  /\ \/ /\ ~inv[p].jail
        /\ Go(p, AfterJail(p))
        /\ UNCHANGED <<private, jails, gates>>
     \/ /\ inv[p].jail
        /\ End(p)
        /\ jails' \in {jails, IF InUse(Project(p)) THEN jails ELSE Without(Project(p))}
        /\ UNCHANGED gates
     \/ /\ inv[p].jail /\ ~InUse(Project(p))
        /\ Go(p, AfterJail(p))
        /\ jails' = Without(Project(p)) \cup {<<Project(p), p>>}
        /\ gates' = gates \cup {<<Project(p), p>>}
        /\ UNCHANGED private
  /\ UNCHANGED <<stock, boxes, ollama, seeded>>
-----------------------------------------------------------------------------
(* The sidecar: for a session, prepareOllamaSidecar; for "up", its start *)

EnsureOllamaRunning(p) ==
  /\ At(p, "sidecar")
  /\ IF sidecar = "running"
       THEN Go(p, "model")
       ELSE Go(p, IF AutoApprove(p) THEN "start" ELSE "ask_sidecar")
  /\ UNCHANGED <<private, daemon, seeded>>

\* StartOllamaContainer, which EnsureOllamaNetwork opens: the network is looked
\* for, and made if it was not there; docker has no two of one name.
EnsureOllamaNetwork(p) ==
  /\ \/ Step(p, "start", IF ollamaNet THEN "status" ELSE "network")
        /\ UNCHANGED <<private, ollamaNet>>
     \/ At(p, "network") /\ ollamaNet /\ End(p) /\ UNCHANGED ollamaNet
     \/ Step(p, "network", "status") /\ ~ollamaNet /\ ollamaNet' = TRUE /\ UNCHANGED private
  /\ UNCHANGED <<stock, jail, boxes, sidecar, on, pulled, seeded>>

Started(p) ==
  /\ sidecar' = "running"
  /\ IF inv[p].cmd = "up" THEN End(p) ELSE Go(p, "model") /\ UNCHANGED private

\* docker starts a container only if every network it is attached to exists.
CanStart == sidecar # "absent" /\ \A n \in on : NetworkExists(n)

\* OllamaStatus, and a container that is there is started in place; otherwise
\* its image is pulled, which may fail.
StartInPlace(p) ==
  /\ At(p, "status")
  /\ CASE sidecar = "absent" ->
            /\ \/ End(p)
               \/ Go(p, "create") /\ UNCHANGED private
            /\ UNCHANGED sidecar
       [] sidecar # "absent" /\ CanStart -> Started(p)
       [] OTHER -> End(p) /\ UNCHANGED sidecar
  /\ UNCHANGED <<stock, jail, boxes, ollamaNet, on, pulled, seeded>>

\* ContainerCreate: another command may have created it by now.
CreateSidecar(p) ==
  /\ At(p, "create")
  /\ IF sidecar = "absent"
       THEN Go(p, "startNew") /\ sidecar' = "stopped" /\ on' = {OllamaNet} /\ UNCHANGED private
       ELSE End(p) /\ UNCHANGED <<sidecar, on>>
  /\ UNCHANGED <<stock, jail, boxes, ollamaNet, pulled, seeded>>

StartNew(p) ==
  /\ At(p, "startNew")
  /\ IF CanStart THEN Started(p) ELSE End(p) /\ UNCHANGED sidecar
  /\ UNCHANGED <<stock, jail, boxes, ollamaNet, on, pulled, seeded>>

HasModel(p) == inv[p].model = NoModel \/ inv[p].model \in pulled

\* "pull" has nothing left to do, a session goes on.
ModelReady(p) == IF inv[p].cmd = "pull" THEN End(p) ELSE Go(p, "seed") /\ UNCHANGED private

\* EnsureOllamaModelPulled: the sidecar, asked for its models, must answer.
EnsureModel(p) ==
  /\ At(p, "model")
  /\ IF inv[p].model # NoModel /\ sidecar # "running" THEN End(p)
     ELSE IF HasModel(p) THEN ModelReady(p)
     ELSE Go(p, IF AutoApprove(p) THEN "pulling" ELSE "ask_model") /\ UNCHANGED private
  /\ UNCHANGED <<daemon, seeded>>
\* Fault: a model that cannot be pulled is a warning, as the steps after it.
PullWarns(p) ==
  /\ At(p, "pulling")
  /\ pulled' \in {pulled, pulled \cup IF sidecar = "running" THEN {inv[p].model} ELSE {}}
  /\ ModelReady(p)
  /\ UNCHANGED <<stock, jail, boxes, sidecar, ollamaNet, on, seeded>>

\* ollama pull in the sidecar; a failure is the end.
Pull(p) ==
  /\ At(p, "pulling")
  /\ \/ End(p) /\ UNCHANGED pulled
     \/ /\ sidecar = "running"
        /\ pulled' = pulled \cup {inv[p].model}
        /\ ModelReady(p)
  /\ UNCHANGED <<stock, jail, boxes, sidecar, ollamaNet, on, seeded>>

AfterSidecar(p) == IF inv[p].cmd = "run" THEN "update" ELSE "home"

\* SeedHermesLocalConfig writes once and for all; then ConnectOllamaToNetwork.
Seeded(p)    == IF seeded = {} THEN {inv[p].model} ELSE seeded
Connected(p) == IF inv[p].jail THEN on \cup {Project(p)} ELSE on

\* A failure of either is a warning.
SeedAndConnect(p) ==
  /\ Step(p, "seed", AfterSidecar(p))
  /\ seeded' \in {seeded, Seeded(p)}
  /\ on' \in {on} \cup IF sidecar # "absent" /\ (inv[p].jail => NetworkExists(Project(p)))
                         THEN {Connected(p)} ELSE {}
  /\ cutOff' = IF seeded' = Seeded(p) /\ on' = Connected(p) THEN cutOff ELSE cutOff \cup {p}
  /\ UNCHANGED <<inv, approved, found, agreed, stock, jail, boxes, sidecar, ollamaNet, pulled>>
-----------------------------------------------------------------------------
(* The update, the home volume, the agent, and the way out *)

\* CheckForUpdate asks npm, unless the image's version cannot be read.
CheckForUpdate(p) ==
  /\ At(p, "update")
  /\ \E newer \in {FALSE, inv[p].agent \in images} :
       Go(p, IF ~newer THEN "home" ELSE IF AutoApprove(p) THEN "rebuild" ELSE "ask_update")
  /\ UNCHANGED <<private, daemon, seeded>>

\* The old image is removed first, and a build that fails leaves none.
RemoveOldImage(p) ==
  /\ Step(p, "rebuild", "rebuilding")
  /\ RemoveImages(inv[p].agent)
  /\ UNCHANGED <<inv, approved, found, cutOff, homes, jail, boxes, ollama, seeded>>

Rebuild(p) ==
  /\ Step(p, "rebuilding", "home")
  /\ images' \in {images, images \cup {inv[p].agent}}
  /\ UNCHANGED <<private, homes, jail, boxes, ollama, seeded>>

\* An error of docker's is an error of the run, which goes on to its end.
EnsureHomeVolume(p) ==
  /\ \/ /\ At(p, "home")
        /\ Go(p, IF Project(p) \in homes THEN "launch" ELSE IF AutoApprove(p) THEN "makeHome" ELSE "ask_home")
        /\ UNCHANGED homes
     \/ Step(p, "makeHome", "launch") /\ homes' = homes \cup {Project(p)}
     \/ pc[p] \in {"home", "makeHome"} /\ Go(p, "stop") /\ UNCHANGED homes
  /\ UNCHANGED <<private, images, jail, boxes, ollama, seeded>>

\* docker run: the image, the network or the proxy's namespace, and the name
\* must be there and free; a volume that is gone again is made.
Startable(p) ==
  /\ inv[p].agent \in images
  /\ Reachable(p)
  /\ \A b \in boxes : Project(b) = Project(p) => inv[b].cmd # inv[p].cmd

Launch(p) ==
  /\ \/ /\ Step(p, "launch", "agent") /\ Startable(p)
        /\ boxes' = boxes \cup {p} /\ homes' = homes \cup {Project(p)}
     \/ Step(p, "launch", "stop") /\ UNCHANGED <<boxes, homes>>
  /\ agreed' = [agreed EXCEPT ![p] = {}]
  /\ UNCHANGED <<inv, approved, found, cutOff, images, jail, ollama, seeded>>

\* Fault: the container outlives the agent.
AgentEndsLeavingBox(p) ==
  /\ Step(p, "agent", "stop")
  /\ UNCHANGED <<private, daemon, seeded>>

\* The agent exits, or was removed, and so is its container.
AgentEnds(p) ==
  /\ Step(p, "agent", "stop")
  /\ boxes' = boxes \ {p}
  /\ Forget({Box(p)})
  /\ UNCHANGED <<inv, approved, agreed, stock, jail, ollama, seeded, cutOff>>

Detach(p) ==
  /\ At(p, "attached")
  /\ End(p)
  /\ UNCHANGED <<daemon, seeded>>

\* MaybeStopOllama: under --yes, or an approved plan, nothing is asked.
MaybeStopOllama(p) ==
  /\ Step(p, "stop", IF ChecksOllama(p) /\ ~AutoApprove(p) /\ sidecar = "running" THEN "ask_stop" ELSE "cleanup")
  /\ UNCHANGED <<private, daemon, seeded>>

\* The sessions that go by a sidecar they found or started.
Found == {"model", "ask_model", "pulling", "seed", "update", "ask_update", "rebuild", "rebuilding",
          "home", "ask_home", "makeHome", "launch", "agent"}

Stopped ==
  /\ sidecar' = IF sidecar = "absent" THEN "absent" ELSE "stopped"
  /\ Gone("sidecar", {q \in Terms : inv[q] # NoInv /\ IsLocal(q)})
  /\ cutOff' = cutOff \cup {q \in Terms : pc[q] \in Found /\ ChecksOllama(q)}

StopSidecar(p) ==
  /\ Step(p, "ask_stop", "cleanup")
  /\ Stopped
  /\ UNCHANGED <<inv, approved, found, stock, jail, boxes, ollamaNet, on, pulled, seeded>>

\* NetworkJail.Cleanup, deferred until here: the session's own proxy and its own
\* network, if docker lets it go.
Cleanup(p) ==
  LET own == {<<j, p>> : j \in {Project(p)}}
  IN  /\ At(p, "cleanup")
      /\ gates' = gates \ own
      /\ jails' = IF Attached(Project(p)) THEN jails ELSE jails \ own
      /\ End(p)
      /\ UNCHANGED <<stock, boxes, ollama, seeded>>
-----------------------------------------------------------------------------
(* cmdOllama down and pull, and the clean commands *)

OllamaDown(p) ==
  /\ At(p, "down")
  /\ Over(p)
  /\ IF sidecar = "running" THEN Stopped ELSE UNCHANGED <<sidecar, agreed, cutOff>>
  /\ UNCHANGED <<stock, jail, boxes, ollamaNet, on, pulled, seeded>>

OllamaPull(p) ==
  /\ At(p, "pull")
  /\ IF sidecar # "running" \/ HasModel(p) THEN End(p) ELSE Go(p, "model") /\ UNCHANGED private
  /\ UNCHANGED <<daemon, seeded>>

\* ListAllResources matches the names of volumes with the agent's name ...
FindsHome(p, a, d) == a = inv[p].agent /\ (inv[p].cmd = "clean" => d = inv[p].dir)

\* ... and those of containers with a filter that longer names pass as well.
FindsBox(p, a, d) == a \in Listed[inv[p].agent] /\ (inv[p].cmd = "clean" => d = inv[p].dir)

\* ListProjectResources does not find the proxies, whose names have no project.
ListResources(p) ==
  /\ At(p, "list")
  /\ LET all == {Box(b) : b \in {b \in boxes : FindsBox(p, inv[b].agent, inv[b].dir)}}
                \cup {Gate(g) : g \in {g \in gates : inv[p].cmd = "cleanAll" /\ FindsBox(p, g[1][1], g[1][2])}}
                \cup {Home(h) : h \in {h \in homes : FindsHome(p, h[1], h[2])}}
     IN  IF all = {} /\ inv[p].cmd = "clean" THEN End(p)
         ELSE /\ Go(p, "ask_clean")
              /\ found' = [found EXCEPT ![p] = all]
              /\ UNCHANGED <<inv, approved, agreed, cutOff>>
  /\ UNCHANGED <<daemon, seeded>>

AgreeToClean(p) ==
  /\ Step(p, "ask_clean", "remove")
  /\ UNCHANGED <<private, daemon, seeded>>

\* RemoveContainerList by ID, running or not, then RemoveVolumeList by name.
RemoveContainer(o) ==
  /\ boxes' = {b \in boxes : Box(b) # o}
  /\ gates' = {g \in gates : Gate(g) # o}
  /\ Forget({o})
  /\ UNCHANGED <<agreed, homes>>

\* docker keeps a volume that a container has.
RemoveVolume(p, o) ==
  /\ IF \E b \in boxes : Project(b) = o.of
       THEN UNCHANGED <<homes, agreed>>
       ELSE /\ homes' = homes \ {o.of}
            /\ Gone("home", {q \in Terms : inv[q] # NoInv /\ Project(q) = o.of})
  /\ found' = [found EXCEPT ![p] = @ \ {o}]
  /\ UNCHANGED <<boxes, gates>>

\* What cannot be removed is left, whatever the reason.
RemoveOne(p) ==
  /\ At(p, "remove")
  /\ \E o \in found[p] :
       \/ o.kind # "home" /\ RemoveContainer(o)
       \/ o.kind = "home" /\ (\A x \in found[p] : x.kind = "home") /\ RemoveVolume(p, o)
       \/ found' = [found EXCEPT ![p] = @ \ {o}] /\ UNCHANGED <<boxes, gates, homes, agreed>>
  /\ UNCHANGED <<pc, inv, approved, cutOff, images, jails, ollama, seeded>>

\* RemoveAllAgentImages, when every project is cleaned.
FinishClean(p) ==
  /\ At(p, "remove") /\ found[p] = {}
  /\ Over(p)
  /\ IF inv[p].cmd = "cleanAll" THEN RemoveImages(inv[p].agent) ELSE UNCHANGED <<images, agreed>>
  /\ UNCHANGED <<cutOff, homes, jail, boxes, ollama, seeded>>
-----------------------------------------------------------------------------
\* The steps at which an error of the daemon is the end: die skips the cleanup.
Fatal == {"plan", "image", "sidecar", "start", "network", "status", "create", "startNew", "model",
          "pulling", "down", "pull"}

DockerFails(p) ==
  /\ pc[p] \in Fatal
  /\ End(p)
  /\ UNCHANGED <<daemon, seeded>>
-----------------------------------------------------------------------------
Session(p) ==
  \/ Begin(p) \/ AnswerFiles(p) \/ DoctorGate(p) \/ ProceedAnyway(p) \/ FindContainer(p)
  \/ ShowPlan(p) \/ ApprovePlan(p) \/ Answers(p) \/ Decline(p)
  \/ EnsureImage(p) \/ Build(p) \/ MakeJail(p)
  \/ CheckForUpdate(p) \/ RemoveOldImage(p) \/ Rebuild(p)
  \/ EnsureHomeVolume(p) \/ Launch(p) \/ AgentEnds(p) \/ Detach(p) \/ Cleanup(p)
  \/ DockerFails(p)

Sidecar(p) ==
  \/ EnsureOllamaRunning(p) \/ EnsureOllamaNetwork(p) \/ StartInPlace(p) \/ CreateSidecar(p)
  \/ StartNew(p) \/ EnsureModel(p) \/ Pull(p) \/ SeedAndConnect(p)
  \/ MaybeStopOllama(p) \/ StopSidecar(p) \/ OllamaDown(p) \/ OllamaPull(p)

Clean(p) == ListResources(p) \/ AgreeToClean(p) \/ RemoveOne(p) \/ FinishClean(p)

Next == \E p \in Terms : Session(p) \/ Sidecar(p) \/ Clean(p)

Spec == Init /\ [][Next]_vars
-----------------------------------------------------------------------------
Things == {"image", "home", "jail", "sidecar", "model"}
Steps == {"none", "ask_files", "gate", "ask_doctor", "find", "attached", "plan", "ask_plan", "image",
          "ask_image", "build", "jail", "sidecar", "ask_sidecar", "start", "network", "status",
          "create", "startNew", "model", "ask_model", "pulling", "seed", "update", "ask_update",
          "rebuild", "rebuilding", "home", "ask_home", "makeHome", "launch", "agent", "stop",
          "ask_stop", "cleanup", "down", "pull", "list", "ask_clean", "remove"}

TypeOK ==
  /\ pc \in [Terms -> Steps]
  /\ inv \in [Terms -> {NoInv} \cup Invocations]
  /\ \A p \in Terms : (pc[p] = "none") = (inv[p] = NoInv)
  /\ found \in [Terms -> SUBSET Resources]
  /\ approved \subseteq {p \in Terms : inv[p] # NoInv}
  /\ images \subseteq Agents /\ homes \subseteq Projects
  /\ jails \subseteq Projects \X Terms /\ gates \subseteq jails
  /\ boxes \subseteq {p \in Terms : pc[p] = "agent"}
  /\ sidecar \in {"absent", "stopped", "running"} /\ ollamaNet \in BOOLEAN
  /\ on \subseteq {OllamaNet} \cup Projects
  /\ pulled \subseteq Models /\ seeded \subseteq Models \cup {NoModel}
  /\ agreed \in [Terms -> SUBSET (Things \cup {"update"})]
  /\ cutOff \subseteq {p \in Terms : inv[p] # NoInv}

\* The lines on which a flag does not mean what it says where it stands.
Misread == {l \in {"run", "setup"} \X Lines :
              ~LacksValue(l[2]) /\ parseFlags(l[1], l[2]) # Reading(l[1], l[2])}

\* reorderKnownFlags' comment: a flag means the same wherever it stands on the
\* line, and from "--" on nothing is one.  So it is with every command given,
\* unless the last word is a flag that lacks its value: that one takes the first
\* word that is not a flag's, the directory.
FlagsAnywhere == \A p \in Terms : inv[p] # NoInv => Misread = {}

\* What a step of p makes, of what a user is asked about.
Made(p) ==
  CASE pc[p] = "build" /\ images' # images -> {"image"}
    [] pc[p] = "rebuilding" /\ images' # images -> {"update"}
    [] pc[p] = "makeHome" /\ homes' # homes -> {"home"}
    [] pc[p] = "jail" /\ gates' # gates -> {"jail"}
    [] sidecar' = "running" /\ sidecar # "running" -> {"sidecar"}
    [] pulled' # pulled -> {"model"}
    [] OTHER -> {}

\* A session that was not told to approve everything makes only what the user
\* agreed to, item by item or in the plan.  The approved plan stands for two
\* things more: what was there and has been taken away since, and an update.
NothingUnlisted ==
  [][\A p \in Terms :
       pc[p] # pc'[p] /\ inv[p] # NoInv /\ inv[p].cmd \in Sessions /\ ~inv[p].auto =>
         Made(p) \subseteq agreed[p] \cup IF p \in approved THEN {"update"} ELSE {}]_vars

\* README: hermes-local reaches the sidecar "regardless of the network jail".  As
\* long as it was not warned and nobody has stopped the sidecar, that one runs on
\* the network the agent is in, and has the model the session names and the one
\* that config.yaml, written by whichever session came first, names.
SidecarServes ==
  \A p \in boxes :
    ChecksOllama(p) /\ p \notin cutOff =>
      /\ sidecar = "running" /\ NetworkOf(p) \in on
      /\ HasModel(p)
      /\ seeded # {} /\ seeded \ {NoModel} \subseteq pulled

\* ListAllResources' comment: "all containers and volumes for the given agent".
CleanStaysInAgent ==
  [][\A p \in Terms, b \in boxes \ boxes' :
       pc[p] = "remove" /\ pc'[b] = pc[b] => inv[b].agent = inv[p].agent]_vars
=============================================================================
