------------------------------- MODULE Session -------------------------------
(***************************************************************************)
(* The life of smith-jail sessions that share one Docker daemon: the run,  *)
(* shell and setup commands of main.go from their plan to their exit, the  *)
(* network jail each builds before the agent's container and takes down    *)
(* after it (network.go), and the Ollama sidecar hermes-local attaches to  *)
(* the session's network (ollama.go).                                      *)
(*                                                                         *)
(* Every docker call is a step: another session, a container that exits,   *)
(* an error of the daemon or the death of the process may fall between any *)
(* two.  The daemon itself is external, and modelled as far as these calls *)
(* depend on it: a network's name is unique, a network with an active      *)
(* endpoint cannot be removed, a container's name is unique, and joining a *)
(* container's namespace needs that container to be running.               *)
(*                                                                         *)
(* Definitions marked "Fault" are not part of the specification: each is   *)
(* the definition after it with a mistake a change to the code could make, *)
(* kept to show that the properties below notice it.                       *)
(***************************************************************************)
EXTENDS Naturals, FiniteSets

CONSTANTS
  Sessions,  \* invocations of smith-jail
  Projects,  \* project directories, by their hash
  Requests,  \* what the invocations may be asked for: a plan for each
  NoNet      \* no network

Commands == {"run", "shell", "setup"}

\* A session's plan: its directory, its command, whether its agent is
\* hermes-local (all others are one agent here) and whether it has the jail.
Plans == [project : Projects, command : Commands, local : BOOLEAN, jailed : BOOLEAN]

ASSUME SessionAssumption ==
  /\ Requests \subseteq [Sessions -> Plans]
  /\ NoNet \notin Sessions

VARIABLES
  plan,       \* what each session was asked for
  pc,         \* the call each session's process makes next
  failing,    \* NewNetworkJail is undoing a failed set-up, and will die
  hurt,       \* history: sessions a docker call of whose Cleanup failed
  \* docker
  nets,       \* the session networks that exist, by the session that made each
  proxy,      \* the state of each session's proxy container
  proxyNet,   \* the network it has its endpoint on
  marker,     \* its log holds the ready marker
  rules,      \* the nft rules are installed in its namespace
  agent,      \* the state of each session's agent container
  ollama,     \* the Ollama sidecar is running
  ollamaNets, \* the session networks it was connected to
  \* the host's file system
  policy      \* each session's temporary policy file exists

hostVars   == <<plan, pc, failing, hurt>>
proxyVars  == <<proxy, proxyNet, marker, rules>>
ollamaVars == <<ollama, ollamaNets>>
vars == <<hostVars, nets, proxyVars, agent, ollamaVars, policy>>
-----------------------------------------------------------------------------
(* Names and what the daemon looks up by them *)

Project(s) == plan[s].project
Jailed(s)  == plan[s].jailed

\* Fault: the network is named by the agent alone.
SameNetworkByAgent(s, t) == plan[s].local = plan[t].local

\* A session network's name is the agent's prefix and the project's hash:
\* the sessions of one agent on one project use one name.
SameNetwork(s, t) == Project(s) = Project(t) /\ plan[s].local = plan[t].local

\* The networks that carry the name session s uses: at most one at a time.
Named(s) == {n \in nets : SameNetwork(n, s)}

\* A network with a running container on it.
Busy(n) ==
  \/ \E s \in Sessions : proxy[s] = "running" /\ proxyNet[s] = n
  \/ ollama /\ n \in ollamaNets

\* The agent containers of one project, agent and command have one name.
NameTaken(s) ==
  \E t \in Sessions \ {s} :
    /\ agent[t] = "running"
    /\ SameNetwork(s, t) /\ plan[t].command = plan[s].command
-----------------------------------------------------------------------------
Init ==
  /\ plan \in Requests
  /\ pc = [s \in Sessions |-> "start"]
  /\ failing = {}
  /\ hurt = {}
  /\ nets = {}
  /\ proxy = [s \in Sessions |-> "absent"]
  /\ proxyNet = [s \in Sessions |-> NoNet]
  /\ marker = {}
  /\ rules = {}
  /\ agent = [s \in Sessions |-> "absent"]
  /\ ollama \in BOOLEAN
  /\ ollamaNets = {}
  /\ policy = {}

Goes(s, from, to) == pc[s] = from /\ pc' = [pc EXCEPT ![s] = to]

\* A process ends at once: die() is os.Exit, which runs no deferred call.
Dies(s, from) == Goes(s, from, "died")

\* A failed step of NewNetworkJail runs Cleanup before the caller dies.
Undoes(s, from) == Goes(s, from, "removeProxy") /\ failing' = failing \cup {s}
-----------------------------------------------------------------------------
(* Up to the jail: cmdRun, cmdShell, cmdSetup, prepareContainer *)

\* smith-jail shell runs "docker exec" in place of itself when the project
\* has a running container of this agent, whatever command started it.
AttachShell(s) ==
  /\ plan[s].command = "shell"
  /\ \E t \in Sessions \ {s} : SameNetwork(s, t) /\ agent[t] = "running"
  /\ Goes(s, "start", "done")
  /\ UNCHANGED <<plan, failing, hurt, nets, proxyVars, agent, ollamaVars, policy>>

\* Otherwise the doctor gate and the run plan are put to the user: declined,
\* the command returns; accepted, it goes on.  A shell comes here too when
\* the containers cannot be listed.
ConfirmPlan(s) ==
  /\ Goes(s, "start", "image") \/ Goes(s, "start", "done") \/ Dies(s, "start")
  /\ UNCHANGED <<plan, failing, hurt, nets, proxyVars, agent, ollamaVars, policy>>

\* Where a session goes once its network is settled.
AfterJail(s) == IF plan[s].local /\ plan[s].command # "setup" THEN "sidecar" ELSE "launch"

\* EnsureImage: built or found, declined (the command returns), or failed.
PrepareImage(s) ==
  /\ \/ Goes(s, "image", IF Jailed(s) THEN "jail" ELSE AfterJail(s))
     \/ Goes(s, "image", "done")
     \/ Dies(s, "image")
  /\ UNCHANGED <<plan, failing, hurt, nets, proxyVars, agent, ollamaVars, policy>>
-----------------------------------------------------------------------------
(* NewNetworkJail *)

\* The kernel module, the allow file and the proxy images, before anything
\* of this session's exists.
PreflightJail(s) ==
  /\ Goes(s, "jail", "clearNetwork") \/ Dies(s, "jail")
  /\ UNCHANGED <<plan, failing, hurt, nets, proxyVars, agent, ollamaVars, policy>>

\* createDockerNetwork first removes a network left under the name.  The
\* error, when there is none or it is busy, is dropped.
ClearNetwork(s) ==
  /\ Goes(s, "clearNetwork", "createNetwork")
  /\ nets' = nets \ {n \in Named(s) : ~Busy(n)} \/ nets' = nets
  /\ UNCHANGED <<plan, failing, hurt, proxyVars, agent, ollamaVars, policy>>

\* NetworkCreate fails if the name is in use, or for the daemon's reasons.
\* Nothing exists yet, so nothing is undone.
CreateNetwork(s) ==
  /\ \/ Named(s) = {} /\ nets' = nets \cup {s} /\ Goes(s, "createNetwork", "writePolicy")
     \/ nets' = nets /\ Dies(s, "createNetwork")
  /\ UNCHANGED <<plan, failing, hurt, proxyVars, agent, ollamaVars, policy>>

\* writePolicyFile leaves no file behind when it fails.
WritePolicy(s) ==
  /\ \/ policy' = policy \cup {s} /\ failing' = failing /\ Goes(s, "writePolicy", "openLog")
     \/ policy' = policy /\ Undoes(s, "writePolicy")
  /\ UNCHANGED <<plan, hurt, nets, proxyVars, agent, ollamaVars>>

\* netLogPath and ensureFileExists.
OpenLog(s) ==
  /\ \/ failing' = failing /\ Goes(s, "openLog", "startProxy")
     \/ Undoes(s, "openLog")
  /\ UNCHANGED <<plan, hurt, nets, proxyVars, agent, ollamaVars, policy>>

\* "docker run -d" joins the network by name: whichever network has that
\* name now.  It may fail before or after creating the container, and when
\* the network is gone the container is created and cannot start.
StartProxy(s) ==
  /\ \/ \E n \in Named(s) :
          /\ proxy' = [proxy EXCEPT ![s] = "running"]
          /\ proxyNet' = [proxyNet EXCEPT ![s] = n]
          /\ failing' = failing
          /\ Goes(s, "startProxy", "awaitProxy")
     \/ /\ proxy' \in {proxy, [proxy EXCEPT ![s] = "created"]}
        /\ proxyNet' = proxyNet
        /\ Undoes(s, "startProxy")
  /\ UNCHANGED <<plan, hurt, nets, marker, rules, agent, ollamaVars, policy>>

\* Fault: the wait has no deadline.
AwaitProxyForEver(s) ==
  /\ s \in marker /\ failing' = failing /\ Goes(s, "awaitProxy", "netsetup")
  /\ UNCHANGED <<plan, hurt, nets, proxyVars, agent, ollamaVars, policy>>

\* waitProxyReady looks for the marker in the container's log, which still
\* holds it when the proxy has exited since; it gives up after 15 seconds.
AwaitProxy(s) ==
  /\ \/ s \in marker /\ failing' = failing /\ Goes(s, "awaitProxy", "netsetup")
     \/ s \notin marker /\ Undoes(s, "awaitProxy")
  /\ UNCHANGED <<plan, hurt, nets, proxyVars, agent, ollamaVars, policy>>

\* Fault: a failed helper does not stop the session.
RunNetsetupLoosely(s) ==
  /\ Goes(s, "netsetup", AfterJail(s))
  /\ failing' = failing
  /\ \/ proxy[s] = "running" /\ rules' = rules \cup {s}
     \/ rules' = rules
  /\ UNCHANGED <<plan, hurt, nets, proxy, proxyNet, marker, agent, ollamaVars, policy>>

\* The helper joins the proxy's namespace, which needs the proxy running,
\* and loads the rules as one transaction.
RunNetsetup(s) ==
  /\ \/ /\ proxy[s] = "running"
        /\ rules' = rules \cup {s}
        /\ failing' = failing
        /\ Goes(s, "netsetup", AfterJail(s))
     \/ rules' = rules /\ Undoes(s, "netsetup")
  /\ UNCHANGED <<plan, hurt, nets, proxy, proxyNet, marker, agent, ollamaVars, policy>>
-----------------------------------------------------------------------------
(* prepareOllamaSidecar, for hermes-local only *)

\* Where a command that returns goes: its deferred cleanup, if it has a jail.
Returning(s) == IF Jailed(s) THEN "removeProxy" ELSE "done"

\* The sidecar is up or is started, and its model is present or pulled; any
\* of it may be declined, and the command returns, or fail, and it dies.
EnsureOllama(s) ==
  /\ \/ Goes(s, "sidecar", "attachOllama") /\ ollama' = TRUE
     \/ /\ Goes(s, "sidecar", Returning(s)) \/ Dies(s, "sidecar")
        /\ ollama' = ollama \/ ollama' = TRUE
  /\ UNCHANGED <<plan, failing, hurt, nets, proxyVars, agent, ollamaNets, policy>>

\* Fault: the early return for a session without a jail is gone.
AttachOllamaAnyway(s) ==
  /\ Goes(s, "attachOllama", "launch")
  /\ ollamaNets' = ollamaNets \cup (IF Jailed(s) THEN Named(s) ELSE {NoNet})
  /\ UNCHANGED <<plan, failing, hurt, nets, proxyVars, agent, ollama, policy>>

\* ConnectOllamaToNetwork by the network's name; a failure is a warning.
AttachOllama(s) ==
  /\ Goes(s, "attachOllama", "launch")
  /\ \/ Jailed(s) /\ ollamaNets' = ollamaNets \cup Named(s)
     \/ ollamaNets' = ollamaNets
  /\ UNCHANGED <<plan, failing, hurt, nets, proxyVars, agent, ollama, policy>>
-----------------------------------------------------------------------------
(* runAndSummarize *)

\* "docker run" of the agent, with CheckForUpdate before it for the run
\* command (it changes images only) and EnsureHomeVolume for all three.  A
\* jailed container joins the proxy's namespace.  Nothing is started when
\* the volume is declined or docker fails.
Launch(s) ==
  /\ Goes(s, "launch", "running")
  /\ \/ /\ ~NameTaken(s)
        /\ Jailed(s) => proxy[s] = "running"
        /\ agent' = [agent EXCEPT ![s] = "running"]
     \/ agent' = agent
  /\ UNCHANGED <<plan, failing, hurt, nets, proxyVars, ollamaVars, policy>>

\* Where MaybeStopOllama leaves the sidecar: after an approved plan it never
\* asks, and a jailed session always had a plan to approve.
MayStopOllama(s) == plan[s].local /\ ~Jailed(s) /\ plan[s].command # "setup"

\* Fault: a signal ends the wait for the container.
ReturnOnSignal(s) ==
  /\ Goes(s, "running", Returning(s))
  /\ ollama' = ollama
  /\ UNCHANGED <<plan, failing, hurt, nets, proxyVars, agent, ollamaNets, policy>>

\* The container is gone (--rm): docker run returns, whatever signals came
\* meanwhile, and the command with it.
Return(s) ==
  /\ agent[s] = "absent"
  /\ Goes(s, "running", Returning(s))
  /\ ollama' = ollama \/ (MayStopOllama(s) /\ ollama' = FALSE)
  /\ UNCHANGED <<plan, failing, hurt, nets, proxyVars, agent, ollamaNets, policy>>
-----------------------------------------------------------------------------
(* Cleanup, each error noted and passed over *)

\* Fault: the proxy is removed only if "docker run -d" returned its ID.
RemoveStartedProxy(s) ==
  /\ Goes(s, "removeProxy", "removePolicy")
  /\ \/ /\ proxy[s] # "created"
        /\ proxy' = [proxy EXCEPT ![s] = "absent"]
        /\ proxyNet' = [proxyNet EXCEPT ![s] = NoNet]
        /\ hurt' = hurt
     \/ proxy[s] = "created" /\ UNCHANGED <<proxy, proxyNet, hurt>>
  /\ UNCHANGED <<plan, failing, nets, marker, rules, agent, ollamaVars, policy>>

RemoveProxy(s) ==
  /\ Goes(s, "removeProxy", "removePolicy")
  /\ \/ /\ proxy' = [proxy EXCEPT ![s] = "absent"]
        /\ proxyNet' = [proxyNet EXCEPT ![s] = NoNet]
        /\ hurt' = hurt
     \/ /\ hurt' = hurt \cup {s}
        /\ UNCHANGED <<proxy, proxyNet>>
  /\ UNCHANGED <<plan, failing, nets, marker, rules, agent, ollamaVars, policy>>

RemovePolicy(s) ==
  /\ Goes(s, "removePolicy", "removeNetwork")
  /\ policy' = policy \ {s}
  /\ UNCHANGED <<plan, failing, hurt, nets, proxyVars, agent, ollamaVars>>

\* By ID, so only the network this session made; refused while it is busy.
RemoveNetwork(s) ==
  /\ Goes(s, "removeNetwork", IF s \in failing THEN "died" ELSE "done")
  /\ \/ /\ s \in nets /\ ~Busy(s)
        /\ nets' = nets \ {s}
        /\ hurt' = hurt
     \/ /\ s \notin nets \/ Busy(s)
        /\ UNCHANGED <<nets, hurt>>
     \/ /\ s \in nets
        /\ hurt' = hurt \cup {s}
        /\ nets' = nets
  /\ UNCHANGED <<plan, failing, proxyVars, agent, ollamaVars, policy>>

HostStep(s) ==
  \/ AttachShell(s) \/ ConfirmPlan(s) \/ PrepareImage(s) \/ PreflightJail(s)
  \/ ClearNetwork(s) \/ CreateNetwork(s) \/ WritePolicy(s) \/ OpenLog(s)
  \/ StartProxy(s) \/ AwaitProxy(s) \/ RunNetsetup(s)
  \/ EnsureOllama(s) \/ AttachOllama(s) \/ Launch(s) \/ Return(s)
  \/ RemoveProxy(s) \/ RemovePolicy(s) \/ RemoveNetwork(s)
-----------------------------------------------------------------------------
(* The rest of the world *)

\* The proxy binds its listeners and logs the marker.
ProxyReady(s) ==
  /\ proxy[s] = "running" /\ s \notin marker
  /\ marker' = marker \cup {s}
  /\ UNCHANGED <<hostVars, nets, proxy, proxyNet, rules, agent, ollamaVars, policy>>

\* log.Fatalf, at start or later: the container stays, its endpoint goes.
ProxyExits(s) ==
  /\ proxy[s] = "running"
  /\ proxy' = [proxy EXCEPT ![s] = "exited"]
  /\ UNCHANGED <<hostVars, nets, proxyNet, marker, rules, agent, ollamaVars, policy>>

AgentExits(s) ==
  /\ agent[s] = "running"
  /\ agent' = [agent EXCEPT ![s] = "absent"]
  /\ UNCHANGED <<hostVars, nets, proxyVars, ollamaVars, policy>>

Ended == {"done", "died", "killed"}

\* SIGKILL at any time, or a signal before runAndSummarize takes them.
Kill(s) ==
  /\ pc[s] \notin Ended \cup {"start"}
  /\ pc' = [pc EXCEPT ![s] = "killed"]
  /\ UNCHANGED <<plan, failing, hurt, nets, proxyVars, agent, ollamaVars, policy>>

\* "smith-jail ollama up" and "smith-jail ollama down".
OllamaUpDown ==
  /\ ollama' = ~ollama
  /\ UNCHANGED <<hostVars, nets, proxyVars, agent, ollamaNets, policy>>

Next ==
  \/ \E s \in Sessions :
       HostStep(s) \/ ProxyReady(s) \/ ProxyExits(s) \/ AgentExits(s) \/ Kill(s)
  \/ OllamaUpDown

Spec == Init /\ [][Next]_vars

\* A process that has a call to make makes it, and each call returns: the
\* wait for the proxy has its timeout, docker's calls are taken to answer,
\* and the user answers the prompts.  Nothing makes the agent exit.
Fairness == \A s \in Sessions : WF_vars(HostStep(s))

FairSpec == Spec /\ Fairness
-----------------------------------------------------------------------------
(* Properties *)

Steps == {"start", "image", "jail", "clearNetwork", "createNetwork", "writePolicy", "openLog",
          "startProxy", "awaitProxy", "netsetup", "sidecar", "attachOllama", "launch", "running",
          "removeProxy", "removePolicy", "removeNetwork"}

TypeOK ==
  /\ plan \in Requests
  /\ pc \in [Sessions -> Steps \cup Ended]
  /\ failing \subseteq Sessions /\ hurt \subseteq Sessions
  /\ nets \subseteq Sessions
  /\ proxy \in [Sessions -> {"absent", "created", "running", "exited"}]
  /\ proxyNet \in [Sessions -> Sessions \cup {NoNet}]
  /\ marker \subseteq Sessions /\ rules \subseteq Sessions
  /\ agent \in [Sessions -> {"absent", "running"}]
  /\ ollama \in BOOLEAN
  /\ ollamaNets \subseteq Sessions
  /\ policy \subseteq Sessions

\* No jailed agent ever runs in a namespace without the nft rules, whatever
\* failed, timed out or was killed on the way (NewNetworkJail's order, and
\* prepareContainer's die on its error).
\* The rules themselves never redirect to a port nobody has listened on: they
\* are installed only after the proxy said it is ready (waitProxyReady's comment).
JailHolds ==
  /\ \A s \in Sessions : Jailed(s) /\ agent[s] = "running" => s \in rules
  /\ rules \subseteq marker

\* A session takes its proxy and policy file away only once its agent is
\* gone: signals that reach it while the agent runs do not start Cleanup
\* (runAndSummarize).
JailOutlivesAgent ==
  \A s \in Sessions : Jailed(s) /\ agent[s] = "running" =>
    proxy[s] \in {"running", "exited"} /\ s \in policy

\* A session that came to its end through Cleanup: it returned, or undid a
\* failed set-up, and no docker call of Cleanup failed it.
CleanExit(s) == s \notin hurt /\ (pc[s] = "done" \/ (pc[s] = "died" /\ s \in failing))

\* No other jailed session is for the same project and agent.
Solo(s) ==
  \A t \in Sessions \ {s} :
    Jailed(t) => Project(t) # Project(s) \/ plan[t].local # plan[s].local

\* A clean exit leaves no proxy container and no policy file, at whichever
\* step the session turned back, a half-started container included; and no
\* network, when the session has its project to itself and no sidecar was
\* attached to the network.
CleanedUp ==
  \A s \in Sessions : CleanExit(s) =>
    /\ proxy[s] = "absent" /\ s \notin policy
    /\ Solo(s) /\ ~plan[s].local => s \notin nets

\* The steps between the creation of a session's network and its removal.
HasNetwork == {"writePolicy", "openLog", "startProxy", "awaitProxy", "netsetup", "sidecar",
               "attachOllama", "launch", "running", "removeProxy", "removePolicy", "removeNetwork"}

\* Sessions of different projects do not disturb each other's networks: a
\* session alone on its project keeps its network from its creation to its
\* Cleanup, and its proxy is on that network and no other.
ProjectsIsolated ==
  \A s \in Sessions : Jailed(s) /\ Solo(s) /\ pc[s] \in HasNetwork =>
    s \in nets /\ proxyNet[s] \in {NoNet, s}

\* An approved session ends up with its agent running or at its end, and
\* one whose agent has gone comes to its end: no wait is without a bound.
SessionsSettle ==
  \A s \in Sessions :
    /\ pc[s] = "image" ~> pc[s] \in {"running"} \cup Ended
    /\ (pc[s] = "running" /\ agent[s] = "absent") ~> pc[s] \in Ended

\* newSessionID's comment: names are unique "so concurrent sessions never
\* collide".  The network's name is the project's, so they do.
NeverCollide ==
  \A s \in Sessions : Jailed(s) /\ pc[s] \in HasNetwork => s \in nets /\ proxyNet[s] \in {NoNet, s}
=============================================================================
