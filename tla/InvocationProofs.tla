-------------------------- MODULE InvocationProofs --------------------------
(***************************************************************************)
(* Proofs about Invocation, for every set of terminals, agents, projects   *)
(* and models and every configuration.  A step of one command is looked at *)
(* twice: for what it does to the command itself, and for what it leaves   *)
(* the others of what they go by.                                          *)
(***************************************************************************)
EXTENDS Invocation, TLAPS

\* Steps of a command: those that make the sidecar's container run, those that only a
\* session with a sidecar takes, those after the sidecar is ready, and the last ones.
Starting    == {"start", "network", "status", "create", "startNew"}
AtSidecar   == {"sidecar", "ask_sidecar"} \cup Starting \cup {"model", "ask_model", "pulling", "seed"}
AfterSeed   == Found \ {"model", "ask_model", "pulling", "seed"}
AfterLaunch == {"agent", "stop", "ask_stop", "cleanup"}

\* Which command is at which step.
Placed(p) ==
  /\ pc[p] \in AtSidecar /\ inv[p].cmd \in Sessions => ChecksOllama(p)
  /\ pc[p] = "pull" => inv[p].cmd = "pull"
  /\ pc[p] \in {"ask_model", "pulling"} => inv[p].model # NoModel
  /\ p \in approved => pc[p] \notin {"ask_files", "gate", "ask_doctor", "find", "plan", "ask_plan"}
  /\ p \in cutOff => pc[p] \in Found \cup AfterLaunch

\* What buildRunPlan would list, had the models of a stopped sidecar been seen.
Asked(p) == p \in approved \/ pc[p] = "ask_plan"
Lacks(p) ==
  (IF inv[p].agent \notin images THEN {"image"} ELSE {})
  \cup (IF Project(p) \notin homes THEN {"home"} ELSE {})
  \cup (IF ChecksOllama(p) /\ sidecar # "running" THEN {"sidecar"} ELSE {})
  \cup (IF ChecksOllama(p) /\ ~HasModel(p) THEN {"model"} ELSE {})

\* What a session is about to make, and was allowed to.
Consent(p) ==
  /\ Asked(p) => ~inv[p].auto
  /\ Asked(p) /\ pc[p] \notin AfterLaunch => Lacks(p) \subseteq agreed[p]
  /\ inv[p].cmd \in Sessions /\ ~inv[p].auto =>
       /\ pc[p] = "build" => "image" \in agreed[p]
       /\ pc[p] = "makeHome" => "home" \in agreed[p]
       /\ pc[p] \in Starting => "sidecar" \in agreed[p]
       /\ pc[p] = "pulling" => "model" \in agreed[p]
       /\ pc[p] \in {"ask_plan", "image", "ask_image", "build", "jail"} /\ inv[p].jail => "jail" \in agreed[p]
       /\ pc[p] \in {"rebuild", "rebuilding"} => "update" \in agreed[p] \/ p \in approved

\* The sidecar a session has found or started goes on serving it.
Served(p) ==
  /\ pc[p] = "seed" => HasModel(p)
  /\ ChecksOllama(p) =>
       /\ pc[p] \in AfterSeed => HasModel(p)
       /\ pc[p] \in Found /\ p \notin cutOff => sidecar = "running"
       /\ pc[p] \in AfterSeed /\ p \notin cutOff => seeded # {} /\ NetworkOf(p) \in on

\* What the sidecar's container and volume keep.
Kept ==
  /\ seeded \ {NoModel} \subseteq pulled
  /\ sidecar # "absent" => OllamaNet \in on

InvocationInv ==
  /\ TypeOK /\ Kept
  /\ \A p \in Terms : inv[p] # NoInv => Placed(p) /\ Consent(p) /\ Served(p)
-----------------------------------------------------------------------------
(* What is typed *)

LEMMA LinesName ==
  ASSUME NEW c, NEW l \in LinesFor(c)
  PROVE  l.dir \in Dirs /\ l.yes \in BOOLEAN /\ l.flags \in SUBSET {"network-jail", "no-network-jail"}
<1>1. ASSUME NEW cmd, NEW u \in Usable(cmd)
      PROVE  u.dir \in Dirs /\ u.yes \in BOOLEAN /\ u.flags \in SUBSET {"network-jail", "no-network-jail"}
  <2> DEFINE Is(o, f) == o.set[f] # NoValue /\ o.set[f].val # "false"
             Parsed == {r \in {parseFlags(cmd, args) : args \in Lines} :
                          r.ok /\ IsPlain(r.dir) /\ r.dir.val \in Dirs}
  <2>1. PICK o \in Parsed :
          u = [dir |-> o.dir.val, yes |-> Is(o, "yes"),
               flags |-> {f \in {"network-jail", "no-network-jail"} : Is(o, f)}]
    BY Zenon DEF Usable
  <2>2. /\ o.dir.val \in Dirs /\ Is(o, "yes") \in BOOLEAN
        /\ {f \in {"network-jail", "no-network-jail"} : Is(o, f)} \in SUBSET {"network-jail", "no-network-jail"}
    OBVIOUS
  <2> HIDE DEF Is
  <2> QED  BY <2>1, <2>2
<1>2. ASSUME NEW u \in BareLine
      PROVE  u.dir \in Dirs /\ u.yes \in BOOLEAN /\ u.flags \in SUBSET {"network-jail", "no-network-jail"}
  <2>1. u.dir = Cwd /\ u.yes = FALSE /\ u.flags = {}
    BY DEF BareLine
  <2>2. Cwd \in Dirs
    BY InvocationAssumption DEF InvocationAssumption
  <2> QED  BY <2>1, <2>2
<1>3. LinesFor(c) = SetupLines \/ LinesFor(c) = RunLines \/ LinesFor(c) = BareLine
  BY DEF LinesFor
<1> QED  BY <1>1, <1>2, <1>3 DEF SetupLines, RunLines

\* A terminal's command, as typed and as resolved, is one of those there can be.
LEMMA Typed ==
  ASSUME NEW p \in Terms, Begin(p)
  PROVE  \E i \in Invocations :
           \/ Resolve(p, i)
           \/ /\ ~i.auto /\ i.cmd \notin {"clean", "cleanAll"}
              /\ Go(p, "ask_files") /\ inv' = [inv EXCEPT ![p] = i]
<1>1. PICK t \in Menu[p] : \E l \in LinesFor(t.cmd) : \E i :
        /\ i = [cmd |-> t.cmd, agent |-> t.agent, model |-> t.model, jail |-> t.jail,
                auto |-> t.auto, dir |-> l.dir, yes |-> l.yes, flags |-> l.flags]
        /\ \/ Resolve(p, i)
           \/ /\ ~i.auto /\ i.cmd \notin {"clean", "cleanAll"}
              /\ Go(p, "ask_files") /\ inv' = [inv EXCEPT ![p] = i]
  BY DEF Begin
<1>2. t \in Templates
  BY InvocationAssumption DEF InvocationAssumption
<1>3. ASSUME NEW l \in LinesFor(t.cmd)
      PROVE  [cmd |-> t.cmd, agent |-> t.agent, model |-> t.model, jail |-> t.jail,
              auto |-> t.auto, dir |-> l.dir, yes |-> l.yes, flags |-> l.flags] \in Invocations
  BY <1>2, LinesName DEF Templates, Invocations
<1> QED  BY <1>1, <1>3

LEMMA Commanded ==
  ASSUME NEW i \in Invocations
  PROVE  /\ i # NoInv /\ i.cmd \in Commands
         /\ Resolved(i) \in Invocations /\ Resolved(i) # NoInv
         /\ Resolved(i).cmd = i.cmd
         /\ AfterConfig(i.cmd) \in Steps \ {"none"}
<1>1. i # NoInv /\ i.cmd \in Commands
  BY DEF Invocations, NoInv, Commands, Sessions
<1>2. Resolved(i) \in Invocations /\ Resolved(i).cmd = i.cmd
  BY DEF Invocations, Resolved
<1>3. Resolved(i) # NoInv
  BY <1>2 DEF Invocations, NoInv, Commands, Sessions
<1>4. AfterConfig(i.cmd) \in Steps \ {"none"}
  BY <1>1 DEF AfterConfig, Steps, Commands, Sessions
<1> QED  BY <1>1, <1>2, <1>3, <1>4
-----------------------------------------------------------------------------

LEMMA GoneType ==
  ASSUME TypeOK, NEW thing \in Things, NEW C, Gone(thing, C)
  PROVE  agreed' \in [Terms -> SUBSET (Things \cup {"update"})]
BY DEF TypeOK, Gone

\* A network that is not in use has no proxy on it.
LEMMA Unused ==
  ASSUME TypeOK, NEW j, ~InUse(j)
  PROVE  gates \subseteq Without(j)
<1>1. ASSUME NEW g \in gates PROVE g \in jails /\ g[1] # j
  <2>1. g \in jails /\ g \in Projects \X Terms
    BY <1>1 DEF TypeOK
  <2>2. g = <<g[1], g[2]>> /\ g[2] \in Terms
    BY <2>1
  <2>3. <<j, g[2]>> \notin gates
    BY <2>2 DEF InUse
  <2> QED  BY <2>1, <2>2, <2>3
<1> QED  BY <1>1 DEF Without

LEMMA TypeStep ==
  ASSUME TypeOK, NEW p \in Terms, inv[p] # NoInv => Placed(p), Session(p) \/ Sidecar(p) \/ Clean(p)
  PROVE  TypeOK'
<1> USE DEF TypeOK, At, Go, Step, End, Over, private, daemon, stock, jail, ollama, Project, Steps,
   Things, Projects
<1>0. pc[p] # "none" => /\ inv[p] \in Invocations /\ inv[p] # NoInv
                       /\ inv[p].agent \in Agents /\ inv[p].dir \in Dirs /\ Project(p) \in Projects
  BY DEF Invocations
<1>1. CASE Begin(p)
  <2>1. PICK i \in Invocations :
          \/ Resolve(p, i)
          \/ Go(p, "ask_files") /\ inv' = [inv EXCEPT ![p] = i]
    BY <1>1, Typed
  <2>2. CASE Resolve(p, i)
    BY <1>1, <2>2, Commanded DEF Begin, Resolve
  <2>3. CASE Go(p, "ask_files") /\ inv' = [inv EXCEPT ![p] = i]
    BY <1>1, <2>3, Commanded DEF Begin
  <2> QED  BY <2>1, <2>2, <2>3
<1>2. CASE AnswerFiles(p)
  <2>1. inv[p] \in Invocations
    BY <1>2 DEF AnswerFiles
  <2>2. PICK i \in Invocations : Resolve(p, i)
    BY <1>2, <2>1 DEF AnswerFiles
  <2>3. UNCHANGED <<approved, found, daemon, seeded, agreed, cutOff>> /\ pc[p] = "ask_files"
    BY <1>2 DEF AnswerFiles
  <2>4. p \notin approved /\ p \notin cutOff
    BY <2>1, <2>3 DEF Placed, Found, AfterLaunch
  <2> QED  BY <2>2, <2>3, <2>4, Commanded DEF Resolve
<1>3. CASE DoctorGate(p)
  BY <1>3 DEF DoctorGate
<1>4. CASE ProceedAnyway(p)
  BY <1>4 DEF ProceedAnyway
<1>5. CASE FindContainer(p)
  BY <1>5 DEF FindContainer
<1>6. CASE ShowPlan(p)
  BY <1>6 DEF ShowPlan, Needs
<1>7. CASE ApprovePlan(p)
  BY <1>7 DEF ApprovePlan, ApproveRest
<1>8. CASE Answers(p)
  BY <1>8 DEF Answers, Ask
<1>9. CASE Decline(p)
  BY <1>9 DEF Decline, Return
<1>10. CASE EnsureImage(p)
  BY <1>10 DEF EnsureImage
<1>11. CASE Build(p)
  BY <1>0, <1>11 DEF Build
<1>12. CASE MakeJail(p)
  <2>1. CASE Go(p, AfterJail(p)) /\ UNCHANGED <<private, jails, gates>>
    BY <1>0, <1>12, <2>1 DEF MakeJail, AfterJail
  <2>2. CASE End(p) /\ jails' \in {jails, IF InUse(Project(p)) THEN jails ELSE Without(Project(p))} /\ UNCHANGED gates
    <3>1. jails' \subseteq Projects \X Terms /\ gates' \subseteq jails'
      BY <1>12, <2>2, Unused DEF MakeJail, Without
    <3> QED  BY <1>0, <1>12, <2>2, <3>1 DEF MakeJail
  <2>3. CASE /\ ~InUse(Project(p)) /\ Go(p, AfterJail(p)) /\ UNCHANGED private
             /\ jails' = Without(Project(p)) \cup {<<Project(p), p>>}
             /\ gates' = gates \cup {<<Project(p), p>>}
    <3>1. jails' \subseteq Projects \X Terms /\ gates' \subseteq jails'
      BY <1>0, <1>12, <2>3, Unused DEF MakeJail, Without
    <3> QED  BY <1>0, <1>12, <2>3, <3>1 DEF MakeJail, AfterJail
  <2> QED  BY <1>12, <2>1, <2>2, <2>3 DEF MakeJail
<1>13. CASE CheckForUpdate(p)
  BY <1>13 DEF CheckForUpdate
<1>14. CASE RemoveOldImage(p)
  BY <1>14 DEF RemoveOldImage, RemoveImages, Gone
<1>15. CASE Rebuild(p)
  BY <1>0, <1>15 DEF Rebuild
<1>16. CASE EnsureHomeVolume(p)
  BY <1>0, <1>16 DEF EnsureHomeVolume
<1>17. CASE Launch(p)
  BY <1>0, <1>17 DEF Launch
<1>18. CASE AgentEnds(p)
  BY <1>18 DEF AgentEnds, Forget
<1>19. CASE Detach(p)
  BY <1>19 DEF Detach
<1>20. CASE Cleanup(p)
  BY <1>20 DEF Cleanup, Attached
<1>21. CASE DockerFails(p)
  BY <1>21 DEF DockerFails, Fatal
<1>22. CASE EnsureOllamaRunning(p)
  BY <1>22 DEF EnsureOllamaRunning
<1>23. CASE EnsureOllamaNetwork(p)
  <2>1. CASE Step(p, "start", IF ollamaNet THEN "status" ELSE "network") /\ UNCHANGED <<private, ollamaNet>>
    BY <1>0, <1>23, <2>1 DEF EnsureOllamaNetwork
  <2>2. CASE At(p, "network") /\ ollamaNet /\ End(p) /\ UNCHANGED ollamaNet
    BY <1>0, <1>23, <2>2 DEF EnsureOllamaNetwork
  <2>3. CASE Step(p, "network", "status") /\ ~ollamaNet /\ ollamaNet' = TRUE /\ UNCHANGED private
    BY <1>0, <1>23, <2>3 DEF EnsureOllamaNetwork
  <2> QED  BY <1>23, <2>1, <2>2, <2>3 DEF EnsureOllamaNetwork
<1>24. CASE StartInPlace(p)
  BY <1>24 DEF StartInPlace, Started
<1>25. CASE CreateSidecar(p)
  BY <1>25 DEF CreateSidecar
<1>26. CASE StartNew(p)
  BY <1>26 DEF StartNew, Started
<1>27. CASE EnsureModel(p)
  BY <1>27 DEF EnsureModel, ModelReady
<1>28. CASE Pull(p)
  BY <1>28 DEF Pull, ModelReady, Placed, Invocations
<1>29. CASE SeedAndConnect(p)
  BY <1>29 DEF SeedAndConnect, AfterSidecar, Seeded, Connected, Placed, Invocations
<1>30. CASE MaybeStopOllama(p)
  BY <1>30 DEF MaybeStopOllama
<1>31. CASE StopSidecar(p)
  <2>1. agreed' \in [Terms -> SUBSET (Things \cup {"update"})]
    BY <1>31, GoneType DEF StopSidecar, Stopped
  <2>2. /\ Step(p, "ask_stop", "cleanup") /\ sidecar' \in {"absent", "stopped"}
        /\ cutOff' = cutOff \cup {q \in Terms : pc[q] \in Found /\ ChecksOllama(q)}
        /\ UNCHANGED <<inv, approved, found, stock, jail, boxes, ollamaNet, on, pulled, seeded>>
    BY <1>31 DEF StopSidecar, Stopped
  <2> QED  BY <2>1, <2>2 DEF Found
<1>32. CASE OllamaDown(p)
  <2>1. agreed' \in [Terms -> SUBSET (Things \cup {"update"})]
    BY <1>32, GoneType DEF OllamaDown, Stopped
  <2>2. /\ At(p, "down") /\ Over(p) /\ sidecar' \in {"absent", "stopped", "running"}
        /\ cutOff' \subseteq cutOff \cup {q \in Terms : pc[q] \in Found /\ ChecksOllama(q)}
        /\ UNCHANGED <<stock, jail, boxes, ollamaNet, on, pulled, seeded>>
    BY <1>32 DEF OllamaDown, Stopped
  <2>3. p \notin cutOff'
    BY <1>32, <2>2 DEF Found, Placed, AfterLaunch
  <2> QED  BY <2>1, <2>2, <2>3 DEF Found
<1>33. CASE OllamaPull(p)
  BY <1>33 DEF OllamaPull
<1>34. CASE ListResources(p)
  BY <1>34 DEF ListResources, Box, Gate, Home, Resources
<1>35. CASE AgreeToClean(p)
  BY <1>35 DEF AgreeToClean
<1>36. CASE RemoveOne(p)
  BY <1>36 DEF RemoveOne, RemoveContainer, RemoveVolume, Gone, Forget, Box, Gate, Home, Resources
<1>37. CASE FinishClean(p)
  <2>1. agreed' \in [Terms -> SUBSET (Things \cup {"update"})]
    BY <1>37, GoneType DEF FinishClean, RemoveImages
  <2>2. /\ At(p, "remove") /\ Over(p) /\ images' \subseteq images
        /\ UNCHANGED <<cutOff, homes, jail, boxes, ollama, seeded>>
    BY <1>37 DEF FinishClean, RemoveImages
  <2>3. p \notin cutOff
    BY <1>37, <2>2 DEF Found, Placed, AfterLaunch
  <2> QED  BY <2>1, <2>2, <2>3
<1> QED  BY <1>1, <1>2, <1>3, <1>4, <1>5, <1>6, <1>7, <1>8, <1>9, <1>10, <1>11, <1>12, <1>13,
            <1>14, <1>15, <1>16, <1>17, <1>18, <1>19, <1>20, <1>21, <1>22, <1>23, <1>24, <1>25,
            <1>26, <1>27, <1>28, <1>29, <1>30, <1>31, <1>32, <1>33, <1>34, <1>35, <1>36, <1>37
            DEF Session, Sidecar, Clean
-----------------------------------------------------------------------------
(* What a step of p leaves another command of what it goes by *)

LEMMA OthersPlaces ==
  ASSUME TypeOK, NEW p \in Terms, NEW q \in Terms \ {p}, Session(p) \/ Sidecar(p) \/ Clean(p)
  PROVE  /\ pc'[q] = pc[q] /\ inv'[q] = inv[q]
         /\ q \in approved' <=> q \in approved
<1>1. pc \in [Terms -> Steps] /\ inv \in [Terms -> {NoInv} \cup Invocations]
  BY DEF TypeOK
<1> USE DEF At, Go, Step, End, Over, private
<1>2. CASE Session(p)
  BY <1>1, <1>2 DEF Session, Begin, AnswerFiles, DoctorGate, ProceedAnyway, FindContainer,
     ShowPlan, ApprovePlan, Answers, Decline, EnsureImage, Build, MakeJail, CheckForUpdate,
     RemoveOldImage, Rebuild, EnsureHomeVolume, Launch, AgentEnds, Detach, Cleanup, DockerFails,
     Resolve, Ask, ApproveRest, Return
<1>3. CASE Sidecar(p)
  BY <1>1, <1>3 DEF Sidecar, EnsureOllamaRunning, EnsureOllamaNetwork, StartInPlace,
     CreateSidecar, StartNew, EnsureModel, Pull, SeedAndConnect, MaybeStopOllama, StopSidecar,
     OllamaDown, OllamaPull, Started, ModelReady
<1>4. CASE Clean(p)
  BY <1>1, <1>4 DEF Clean, ListResources, AgreeToClean, RemoveOne, FinishClean
<1> QED  BY <1>2, <1>3, <1>4

LEMMA OthersAgreement ==
  ASSUME TypeOK, NEW p \in Terms, NEW q \in Terms \ {p}, Session(p) \/ Sidecar(p) \/ Clean(p)
  PROVE  /\ agreed[q] \subseteq agreed'[q]
         /\ q \in cutOff => q \in cutOff'
         /\ q \in cutOff' => q \in cutOff \/ pc[q] \in Found
<1>1. agreed \in [Terms -> SUBSET (Things \cup {"update"})]
  BY DEF TypeOK
<1> USE DEF End, Over, private
<1>2. CASE Session(p)
  BY <1>1, <1>2 DEF Session, Begin, AnswerFiles, DoctorGate, ProceedAnyway, FindContainer,
     ShowPlan, ApprovePlan, Answers, Decline, EnsureImage, Build, MakeJail, CheckForUpdate,
     RemoveOldImage, Rebuild, EnsureHomeVolume, Launch, AgentEnds, Detach, Cleanup, DockerFails,
     Ask, RemoveImages, Gone
<1>3. CASE Sidecar(p)
  BY <1>1, <1>3 DEF Sidecar, EnsureOllamaRunning, EnsureOllamaNetwork, StartInPlace,
     CreateSidecar, StartNew, EnsureModel, Pull, SeedAndConnect, MaybeStopOllama, StopSidecar,
     OllamaDown, OllamaPull, Started, ModelReady, Stopped, Gone
<1>4. CASE ListResources(p) \/ AgreeToClean(p) \/ FinishClean(p)
  BY <1>1, <1>4 DEF ListResources, AgreeToClean, FinishClean, RemoveImages, Gone
<1>5. CASE RemoveOne(p)
  <2>1. UNCHANGED cutOff
    BY <1>5 DEF RemoveOne
  <2>2. UNCHANGED agreed \/ \E o \in found[p] : RemoveVolume(p, o)
    BY <1>5 DEF RemoveOne, RemoveContainer
  <2>3. \A o \in found[p] : RemoveVolume(p, o) => agreed[q] \subseteq agreed'[q]
    BY <1>1 DEF RemoveVolume, Gone
  <2> QED  BY <2>1, <2>2, <2>3
<1> QED  BY <1>2, <1>3, <1>4, <1>5 DEF Clean

LEMMA OthersStock ==
  ASSUME TypeOK, NEW p \in Terms, NEW q \in Terms, Session(p) \/ Sidecar(p) \/ Clean(p),
         inv[q] # NoInv, Asked(q)
  PROVE  /\ inv[q].agent \in images \ images' => "image" \in agreed'[q]
         /\ Project(q) \in homes \ homes' => "home" \in agreed'[q]
         /\ sidecar = "running" /\ sidecar' # "running" /\ IsLocal(q) => "sidecar" \in agreed'[q]
<1> USE DEF daemon, stock, ollama, Asked, At
<1>2. CASE Session(p)
  BY <1>2 DEF Session, Begin, AnswerFiles, DoctorGate, ProceedAnyway, FindContainer, ShowPlan,
     ApprovePlan, Answers, Decline, EnsureImage, Build, MakeJail, CheckForUpdate, RemoveOldImage,
     Rebuild, EnsureHomeVolume, Launch, AgentEnds, Detach, Cleanup, DockerFails, Ask,
     RemoveImages, Gone
<1>3. CASE Sidecar(p)
  BY <1>3 DEF Sidecar, EnsureOllamaRunning, EnsureOllamaNetwork, StartInPlace, CreateSidecar,
     StartNew, EnsureModel, Pull, SeedAndConnect, MaybeStopOllama, StopSidecar, OllamaDown,
     OllamaPull, Started, Stopped, Gone
<1>4. CASE Clean(p)
  BY <1>4 DEF Clean, ListResources, AgreeToClean, RemoveOne, FinishClean, RemoveContainer,
     RemoveVolume, RemoveImages, Gone
<1> QED  BY <1>2, <1>3, <1>4

LEMMA SidecarKeeps ==
  ASSUME TypeOK, Kept, NEW p \in Terms, inv[p] # NoInv => Placed(p) /\ Served(p),
         Session(p) \/ Sidecar(p) \/ Clean(p)
  PROVE  /\ Kept'
         /\ pulled \subseteq pulled'
         /\ seeded # {} => seeded' # {}
         /\ sidecar = "running" => on \subseteq on'
         /\ \A q \in Terms : sidecar = "running" /\ sidecar' # "running" /\ pc[q] \in Found /\ ChecksOllama(q)
                               => q \in cutOff' \/ inv'[q] = NoInv
<1> USE DEF daemon, stock, ollama, Kept
<1>2. CASE Session(p)
  BY <1>2 DEF Session, Begin, AnswerFiles, DoctorGate, ProceedAnyway, FindContainer, ShowPlan,
     ApprovePlan, Answers, Decline, EnsureImage, Build, MakeJail, CheckForUpdate, RemoveOldImage,
     Rebuild, EnsureHomeVolume, Launch, AgentEnds, Detach, Cleanup, DockerFails, Ask,
     RemoveImages, Gone
<1>3. CASE EnsureOllamaRunning(p) \/ EnsureOllamaNetwork(p) \/ EnsureModel(p) \/ MaybeStopOllama(p) \/ OllamaPull(p)
  BY <1>3 DEF EnsureOllamaRunning, EnsureOllamaNetwork, EnsureModel, MaybeStopOllama, OllamaPull
<1>5. CASE StartInPlace(p) \/ CreateSidecar(p) \/ StartNew(p)
  BY <1>5 DEF StartInPlace, CreateSidecar, StartNew, Started, CanStart
<1>6. CASE Pull(p)
  BY <1>6 DEF Pull
<1>7. CASE SeedAndConnect(p)
  <2>1. inv[p] # NoInv /\ HasModel(p)
    BY <1>7 DEF SeedAndConnect, Step, At, TypeOK, Served
  <2> QED  BY <1>7, <2>1 DEF SeedAndConnect, Seeded, Connected, HasModel
<1>8. CASE StopSidecar(p)
  BY <1>8 DEF StopSidecar, Stopped
<1>9. CASE OllamaDown(p)
  BY <1>9 DEF OllamaDown, Stopped
<1>4. CASE Clean(p)
  BY <1>4 DEF Clean, ListResources, AgreeToClean, RemoveOne, FinishClean, RemoveContainer,
     RemoveVolume, RemoveImages, Gone
<1> QED  BY <1>2, <1>3, <1>4, <1>5, <1>6, <1>7, <1>8, <1>9 DEF Sidecar
\* So every other command keeps its place, its approval and its sidecar.
LEMMA OthersKeep ==
  ASSUME TypeOK, Kept, NEW p \in Terms, inv[p] # NoInv => Placed(p) /\ Served(p),
         NEW q \in Terms \ {p}, inv[q] # NoInv, Placed(q), Consent(q), Served(q),
         Session(p) \/ Sidecar(p) \/ Clean(p)
  PROVE  Placed(q)' /\ Consent(q)' /\ Served(q)'
<1>1. /\ pc'[q] = pc[q] /\ inv'[q] = inv[q]
      /\ q \in approved' <=> q \in approved
  BY OthersPlaces
<1>2. /\ agreed[q] \subseteq agreed'[q]
      /\ q \in cutOff => q \in cutOff'
      /\ q \in cutOff' => q \in cutOff \/ pc[q] \in Found
  BY OthersAgreement
<1>3. /\ pulled \subseteq pulled'
      /\ seeded # {} => seeded' # {}
      /\ sidecar = "running" => on \subseteq on'
      /\ sidecar = "running" /\ sidecar' # "running" /\ pc[q] \in Found /\ ChecksOllama(q) => q \in cutOff'
  BY <1>1, SidecarKeeps
<1>4. Placed(q)'
  BY <1>1, <1>2 DEF Placed, ChecksOllama, IsLocal
<1>5. /\ ChecksOllama(q)' = ChecksOllama(q) /\ Asked(q)' = Asked(q)
      /\ Project(q)' = Project(q) /\ NetworkOf(q)' = NetworkOf(q)
  BY <1>1 DEF ChecksOllama, IsLocal, Asked, At, Project, NetworkOf
<1>6. HasModel(q) => HasModel(q)'
  BY <1>1, <1>3 DEF HasModel
<1>7. Consent(q)'
  <2>1. ASSUME Asked(q), pc[q] \notin AfterLaunch
        PROVE  Lacks(q)' \subseteq agreed'[q]
    <3>1. /\ inv[q].agent \in images \ images' => "image" \in agreed'[q]
          /\ Project(q) \in homes \ homes' => "home" \in agreed'[q]
          /\ sidecar = "running" /\ sidecar' # "running" /\ IsLocal(q) => "sidecar" \in agreed'[q]
      BY <2>1, OthersStock
    <3>2. Lacks(q) \subseteq agreed'[q]
      BY <1>2, <2>1 DEF Consent
    <3> QED  BY <1>1, <1>5, <1>6, <3>1, <3>2 DEF Lacks, ChecksOllama
  <2> QED  BY <1>1, <1>2, <1>5, <2>1 DEF Consent
<1>8. Served(q)'
  BY <1>1, <1>2, <1>3, <1>5, <1>6 DEF Served, AfterSeed
<1> QED  BY <1>4, <1>7, <1>8
-----------------------------------------------------------------------------
(* What a step of p does to p *)

LEMMA OwnPlace ==
  ASSUME TypeOK, Kept, NEW p \in Terms, inv[p] # NoInv => Placed(p) /\ Consent(p) /\ Served(p),
         Session(p) \/ Sidecar(p) \/ Clean(p), inv'[p] # NoInv
  PROVE  Placed(p)'
<1>0. /\ pc \in [Terms -> Steps] /\ inv \in [Terms -> {NoInv} \cup Invocations]
      /\ agreed \in [Terms -> SUBSET (Things \cup {"update"})]
      /\ (pc[p] = "none") = (inv[p] = NoInv) /\ cutOff \subseteq {q \in Terms : inv[q] # NoInv}
      /\ approved \subseteq {q \in Terms : inv[q] # NoInv}
  BY DEF TypeOK
<1> USE DEF At, Go, Step, End, Over, private, daemon, stock, ollama, ChecksOllama, IsLocal,
   Placed, AtSidecar, Starting, Found, AfterLaunch, Sessions
<1>1. CASE Begin(p)
  <2>1. PICK i \in Invocations :
          \/ Resolve(p, i)
          \/ i.cmd \notin {"clean", "cleanAll"} /\ Go(p, "ask_files") /\ inv' = [inv EXCEPT ![p] = i]
    BY <1>1, Typed
  <2>2. p \notin approved' /\ p \notin cutOff'
    BY <1>0, <1>1 DEF Begin
  <2> QED  BY <1>0, <1>1, <2>1, <2>2, Commanded DEF Begin, Resolve, AfterConfig, Commands
<1>2. CASE AnswerFiles(p)
  <2>1. p \notin approved' /\ p \notin cutOff' /\ pc[p] = "ask_files"
    BY <1>0, <1>2 DEF AnswerFiles
  <2>2. PICK i \in Invocations : Resolve(p, i)
    BY <1>0, <1>2 DEF AnswerFiles
  <2> QED  BY <1>0, <2>1, <2>2, Commanded DEF Resolve, AfterConfig, Commands
<1>3. CASE DoctorGate(p)
  BY <1>0, <1>3 DEF DoctorGate
<1>4. CASE ProceedAnyway(p)
  BY <1>0, <1>4 DEF ProceedAnyway
<1>5. CASE FindContainer(p)
  BY <1>0, <1>5 DEF FindContainer
<1>6. CASE ShowPlan(p)
  BY <1>0, <1>6 DEF ShowPlan, Needs
<1>7. CASE ApprovePlan(p)
  BY <1>0, <1>7 DEF ApprovePlan, ApproveRest
<1>8. CASE Answers(p)
  BY <1>0, <1>8 DEF Answers, Ask
<1>9. CASE Decline(p)
  BY <1>0, <1>9 DEF Decline, Return
<1>10. CASE EnsureImage(p)
  BY <1>0, <1>10 DEF EnsureImage
<1>11. CASE Build(p)
  BY <1>0, <1>11 DEF Build
<1>12. CASE MakeJail(p)
  BY <1>0, <1>12 DEF MakeJail, AfterJail
<1>13. CASE CheckForUpdate(p)
  BY <1>0, <1>13 DEF CheckForUpdate
<1>14. CASE RemoveOldImage(p)
  BY <1>0, <1>14 DEF RemoveOldImage, RemoveImages, Gone
<1>15. CASE Rebuild(p)
  BY <1>0, <1>15 DEF Rebuild
<1>16. CASE EnsureHomeVolume(p)
  BY <1>0, <1>16 DEF EnsureHomeVolume
<1>17. CASE Launch(p)
  BY <1>0, <1>17 DEF Launch
<1>18. CASE AgentEnds(p)
  BY <1>0, <1>18 DEF AgentEnds, Forget
<1>19. CASE Detach(p)
  BY <1>0, <1>19 DEF Detach
<1>20. CASE Cleanup(p)
  BY <1>0, <1>20 DEF Cleanup, Attached
<1>21. CASE DockerFails(p)
  BY <1>0, <1>21 DEF DockerFails, Fatal
<1>22. CASE EnsureOllamaRunning(p)
  BY <1>0, <1>22 DEF EnsureOllamaRunning
<1>23. CASE EnsureOllamaNetwork(p)
  BY <1>0, <1>23 DEF EnsureOllamaNetwork
<1>24. CASE StartInPlace(p)
  BY <1>0, <1>24 DEF StartInPlace, Started
<1>25. CASE CreateSidecar(p)
  BY <1>0, <1>25 DEF CreateSidecar
<1>26. CASE StartNew(p)
  BY <1>0, <1>26 DEF StartNew, Started
<1>27. CASE EnsureModel(p)
  BY <1>0, <1>27 DEF EnsureModel, ModelReady, HasModel
<1>28. CASE Pull(p)
  BY <1>0, <1>28 DEF Pull, ModelReady
<1>29. CASE SeedAndConnect(p)
  BY <1>0, <1>29 DEF SeedAndConnect, AfterSidecar, Seeded, Connected
<1>30. CASE MaybeStopOllama(p)
  BY <1>0, <1>30 DEF MaybeStopOllama
<1>31. CASE StopSidecar(p)
  BY <1>0, <1>31 DEF StopSidecar, Stopped, Gone
<1>32. CASE OllamaDown(p)
  BY <1>0, <1>32 DEF OllamaDown, Stopped, Gone
<1>33. CASE OllamaPull(p)
  BY <1>0, <1>33 DEF OllamaPull
<1>34. CASE ListResources(p)
  BY <1>0, <1>34 DEF ListResources
<1>35. CASE AgreeToClean(p)
  BY <1>0, <1>35 DEF AgreeToClean
<1>36. CASE RemoveOne(p)
  BY <1>0, <1>36 DEF RemoveOne, RemoveContainer, RemoveVolume, Gone, Forget, Box, Gate, Home, Resources
<1>37. CASE FinishClean(p)
  BY <1>0, <1>37 DEF FinishClean, RemoveImages, Gone
<1> QED  BY <1>1, <1>2, <1>3, <1>4, <1>5, <1>6, <1>7, <1>8, <1>9, <1>10, <1>11, <1>12, <1>13,
            <1>14, <1>15, <1>16, <1>17, <1>18, <1>19, <1>20, <1>21, <1>22, <1>23, <1>24, <1>25,
            <1>26, <1>27, <1>28, <1>29, <1>30, <1>31, <1>32, <1>33, <1>34, <1>35, <1>36, <1>37
            DEF Session, Sidecar, Clean

\* Where a command starts, as typed or after PromptCreateEnvFiles.
LEMMA FirstStep ==
  ASSUME TypeOK, NEW p \in Terms, inv[p] # NoInv => Placed(p), Begin(p) \/ AnswerFiles(p), inv'[p] # NoInv
  PROVE  /\ p \notin approved' /\ p \notin cutOff'
         /\ \/ pc'[p] \in {"ask_files", "gate", "find", "plan", "down", "pull", "list"}
            \/ pc'[p] = "start" /\ inv'[p].cmd = "up"
<1>1. PICK i \in Invocations : Resolve(p, i) \/ Go(p, "ask_files")
  BY Typed DEF AnswerFiles, At, TypeOK
<1>2. p \notin approved' /\ p \notin cutOff'
  BY DEF Begin, AnswerFiles, At, TypeOK, Placed, Found, AfterLaunch
<1>3. pc \in [Terms -> Steps] /\ inv \in [Terms -> {NoInv} \cup Invocations]
  BY DEF TypeOK
<1>4. CASE Go(p, "ask_files")
  BY <1>2, <1>3, <1>4 DEF Go
<1>5. CASE Resolve(p, i)
  <2>1. ~Conflicting(i)
    BY <1>3, <1>5 DEF Resolve
  <2>2. pc'[p] = AfterConfig(i.cmd) /\ inv'[p] = Resolved(i)
    BY <1>3, <1>5, <2>1 DEF Resolve, Go
  <2>3. i.cmd \in Commands /\ Resolved(i).cmd = i.cmd
    BY Commanded
  <2> QED  BY <1>2, <2>2, <2>3 DEF AfterConfig, Commands, Sessions
<1> QED  BY <1>1, <1>4, <1>5

\* A command that goes on is the same command, and what its user agreed to stands
\* until the container is launched.
LEMMA GoesOn ==
  ASSUME TypeOK, NEW p \in Terms, Session(p) \/ Sidecar(p) \/ Clean(p), inv'[p] # NoInv,
         ~Begin(p), ~AnswerFiles(p), inv[p] # NoInv => Placed(p)
  PROVE  /\ inv[p] # NoInv /\ inv'[p] = inv[p]
         /\ p \in approved' => Asked(p)
         /\ p \in approved => p \in approved'
         /\ pc'[p] = "ask_plan" => ShowPlan(p)
         /\ ShowPlan(p) => p \notin approved'
         /\ pc[p] \in AfterLaunch => pc'[p] \in AfterLaunch
         /\ pc'[p] \in AfterLaunch \/ ShowPlan(p) \/ agreed[p] \subseteq agreed'[p]
<1>1. pc \in [Terms -> Steps] /\ inv \in [Terms -> {NoInv} \cup Invocations]
  BY DEF TypeOK
<1>2. agreed \in [Terms -> SUBSET (Things \cup {"update"})] /\ (pc[p] = "none") = (inv[p] = NoInv)
  BY DEF TypeOK
<1>3. ShowPlan(p) => p \notin approved'
  BY <1>1, <1>2 DEF ShowPlan, At, Placed
<1> USE DEF At, Go, Step, End, Over, private, AfterLaunch, Asked
<1>4. CASE Session(p)
  BY <1>1, <1>2, <1>3, <1>4 DEF Session, DoctorGate, ProceedAnyway, FindContainer, ShowPlan,
     ApprovePlan, Answers, Decline, EnsureImage, Build, MakeJail, CheckForUpdate, RemoveOldImage,
     Rebuild, EnsureHomeVolume, Launch, AgentEnds, Detach, Cleanup, DockerFails, Ask, ApproveRest,
     Return, RemoveImages, Gone, AfterJail, Fatal
<1>5. CASE Sidecar(p)
  BY <1>1, <1>2, <1>3, <1>5 DEF Sidecar, EnsureOllamaRunning, EnsureOllamaNetwork, StartInPlace,
     CreateSidecar, StartNew, EnsureModel, Pull, SeedAndConnect, MaybeStopOllama, StopSidecar,
     OllamaDown, OllamaPull, Started, ModelReady, Stopped, Gone, AfterSidecar
<1>6. CASE ListResources(p) \/ AgreeToClean(p) \/ FinishClean(p)
  BY <1>1, <1>2, <1>3, <1>6 DEF ListResources, AgreeToClean, FinishClean
<1>7. CASE RemoveOne(p)
  <2>1. UNCHANGED <<pc, inv, approved>> /\ pc[p] = "remove"
    BY <1>7 DEF RemoveOne
  <2>2. UNCHANGED agreed \/ \E o \in found[p] : RemoveVolume(p, o)
    BY <1>7 DEF RemoveOne, RemoveContainer
  <2>3. \A o \in found[p] : RemoveVolume(p, o) => agreed[p] \subseteq agreed'[p]
    BY <1>2 DEF RemoveVolume, Gone
  <2> QED  BY <1>2, <1>3, <2>1, <2>2, <2>3 DEF ShowPlan
<1> QED  BY <1>4, <1>5, <1>6, <1>7 DEF Clean

\* The ways to where something is made.
LEMMA Arrivals ==
  ASSUME TypeOK, NEW p \in Terms, Session(p) \/ Sidecar(p) \/ Clean(p), inv'[p] # NoInv,
         ~Begin(p), ~AnswerFiles(p)
  PROVE  /\ pc'[p] = "build" => EnsureImage(p) \/ Answers(p)
         /\ pc'[p] = "makeHome" => EnsureHomeVolume(p) \/ Answers(p)
         /\ pc'[p] \in Starting => EnsureOllamaRunning(p) \/ Answers(p) \/ pc[p] \in Starting
         /\ pc'[p] = "pulling" => EnsureModel(p) \/ Answers(p)
         /\ pc'[p] = "rebuild" => CheckForUpdate(p) \/ Answers(p)
         /\ pc'[p] = "rebuilding" => pc[p] = "rebuild"
         /\ pc'[p] \in {"ask_plan", "image", "ask_image", "build", "jail"} =>
              ShowPlan(p) \/ pc[p] \in {"ask_plan", "image", "ask_image", "build"}
         /\ pc'[p] = "seed" => EnsureModel(p) \/ Pull(p)
<1>1. pc \in [Terms -> Steps] /\ inv \in [Terms -> {NoInv} \cup Invocations]
  BY DEF TypeOK
<1> USE DEF At, Go, Step, End, Over, private, Starting
<1>4. CASE Session(p)
  BY <1>1, <1>4 DEF Session, DoctorGate, ProceedAnyway, FindContainer, ShowPlan, ApprovePlan,
     Answers, Decline, EnsureImage, Build, MakeJail, CheckForUpdate, RemoveOldImage, Rebuild,
     EnsureHomeVolume, Launch, AgentEnds, Detach, Cleanup, DockerFails, Ask, Return, AfterJail
<1>5. CASE Sidecar(p)
  BY <1>1, <1>5 DEF Sidecar, EnsureOllamaRunning, EnsureOllamaNetwork, StartInPlace,
     CreateSidecar, StartNew, EnsureModel, Pull, SeedAndConnect, MaybeStopOllama, StopSidecar,
     OllamaDown, OllamaPull, Started, ModelReady, AfterSidecar
<1>6. CASE Clean(p)
  BY <1>1, <1>6 DEF Clean, ListResources, AgreeToClean, RemoveOne, FinishClean
<1> QED  BY <1>4, <1>5, <1>6

LEMMA OwnConsent ==
  ASSUME TypeOK, Kept, NEW p \in Terms, inv[p] # NoInv => Placed(p) /\ Consent(p) /\ Served(p),
         Session(p) \/ Sidecar(p) \/ Clean(p), inv'[p] # NoInv
  PROVE  Consent(p)'
<1>1. CASE Begin(p) \/ AnswerFiles(p)
  <2>1. ~Asked(p)'
    BY <1>1, FirstStep DEF Asked, At
  <2> QED  BY <1>1, <2>1, FirstStep DEF Consent, Starting, Sessions
<1>2. ASSUME ~Begin(p), ~AnswerFiles(p)
      PROVE  Consent(p)'
  <2>1. /\ inv[p] # NoInv /\ inv'[p] = inv[p] /\ Placed(p) /\ Consent(p)
        /\ p \in approved' => Asked(p)
        /\ p \in approved => p \in approved'
        /\ pc'[p] = "ask_plan" => ShowPlan(p)
        /\ ShowPlan(p) => p \notin approved'
        /\ pc[p] \in AfterLaunch => pc'[p] \in AfterLaunch
        /\ pc'[p] \in AfterLaunch \/ ShowPlan(p) \/ agreed[p] \subseteq agreed'[p]
    BY <1>2, GoesOn
  <2>2. /\ ChecksOllama(p)' = ChecksOllama(p) /\ Project(p)' = Project(p)
    BY <2>1 DEF ChecksOllama, IsLocal, Project
  <2>3. pc \in [Terms -> Steps] /\ agreed \in [Terms -> SUBSET (Things \cup {"update"})]
    BY DEF TypeOK
  <2>4. ShowPlan(p) /\ ~inv[p].auto => agreed'[p] = Needs(p) /\ UNCHANGED daemon
    BY <2>3 DEF ShowPlan
  <2>5. ShowPlan(p) /\ pc'[p] = "ask_plan" => ~inv[p].auto
    BY <2>3 DEF ShowPlan, Go, AutoApprove
  <2>6. Asked(p)' => ~inv'[p].auto
    BY <2>1, <2>5 DEF Asked, Consent
  <2>7. ASSUME Asked(p)', pc'[p] \notin AfterLaunch
        PROVE  Lacks(p)' \subseteq agreed'[p]
    <3>1. CASE ShowPlan(p)
      <4>1. pc'[p] = "ask_plan" /\ agreed'[p] = Needs(p) /\ UNCHANGED daemon
        BY <2>1, <2>4, <2>5, <2>7, <3>1 DEF Asked
      <4> QED  BY <2>1, <2>2, <4>1 DEF Lacks, Needs, HasModel, daemon, stock, ollama
    <3>2. CASE ~ShowPlan(p)
      <4>1. Asked(p) /\ pc[p] \notin AfterLaunch /\ agreed[p] \subseteq agreed'[p]
        BY <2>1, <2>7, <3>2 DEF Asked
      <4>2. Lacks(p) \subseteq agreed'[p]
        BY <2>1, <4>1 DEF Consent
      <4>3. /\ inv[p].agent \in images \ images' => "image" \in agreed'[p]
            /\ Project(p) \in homes \ homes' => "home" \in agreed'[p]
            /\ sidecar = "running" /\ sidecar' # "running" /\ IsLocal(p) => "sidecar" \in agreed'[p]
        BY <2>1, <4>1, OthersStock
      <4>4. HasModel(p) => HasModel(p)'
        BY <2>1, SidecarKeeps DEF HasModel
      <4> QED  BY <2>1, <2>2, <4>2, <4>3, <4>4 DEF Lacks, ChecksOllama
    <3> QED  BY <3>1, <3>2
  <2>8. ASSUME inv[p].cmd \in Sessions, ~inv[p].auto
        PROVE  /\ pc'[p] = "build" => "image" \in agreed'[p]
               /\ pc'[p] = "makeHome" => "home" \in agreed'[p]
               /\ pc'[p] \in Starting => "sidecar" \in agreed'[p]
               /\ pc'[p] = "pulling" => "model" \in agreed'[p]
               /\ pc'[p] \in {"ask_plan", "image", "ask_image", "build", "jail"} /\ inv[p].jail => "jail" \in agreed'[p]
               /\ pc'[p] \in {"rebuild", "rebuilding"} => "update" \in agreed'[p] \/ p \in approved'
    <3>1. /\ pc'[p] = "build" => EnsureImage(p) \/ Answers(p)
          /\ pc'[p] = "makeHome" => EnsureHomeVolume(p) \/ Answers(p)
          /\ pc'[p] \in Starting => EnsureOllamaRunning(p) \/ Answers(p) \/ pc[p] \in Starting
          /\ pc'[p] = "pulling" => EnsureModel(p) \/ Answers(p)
          /\ pc'[p] = "rebuild" => CheckForUpdate(p) \/ Answers(p)
          /\ pc'[p] = "rebuilding" => pc[p] = "rebuild"
          /\ pc'[p] \in {"ask_plan", "image", "ask_image", "build", "jail"} =>
               ShowPlan(p) \/ pc[p] \in {"ask_plan", "image", "ask_image", "build"}
      BY <1>2, Arrivals
    <3>2. pc'[p] \notin AfterLaunch /\ ~ShowPlan(p) => agreed[p] \subseteq agreed'[p]
      BY <2>1
    <3>3. Asked(p) /\ pc[p] \notin AfterLaunch => Lacks(p) \subseteq agreed[p]
      BY <2>1 DEF Consent
    <3>4. Answers(p) => \/ pc'[p] = "build" /\ "image" \in agreed'[p]
                        \/ pc'[p] = "start" /\ "sidecar" \in agreed'[p]
                        \/ pc'[p] = "pulling" /\ "model" \in agreed'[p]
                        \/ pc'[p] = "rebuild" /\ "update" \in agreed'[p]
                        \/ pc'[p] = "makeHome" /\ "home" \in agreed'[p]
      BY <2>3 DEF Answers, Ask, Step, Go
    <3>5. pc'[p] = "build" => "image" \in agreed'[p]
      <4>1. EnsureImage(p) /\ pc'[p] = "build" => "image" \in Lacks(p) /\ p \in approved /\ pc[p] \notin AfterLaunch
        BY <2>3, <2>8 DEF EnsureImage, At, Go, AutoApprove, Lacks, AfterLaunch
      <4>2. EnsureImage(p) => UNCHANGED agreed
        BY DEF EnsureImage, private
      <4> QED  BY <3>1, <3>3, <3>4, <4>1, <4>2 DEF Asked
    <3>6. pc'[p] = "makeHome" => "home" \in agreed'[p]
      <4>1. EnsureHomeVolume(p) /\ pc'[p] = "makeHome" =>
              "home" \in Lacks(p) /\ p \in approved /\ pc[p] \notin AfterLaunch
        BY <2>3, <2>8 DEF EnsureHomeVolume, At, Go, Step, AutoApprove, Lacks, AfterLaunch
      <4>2. EnsureHomeVolume(p) => UNCHANGED agreed
        BY DEF EnsureHomeVolume, private
      <4> QED  BY <3>1, <3>3, <3>4, <4>1, <4>2 DEF Asked
    <3>7. pc'[p] \in Starting => "sidecar" \in agreed'[p]
      <4>1. EnsureOllamaRunning(p) /\ pc'[p] \in Starting =>
              "sidecar" \in Lacks(p) /\ p \in approved /\ pc[p] \notin AfterLaunch
        BY <2>1, <2>3, <2>8 DEF EnsureOllamaRunning, At, Go, AutoApprove, Lacks, AfterLaunch,
           Starting, Placed, AtSidecar
      <4>2. EnsureOllamaRunning(p) => UNCHANGED agreed
        BY DEF EnsureOllamaRunning, private
      <4>3. pc[p] \in Starting => "sidecar" \in agreed[p] /\ ~ShowPlan(p)
        BY <2>1, <2>8 DEF Consent, Starting, ShowPlan, At
      <4>4. pc'[p] \in Starting => pc'[p] \notin AfterLaunch
        BY DEF Starting, AfterLaunch
      <4> QED  BY <3>1, <3>2, <3>3, <3>4, <4>1, <4>2, <4>3, <4>4 DEF Asked, Starting
    <3>8. pc'[p] = "pulling" => "model" \in agreed'[p]
      <4>1. EnsureModel(p) /\ pc'[p] = "pulling" =>
              "model" \in Lacks(p) /\ p \in approved /\ pc[p] \notin AfterLaunch /\ UNCHANGED agreed
        BY <1>2, <2>1, <2>3, <2>8 DEF EnsureModel, ModelReady, End, Over, private, At, Go,
           AutoApprove, Lacks, AfterLaunch, Placed, AtSidecar
      <4> QED  BY <3>1, <3>3, <3>4, <4>1 DEF Asked
    <3>9. pc'[p] \in {"ask_plan", "image", "ask_image", "build", "jail"} /\ inv[p].jail => "jail" \in agreed'[p]
      <4>1. ShowPlan(p) /\ inv[p].jail => "jail" \in agreed'[p]
        BY <2>4, <2>8 DEF Needs
      <4>2. pc[p] \in {"ask_plan", "image", "ask_image", "build"} /\ inv[p].jail => "jail" \in agreed[p]
        BY <2>1, <2>8 DEF Consent
      <4> QED  BY <3>1, <3>2, <4>1, <4>2 DEF AfterLaunch
    <3>a. pc'[p] \in {"rebuild", "rebuilding"} => "update" \in agreed'[p] \/ p \in approved'
      <4>1. CheckForUpdate(p) /\ pc'[p] = "rebuild" => p \in approved
        BY <2>3, <2>8 DEF CheckForUpdate, Go, AutoApprove
      <4>2. pc[p] = "rebuild" => ("update" \in agreed[p] \/ p \in approved) /\ ~ShowPlan(p)
        BY <2>1, <2>8 DEF Consent, ShowPlan, At
      <4> QED  BY <2>1, <3>1, <3>2, <3>4, <4>1, <4>2 DEF AfterLaunch
    <3> QED  BY <3>5, <3>6, <3>7, <3>8, <3>9, <3>a
  <2> QED  BY <2>1, <2>6, <2>7, <2>8 DEF Consent
<1> QED  BY <1>1, <1>2

\* The ways to where a session goes by the sidecar.
LEMMA ServedArrivals ==
  ASSUME TypeOK, NEW p \in Terms, Session(p) \/ Sidecar(p) \/ Clean(p), inv'[p] # NoInv,
         ~Begin(p), ~AnswerFiles(p)
  PROVE  /\ pc'[p] \in AfterSeed => pc[p] \in AfterSeed \/ SeedAndConnect(p) \/ ~ChecksOllama(p)
         /\ pc'[p] \in Found => pc[p] \in Found \/ sidecar' = "running" \/ ~ChecksOllama(p)
         /\ p \in cutOff => p \in cutOff'
<1>1. pc \in [Terms -> Steps] /\ inv \in [Terms -> {NoInv} \cup Invocations]
  BY DEF TypeOK
<1> USE DEF At, Go, Step, End, Over, private, daemon, ollama, AfterSeed, Found
<1>4. CASE Session(p)
  BY <1>1, <1>4 DEF Session, DoctorGate, ProceedAnyway, FindContainer, ShowPlan, ApprovePlan,
     Answers, Decline, EnsureImage, Build, MakeJail, CheckForUpdate, RemoveOldImage, Rebuild,
     EnsureHomeVolume, Launch, AgentEnds, Detach, Cleanup, DockerFails, Ask, Return, AfterJail
<1>5. CASE Sidecar(p)
  BY <1>1, <1>5 DEF Sidecar, EnsureOllamaRunning, EnsureOllamaNetwork, StartInPlace,
     CreateSidecar, StartNew, EnsureModel, Pull, SeedAndConnect, MaybeStopOllama, StopSidecar,
     OllamaDown, OllamaPull, Started, ModelReady, Stopped, AfterSidecar
<1>6. CASE Clean(p)
  BY <1>1, <1>6 DEF Clean, ListResources, AgreeToClean, RemoveOne, FinishClean
<1> QED  BY <1>4, <1>5, <1>6

LEMMA OwnService ==
  ASSUME TypeOK, Kept, NEW p \in Terms, inv[p] # NoInv => Placed(p) /\ Consent(p) /\ Served(p),
         Session(p) \/ Sidecar(p) \/ Clean(p), inv'[p] # NoInv
  PROVE  Served(p)'
<1>1. CASE Begin(p) \/ AnswerFiles(p)
  BY <1>1, FirstStep DEF Served, AfterSeed, Found
<1>2. ASSUME ~Begin(p), ~AnswerFiles(p)
      PROVE  Served(p)'
  <2>1. inv[p] # NoInv /\ inv'[p] = inv[p] /\ Placed(p) /\ Served(p)
    BY <1>2, GoesOn
  <2>2. /\ ChecksOllama(p)' = ChecksOllama(p) /\ Project(p)' = Project(p) /\ NetworkOf(p)' = NetworkOf(p)
    BY <2>1 DEF ChecksOllama, IsLocal, Project, NetworkOf
  <2>3. /\ pulled \subseteq pulled'
        /\ seeded # {} => seeded' # {}
        /\ sidecar = "running" => on \subseteq on'
        /\ sidecar = "running" /\ sidecar' # "running" /\ pc[p] \in Found /\ ChecksOllama(p) => p \in cutOff'
    BY SidecarKeeps
  <2>4. HasModel(p) => HasModel(p)'
    BY <2>1, <2>3 DEF HasModel
  <2>5. /\ pc'[p] \in AfterSeed => pc[p] \in AfterSeed \/ SeedAndConnect(p) \/ ~ChecksOllama(p)
        /\ pc'[p] \in Found => pc[p] \in Found \/ sidecar' = "running" \/ ~ChecksOllama(p)
        /\ p \in cutOff => p \in cutOff'
    BY <1>2, ServedArrivals
  <2>6. pc'[p] = "seed" => HasModel(p)'
    <3>1. pc'[p] = "seed" => EnsureModel(p) \/ Pull(p)
      BY <1>2, Arrivals
    <3>2. EnsureModel(p) /\ pc'[p] = "seed" => HasModel(p)
      BY <2>1 DEF EnsureModel, End, Over, Go, TypeOK
    <3>3. Pull(p) /\ pc'[p] = "seed" => HasModel(p)'
      BY <2>1 DEF Pull, End, Over, HasModel, TypeOK, NoInv
    <3> QED  BY <2>4, <3>1, <3>2, <3>3
  <2>7. ASSUME ChecksOllama(p), pc'[p] \in AfterSeed PROVE HasModel(p)'
    <3>1. SeedAndConnect(p) => HasModel(p)
      BY <2>1 DEF SeedAndConnect, Step, At, Served
    <3> QED  BY <2>1, <2>4, <2>5, <2>7, <3>1 DEF Served
  <2>8. ASSUME ChecksOllama(p), pc'[p] \in Found, p \notin cutOff' PROVE sidecar' = "running"
    BY <2>1, <2>3, <2>5, <2>8 DEF Served
  <2>9. ASSUME ChecksOllama(p), pc'[p] \in AfterSeed, p \notin cutOff'
        PROVE  seeded' # {} /\ NetworkOf(p) \in on'
    <3>1. p \notin cutOff
      BY <2>5, <2>9
    <3>2. CASE pc[p] \in AfterSeed
      <4>1. sidecar = "running" /\ seeded # {} /\ NetworkOf(p) \in on
        BY <2>1, <2>9, <3>1, <3>2 DEF Served, AfterSeed
      <4> QED  BY <2>3, <4>1
    <3>3. CASE SeedAndConnect(p)
      <4>1. sidecar = "running"
        BY <2>1, <2>9, <3>1, <3>3 DEF Served, SeedAndConnect, Step, At, Found
      <4>2. OllamaNet \in on
        BY <4>1 DEF Kept
      <4>3. seeded' = Seeded(p) /\ on' = Connected(p)
        BY <2>9, <3>1, <3>3 DEF SeedAndConnect
      <4> QED  BY <2>9, <4>2, <4>3 DEF Seeded, Connected, NetworkOf, ChecksOllama
    <3> QED  BY <2>5, <2>9, <3>2, <3>3
  <2> QED  BY <2>2, <2>6, <2>7, <2>8, <2>9 DEF Served
<1> QED  BY <1>1, <1>2
-----------------------------------------------------------------------------
(* The theorems *)

\* Where the jail, the sidecar and a model are made.
LEMMA Makers ==
  ASSUME NEW p \in Terms, Session(p) \/ Sidecar(p) \/ Clean(p)
  PROVE  /\ pc[p] = "jail" /\ gates' # gates => inv[p].jail
         /\ sidecar' = "running" /\ sidecar # "running" => pc[p] \in Starting
         /\ pulled' # pulled => pc[p] = "pulling"
<1> USE DEF At, Step, daemon, jail, ollama, Starting
<1>1. CASE Session(p)
  BY <1>1 DEF Session, Begin, AnswerFiles, DoctorGate, ProceedAnyway, FindContainer, ShowPlan,
     ApprovePlan, Answers, Decline, EnsureImage, Build, MakeJail, CheckForUpdate, RemoveOldImage,
     Rebuild, EnsureHomeVolume, Launch, AgentEnds, Detach, Cleanup, DockerFails, Ask
<1>2. CASE Sidecar(p)
  BY <1>2 DEF Sidecar, EnsureOllamaRunning, EnsureOllamaNetwork, StartInPlace, CreateSidecar,
     StartNew, EnsureModel, Pull, SeedAndConnect, MaybeStopOllama, StopSidecar, OllamaDown,
     OllamaPull, Stopped
<1>3. CASE Clean(p)
  BY <1>3 DEF Clean, ListResources, AgreeToClean, RemoveOne, FinishClean
<1> QED  BY <1>1, <1>2, <1>3

LEMMA InvocationStart == Init => InvocationInv
BY DEF Init, InvocationInv, TypeOK, Kept, Steps

LEMMA InvocationStep == InvocationInv /\ [Next]_vars => InvocationInv'
<1> SUFFICES ASSUME InvocationInv, [Next]_vars PROVE InvocationInv'
  OBVIOUS
<1>1. TypeOK /\ Kept /\ \A q \in Terms : inv[q] # NoInv => Placed(q) /\ Consent(q) /\ Served(q)
  BY DEF InvocationInv
<1>2. ASSUME NEW p \in Terms, Session(p) \/ Sidecar(p) \/ Clean(p)
      PROVE  InvocationInv'
  <2>1. inv[p] # NoInv => Placed(p) /\ Consent(p) /\ Served(p)
    BY <1>1
  <2>2. TypeOK' /\ Kept'
    BY <1>1, <1>2, <2>1, TypeStep, SidecarKeeps
  <2>3. ASSUME inv'[p] # NoInv PROVE Placed(p)' /\ Consent(p)' /\ Served(p)'
    BY <1>1, <1>2, <2>1, <2>3, OwnPlace, OwnConsent, OwnService
  <2>4. ASSUME NEW q \in Terms \ {p}, inv'[q] # NoInv PROVE Placed(q)' /\ Consent(q)' /\ Served(q)'
    <3>1. inv[q] # NoInv
      BY <1>1, <1>2, <2>4, OthersPlaces
    <3> QED  BY <1>1, <1>2, <2>1, <2>4, <3>1, OthersKeep
  <2> QED  BY <2>2, <2>3, <2>4 DEF InvocationInv
<1>3. CASE UNCHANGED vars
  BY <1>1, <1>3 DEF InvocationInv, TypeOK, Kept, Placed, Consent, Served, Asked, Lacks, HasModel,
     ChecksOllama,
                    IsLocal, Project, NetworkOf, At, vars, daemon, stock, jail, ollama
<1> QED  BY <1>2, <1>3 DEF Next

\* The inductive invariant: which command is where, what its user has allowed, and
\* what it goes by of the sidecar.
THEOREM InvocationInvariant == Spec => []InvocationInv
BY InvocationStart, InvocationStep, PTL DEF Spec

\* Every variable of the commands and of docker's state has its type.
THEOREM TypeCorrect == Spec => []TypeOK
<1>1. InvocationInv => TypeOK
  BY DEF InvocationInv
<1> QED  BY <1>1, InvocationInvariant, PTL

\* A session that was neither warned nor had its sidecar stopped finds the sidecar
\* on the agent's network, with the models it and config.yaml name.
THEOREM SidecarServesSessions == Spec => []SidecarServes
<1>1. InvocationInv => SidecarServes
  <2> SUFFICES ASSUME InvocationInv, NEW p \in boxes, ChecksOllama(p), p \notin cutOff
               PROVE  /\ sidecar = "running" /\ NetworkOf(p) \in on
                      /\ HasModel(p)
                      /\ seeded # {} /\ seeded \ {NoModel} \subseteq pulled
    BY DEF SidecarServes
  <2>1. p \in Terms /\ pc[p] = "agent" /\ inv[p] # NoInv /\ Kept
    BY DEF InvocationInv, TypeOK
  <2>2. Served(p)
    BY <2>1 DEF InvocationInv
  <2> QED  BY <2>1, <2>2 DEF Served, AfterSeed, Found, Kept
<1> QED  BY <1>1, InvocationInvariant, PTL

\* Nothing is made for a session that its user did not approve, in the plan or when
\* asked, whatever other commands take away in between.
THEOREM NothingUnlistedMade == Spec => NothingUnlisted
<1>1. InvocationInv /\ [Next]_vars =>
        [\A p \in Terms :
           pc[p] # pc'[p] /\ inv[p] # NoInv /\ inv[p].cmd \in Sessions /\ ~inv[p].auto =>
             Made(p) \subseteq agreed[p] \cup IF p \in approved THEN {"update"} ELSE {}]_vars
  <2> SUFFICES ASSUME InvocationInv, Next, NEW p \in Terms,
                      pc[p] # pc'[p], inv[p] # NoInv, inv[p].cmd \in Sessions, ~inv[p].auto
               PROVE  Made(p) \subseteq agreed[p] \cup IF p \in approved THEN {"update"} ELSE {}
    OBVIOUS
  <2>1. TypeOK /\ Placed(p) /\ Consent(p)
    BY DEF InvocationInv
  <2>2. Session(p) \/ Sidecar(p) \/ Clean(p)
    BY <2>1, OthersPlaces DEF Next
  <2>3. /\ pc[p] = "jail" /\ gates' # gates => inv[p].jail
        /\ sidecar' = "running" /\ sidecar # "running" => pc[p] \in Starting
        /\ pulled' # pulled => pc[p] = "pulling"
    BY <2>1, <2>2, Makers
  <2> QED  BY <2>1, <2>3 DEF Made, Consent
<1> QED  BY <1>1, InvocationInvariant, PTL DEF Spec, NothingUnlisted
=============================================================================
