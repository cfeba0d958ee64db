--------------------------- MODULE ArtifactsProofs ---------------------------
(***************************************************************************)
(* Proofs about Artifacts, for any number of sessions, of loads under way  *)
(* and of rows ticked, and however often the project's directory moves:    *)
(* the types, what a purge never takes, and that one pass over a selection *)
(* is enough.                                                              *)
(***************************************************************************)
EXTENDS Artifacts, TLAPS

\* Nothing is left over: of a load that is not under way, of one that has not
\* judged, and of a removal that is over.
Tidy ==
  /\ \A l \in Loads : load[l].pc = "idle" => load[l] = Idle
  /\ \A l \in Loads : load[l].pc # "posted" => load[l].orphans = {}
  /\ mode # "working" => removal = {}

\* What may be judged an orphan when the proxies of the sessions ss ran.
Spares(os, ss) ==
  /\ \A s \in ss : Proxy(s) \notin os
  /\ known /\ ss # {} => os \subseteq {Helper, Net}
  /\ known /\ moves = 0 => Home \notin os

\* That holds from the listing to the removal, for a load, the screen and a purge.
RunIn(l) == {s \in Sessions : Proxy(s) \in load[l].running}

Judged ==
  /\ moves = 0 => dir
  /\ \A l \in Loads : Spares(load[l].orphans, RunIn(l))
  /\ Spares(orphans, jailing)
  /\ purging => mode \in {"confirm", "working"} /\ Spares(selected, vouched)

\* The session of a container is past the step that makes it.
Made(o) ==
  \A s \in Sessions :
    /\ o = Proxy(s) => spc[s] \notin {"none", "proxy"}
    /\ o = Agent(s) => spc[s] \notin {"none", "proxy", "netsetup", "create"}

\* What was ever listed is never made again, so that what a removal has been
\* through is gone for good.
Once ==
  /\ \A c \in Containers : box[c] # "absent" => Made(c)
  /\ \A l \in Loads : \A c \in load[l].containers : Made(c)
  /\ \A o \in rows \cup selected : Made(o)
  /\ mode = "working" => \A c \in Containers : c \in selected \ removal => box[c] = "absent"

ArtifactsInv == TypeOK /\ Tidy /\ Judged /\ Once
-----------------------------------------------------------------------------
\* No object is another.
LEMMA Distinct ==
  /\ \A s, t \in Sessions : Proxy(s) = Proxy(t) \/ Agent(s) = Agent(t) => s = t
  /\ \A s, t \in Sessions : Proxy(s) # Agent(t)
  /\ \A c \in Containers : c \notin {Helper, Home, Net}
  /\ \A c \in Containers : \E s \in Sessions : c = Proxy(s) \/ c = Agent(s)
  /\ \A s \in Sessions : Proxy(s) \in Containers /\ Agent(s) \in Containers
  /\ \A s \in Sessions : Proxy(s).role = "proxy" /\ Agent(s).role = "agent"
  /\ Helper # Home /\ Helper # Net /\ Home # Net
  /\ Objects = Containers \cup {Helper, Home, Net}
<1>1. ASSUME NEW s \in Sessions, NEW t \in Sessions, Proxy(s) = Proxy(t) \/ Agent(s) = Agent(t)
      PROVE  s = t
  <2>1. Proxy(s).of = {s} /\ Proxy(t).of = {t} /\ Agent(s).of = {s} /\ Agent(t).of = {t}
    BY DEF Proxy, Agent
  <2>2. {s} = {t}
    BY <1>1, <2>1
  <2> QED  BY <2>2
<1>2. \A s \in Sessions : /\ Proxy(s).role = "proxy" /\ Agent(s).role = "agent"
                          /\ Proxy(s).tab = "containers" /\ Agent(s).tab = "containers"
  BY DEF Proxy, Agent
<1>3. Helper.tab = "images" /\ Home.tab = "volumes" /\ Net.tab = "networks"
  BY DEF Helper, Home, Net
<1>4. \A c \in Containers : \E s \in Sessions : c = Proxy(s) \/ c = Agent(s)
  BY DEF Containers
<1>5. \A s \in Sessions : Proxy(s) \in Containers /\ Agent(s) \in Containers
  BY DEF Containers
<1>6. \A s, t \in Sessions : Proxy(s) # Agent(t)
  BY <1>2
<1>7. \A c \in Containers : c.tab = "containers"
  BY <1>2, <1>4
<1>8. \A c \in Containers : c \notin {Helper, Home, Net}
  BY <1>3, <1>7
<1>9. Helper # Home /\ Helper # Net /\ Home # Net
  BY <1>3
<1> QED  BY <1>1, <1>2, <1>4, <1>5, <1>6, <1>8, <1>9 DEF Objects

Steps == {"none", "proxy", "netsetup", "create", "start", "run", "cleanup", "over"}

\* What a step of docker or of a session does to the containers.
LEMMA WorldStep ==
  ASSUME TypeOK, Once, World
  PROVE  /\ spc' \in [Sessions -> Steps] /\ box' \in [Containers -> {"absent", "created", "running", "exited"}]
         /\ things' \subseteq {Helper, Home, Net} /\ known' = known
         /\ \A o : Made(o) => Made(o)'
         /\ \A c \in Containers : box'[c] # "absent" => Made(c)' /\ (Made(c) => box[c] # "absent")
<1> USE Distinct DEF Goes, Steps
<1>0. /\ spc \in [Sessions -> Steps] /\ box \in [Containers -> {"absent", "created", "running", "exited"}]
      /\ things \subseteq {Helper, Home, Net}
      /\ \A c \in Containers : box[c] # "absent" => Made(c)
  BY DEF TypeOK, Once
<1>1. ASSUME NEW s \in Sessions, CreateNetwork(s) \/ RunNetsetup(s) \/ Cleanup(s) \/ Kill(s)
      PROVE  /\ spc' \in [Sessions -> Steps]
             /\ things' \subseteq {Helper, Home, Net} /\ known' = known
             /\ \A o : Made(o) => Made(o)'
             /\ box' \in [Containers -> {"absent", "created", "running", "exited"}]
             /\ \A c \in Containers : box'[c] \in {box[c], "absent"}
  BY <1>0, <1>1 DEF CreateNetwork, RunNetsetup, Cleanup, Kill, Helpers, Made
<1>2. ASSUME NEW s \in Sessions, StartProxy(s)
      PROVE  /\ spc' \in [Sessions -> Steps]
             /\ things' \subseteq {Helper, Home, Net} /\ known' = known
             /\ \A o : Made(o) => Made(o)'
             /\ box' \in [Containers -> {"absent", "created", "running", "exited"}]
             /\ Made(Proxy(s))' /\ ~Made(Proxy(s))
             /\ \A c \in Containers : c # Proxy(s) => box'[c] = box[c]
  BY <1>0, <1>2 DEF StartProxy, Made
<1>3. ASSUME NEW s \in Sessions, CreateAgent(s)
      PROVE  /\ spc' \in [Sessions -> Steps]
             /\ things' \subseteq {Helper, Home, Net} /\ known' = known
             /\ \A o : Made(o) => Made(o)'
             /\ box' \in [Containers -> {"absent", "created", "running", "exited"}]
             /\ Made(Agent(s))' /\ ~Made(Agent(s))
             /\ \A c \in Containers : c # Agent(s) => box'[c] = box[c]
  BY <1>0, <1>3 DEF CreateAgent, Made
<1>4. ASSUME NEW s \in Sessions, StartAgent(s) \/ EndAgent(s)
      PROVE  /\ spc' \in [Sessions -> Steps]
             /\ things' \subseteq {Helper, Home, Net} /\ known' = known
             /\ \A o : Made(o) => Made(o)'
             /\ box' \in [Containers -> {"absent", "created", "running", "exited"}]
             /\ \A c \in Containers : box'[c] # "absent" => box[c] # "absent"
  BY <1>0, <1>4 DEF StartAgent, EndAgent, Made
<1>5. CASE Restart \/ MoveDir
  <2>1. spc' \in [Sessions -> Steps] /\ \A s \in Sessions : spc'[s] \in {spc[s], "over"}
    BY <1>0, <1>5 DEF Restart, MoveDir
  <2>2. \A o : Made(o) => Made(o)'
    BY <2>1 DEF Made
  <2>3. /\ box' \in [Containers -> {"absent", "created", "running", "exited"}]
        /\ \A c \in Containers : box'[c] # "absent" => box[c] # "absent"
    BY <1>0, <1>5 DEF Restart, MoveDir, Running
  <2>4. UNCHANGED <<things, known>>
    BY <1>5 DEF Restart, MoveDir
  <2> QED  BY <1>0, <2>1, <2>2, <2>3, <2>4
<1> QED  BY <1>0, <1>1, <1>2, <1>3, <1>4, <1>5 DEF World

LEMMA WorldKeeps ==
  ASSUME ArtifactsInv, World
  PROVE  ArtifactsInv'
<1>1. TypeOK /\ Tidy /\ Judged /\ Once
  BY DEF ArtifactsInv
<1>2. UNCHANGED <<load, screenVars, ghostVars>>
  BY DEF World
<1>3. /\ spc' \in [Sessions -> Steps] /\ box' \in [Containers -> {"absent", "created", "running", "exited"}]
      /\ things' \subseteq {Helper, Home, Net} /\ known' = known
      /\ \A o : Made(o) => Made(o)'
      /\ \A c \in Containers : box'[c] # "absent" => Made(c)' /\ (Made(c) => box[c] # "absent")
  BY <1>1, WorldStep
<1>4. /\ dir' \in BOOLEAN /\ moves' \in 0..MaxMoves
      /\ moves' = 0 => moves = 0 /\ dir' = dir
  <2>1. moves \in 0..MaxMoves /\ dir \in BOOLEAN /\ MaxMoves \in Nat
    BY <1>1, ArtifactsAssumption DEF TypeOK, ArtifactsAssumption
  <2>2. UNCHANGED <<dir, moves>> \/ MoveDir
    BY DEF World, Restart, CreateNetwork, StartProxy, RunNetsetup, CreateAgent, StartAgent,
       EndAgent, Cleanup, Kill
  <2>3. MoveDir => dir' \in BOOLEAN /\ moves' \in 0..MaxMoves /\ moves' # 0
    BY <2>1 DEF MoveDir
  <2> QED  BY <2>1, <2>2, <2>3
<1>5. TypeOK'
  BY <1>1, <1>2, <1>3, <1>4 DEF TypeOK, Steps, screenVars, ghostVars
<1>6. Tidy'
  BY <1>1, <1>2 DEF Tidy, screenVars
<1>7. Judged'
  BY <1>1, <1>2, <1>3, <1>4 DEF Judged, Spares, RunIn, screenVars, ghostVars
<1>8. Once'
  <2>1. \A c \in Containers : box'[c] # "absent" => Made(c)'
    BY <1>3
  <2>2. /\ \A l \in Loads : \A c \in load'[l].containers : Made(c)'
        /\ \A o \in rows' \cup selected' : Made(o)'
    BY <1>1, <1>2, <1>3 DEF Once, screenVars
  <2>3. mode' = "working" => \A c \in Containers : c \in selected' \ removal' => box'[c] = "absent"
    BY <1>1, <1>2, <1>3 DEF Once, screenVars
  <2> QED  BY <2>1, <2>2, <2>3 DEF Once
<1> QED  BY <1>5, <1>6, <1>7, <1>8 DEF ArtifactsInv
-----------------------------------------------------------------------------
(* Listing *)

\* What the verdicts let through.
LEMMA OrphansSpared ==
  ASSUME TypeOK, Judged, NEW l \in Loads, load[l].orphans = {},
         NEW nets \in SUBSET {Net}, NEW idle \in SUBSET nets, NEW gone \in {FALSE, StatSaysGone}
  PROVE  /\ Orphans(load[l], nets, idle, gone) \subseteq
              load[l].images \cup load[l].containers \cup load[l].volumes \cup nets
         /\ load[l].running \cap Orphans(load[l], nets, idle, gone) = {}
         /\ Spares(Orphans(load[l], nets, idle, gone), RunIn(l))
<1>1. /\ load[l].images \subseteq {Helper} /\ load[l].containers \subseteq Containers
      /\ load[l].running \subseteq Containers /\ load[l].volumes \subseteq {Home}
  BY DEF TypeOK, Listings
<1>2. load[l].running \cap Orphans(load[l], nets, idle, gone) = {}
  BY <1>1, Distinct DEF Orphans
<1>3. \A s \in RunIn(l) : Proxy(s) \notin Orphans(load[l], nets, idle, gone)
  BY <1>2 DEF RunIn
<1>4. ASSUME known, RunIn(l) # {} PROVE Orphans(load[l], nets, idle, gone) \subseteq {Helper, Net}
  <2>1. ~ProjectGone(load[l], gone)
    BY <1>4 DEF RunIn, ProjectGone
  <2> QED  BY <1>1, <1>4, <2>1 DEF Orphans
<1>5. ASSUME known, moves = 0 PROVE Home \notin Orphans(load[l], nets, idle, gone)
  <2>1. ~ProjectGone(load[l], gone)
    BY <1>5 DEF Judged, ProjectGone, StatSaysGone
  <2> QED  BY <1>1, <1>5, <2>1, Distinct DEF Orphans
<1>6. Orphans(load[l], nets, idle, gone) \subseteq
        load[l].images \cup load[l].containers \cup load[l].volumes \cup nets
  BY DEF Orphans
<1> QED  BY <1>2, <1>3, <1>4, <1>5, <1>6 DEF Spares

LEMMA LoadingKeeps ==
  ASSUME ArtifactsInv, NEW l \in Loads, Loading(l)
  PROVE  ArtifactsInv'
<1>1. TypeOK /\ Tidy /\ Judged /\ Once
  BY DEF ArtifactsInv
<1>2. UNCHANGED worldVars /\ UNCHANGED <<selected, mode, removal, purging, vouched>>
  BY DEF Loading, ListResources, Judge, Arrive, Show, screenVars, ghostVars
<1>3. load \in [Loads -> Listings]
  BY <1>1 DEF TypeOK
<1>4. \A o : Made(o)' = Made(o)
  BY <1>2 DEF Made, worldVars
<1>5. \A os, ss : Spares(os, ss)' = Spares(os, ss)
  BY <1>2 DEF Spares, worldVars
<1>6. CASE ListResources(l)
  <2>1. PICK cs \in SUBSET Containers :
          /\ \A c \in cs : box[c] # "absent"
          /\ load' = [load EXCEPT ![l].pc = "networks", ![l].volumes = things \cap {Home},
                                  ![l].containers = cs, ![l].running = {c \in cs : Running(c)}]
    BY <1>6 DEF ListResources
  <2>2. load[l].pc = "resources" /\ load[l].orphans = {} /\ load[l] \in Listings
    BY <1>1, <1>3, <1>6 DEF ListResources, Tidy
  <2>3. /\ load'[l].pc = "networks" /\ load'[l].containers = cs /\ load'[l].orphans = {}
        /\ load'[l] \in Listings /\ load' \in [Loads -> Listings]
        /\ \A k \in Loads \ {l} : load'[k] = load[k]
    BY <1>3, <2>1, <2>2 DEF Listings
  <2>4. UNCHANGED <<rows, orphans, loaded, jailing>>
    BY <1>6 DEF ListResources, screenVars, ghostVars
  <2>5. TypeOK'
    BY <1>1, <1>2, <2>3, <2>4 DEF TypeOK, worldVars
  <2>6. Tidy'
    BY <1>1, <1>2, <2>3 DEF Tidy
  <2>7. Judged'
    <3>1. Spares({}, RunIn(l)')
      BY DEF Spares
    <3>2. \A k \in Loads : Spares(load'[k].orphans, RunIn(k)')
      BY <1>1, <2>3, <3>1 DEF Judged, RunIn
    <3> QED  BY <1>1, <1>2, <1>5, <2>4, <3>2 DEF Judged, worldVars
  <2>8. Once'
    <3>1. \A c \in cs : Made(c)
      BY <1>1, <2>1 DEF Once
    <3> QED  BY <1>1, <1>2, <1>4, <2>3, <2>4, <3>1 DEF Once, worldVars
  <2> QED  BY <2>5, <2>6, <2>7, <2>8 DEF ArtifactsInv
<1>7. CASE Judge(l)
  <2>1. PICK nets : nets = things \cap {Net}
    OBVIOUS
  <2>2. PICK idle \in SUBSET nets, gone \in {FALSE, StatSaysGone} :
          load' = [load EXCEPT ![l].pc = "posted", ![l].networks = nets,
                               ![l].orphans = Orphans(load[l], nets, idle, gone)]
    BY <1>7, <2>1 DEF Judge
  <2>3. PICK os : os = Orphans(load[l], nets, idle, gone)
    OBVIOUS
  <2>4. load[l].orphans = {} /\ load[l] \in Listings
    BY <1>1, <1>3, <1>7 DEF Judge, Tidy
  <2>5. /\ os \subseteq load[l].images \cup load[l].containers \cup load[l].volumes \cup nets
        /\ load[l].running \cap os = {} /\ Spares(os, RunIn(l))
    BY <1>1, <2>1, <2>3, <2>4, OrphansSpared
  <2>6. os \subseteq Objects
    BY <2>1, <2>4, <2>5, Distinct DEF Listings
  <2>7. /\ load'[l].pc = "posted" /\ load'[l].orphans = os /\ load'[l].networks = nets
        /\ load'[l].images = load[l].images /\ load'[l].containers = load[l].containers
        /\ load'[l].volumes = load[l].volumes /\ load'[l].running = load[l].running
        /\ load'[l] \in Listings /\ load' \in [Loads -> Listings]
        /\ \A k \in Loads \ {l} : load'[k] = load[k]
    BY <1>3, <2>1, <2>2, <2>3, <2>4, <2>6 DEF Listings
  <2>8. UNCHANGED <<rows, orphans, loaded, jailing>>
    BY <1>7 DEF Judge, screenVars, ghostVars
  <2>9. TypeOK'
    BY <1>1, <1>2, <2>5, <2>7, <2>8 DEF TypeOK, worldVars
  <2>a. Tidy'
    BY <1>1, <1>2, <2>7 DEF Tidy
  <2>b. Judged'
    <3>1. \A k \in Loads : Spares(load'[k].orphans, RunIn(k)')
      BY <1>1, <2>5, <2>7 DEF Judged, RunIn
    <3> QED  BY <1>1, <1>2, <1>5, <2>8, <3>1 DEF Judged, worldVars
  <2>c. Once'
    BY <1>1, <1>2, <1>4, <2>7, <2>8 DEF Once, worldVars
  <2> QED  BY <2>9, <2>a, <2>b, <2>c DEF ArtifactsInv
<1>8. CASE Arrive(l)
  <2>1. PICK listed : listed = load[l].images \cup load[l].containers \cup load[l].volumes \cup load[l].networks
    OBVIOUS
  <2>2. load' = [load EXCEPT ![l] = Idle]
    BY <1>8 DEF Arrive, Show
  <2>3. \/ UNCHANGED <<rows, orphans, loaded, jailing>>
        \/ rows' = listed /\ orphans' = load[l].orphans /\ loaded' = TRUE /\ jailing' = RunIn(l)
    BY <1>8, <2>1 DEF Arrive, Show, RunIn
  <2>4. Idle \in Listings /\ Idle.pc = "idle" /\ Idle.orphans = {} /\ Idle.containers = {} /\ Idle.running = {}
    BY DEF Idle, Listings
  <2>5. load' \in [Loads -> Listings] /\ load'[l] = Idle /\ \A k \in Loads \ {l} : load'[k] = load[k]
    BY <1>3, <2>2, <2>4
  <2>6. load[l] \in Listings /\ load[l].orphans \subseteq listed
    BY <1>1, <1>3, <2>1 DEF TypeOK
  <2>7. listed \subseteq Objects
    BY <2>1, <2>6, Distinct DEF Listings
  <2>8. TypeOK'
    <3>1. orphans' \subseteq rows' /\ rows' \subseteq Objects /\ loaded' \in BOOLEAN /\ jailing' \subseteq Sessions
      BY <1>1, <2>3, <2>6, <2>7 DEF TypeOK, RunIn
    <3> QED  BY <1>1, <1>2, <2>4, <2>5, <3>1 DEF TypeOK, worldVars
  <2>9. Tidy'
    BY <1>1, <1>2, <2>4, <2>5 DEF Tidy
  <2>a. Judged'
    <3>1. \A k \in Loads : Spares(load'[k].orphans, RunIn(k)')
      BY <1>1, <2>4, <2>5 DEF Judged, RunIn, Spares
    <3>2. Spares(orphans', jailing')
      BY <1>1, <2>3 DEF Judged
    <3> QED  BY <1>1, <1>2, <1>5, <3>1, <3>2 DEF Judged, worldVars
  <2>b. Once'
    <3>1. \A o \in listed : Made(o)
      <4>1. \A o \in {Helper, Home, Net} : Made(o)
        BY Distinct DEF Made
      <4> QED  BY <1>1, <2>1, <2>6, <4>1 DEF Once, Listings
    <3> QED  BY <1>1, <1>2, <1>4, <2>3, <2>4, <2>5, <3>1 DEF Once, worldVars
  <2> QED  BY <2>8, <2>9, <2>a, <2>b DEF ArtifactsInv
<1> QED  BY <1>6, <1>7, <1>8 DEF Loading
-----------------------------------------------------------------------------
(* Keys, and a removal *)

\* A load that starts has found nothing yet.
LEMMA Starting ==
  ASSUME TypeOK, Tidy, StartLoad
  PROVE  /\ load' \in [Loads -> Listings]
         /\ \A l \in Loads : \/ load'[l] = load[l]
                             \/ /\ load'[l].pc = "resources" /\ load'[l].orphans = {}
                                /\ load'[l].containers = {} /\ load'[l].running = {}
<1>1. PICK l \in Loads, is \in {{}, things \cap {Helper}} :
        load[l].pc = "idle" /\ load' = [load EXCEPT ![l].pc = "resources", ![l].images = is]
  BY DEF StartLoad
<1>2. load \in [Loads -> Listings] /\ load[l] = Idle
  BY <1>1 DEF TypeOK, Tidy
<1>3. is \subseteq {Helper}
  OBVIOUS
<1>4. load[l] \in Listings
  BY <1>2
<1>5. /\ load'[l] = [load[l] EXCEPT !.pc = "resources", !.images = is]
      /\ \A k \in Loads \ {l} : load'[k] = load[k]
  BY <1>1, <1>2
<1>6. /\ load'[l].pc = "resources" /\ load'[l].orphans = load[l].orphans
      /\ load'[l].containers = load[l].containers /\ load'[l].running = load[l].running
      /\ load'[l] \in Listings
  BY <1>3, <1>4, <1>5 DEF Listings
<1>7. load' \in [Loads -> Listings]
  BY <1>1, <1>2, <1>5, <1>6
<1>8. load[l].orphans = {} /\ load[l].containers = {} /\ load[l].running = {}
  BY <1>2 DEF Idle
<1> QED  BY <1>5, <1>6, <1>7, <1>8

LEMMA KeysKeep ==
  ASSUME ArtifactsInv, Key \/ Removed
  PROVE  ArtifactsInv'
<1>1. TypeOK /\ Tidy /\ Judged /\ Once
  BY DEF ArtifactsInv
<1>2. UNCHANGED worldVars
  BY DEF Key, Quit, Open, Leave, Refresh, Toggle, SelectAllOnTab, SelectNone, Purge, Delete, Cancel,
         Accept, Removed
<1>3. \A o : Made(o)' = Made(o)
  BY <1>2 DEF Made, worldVars
<1>4. \A os, ss : Spares(os, ss)' = Spares(os, ss)
  BY <1>2 DEF Spares, worldVars
<1>5. /\ load' \in [Loads -> Listings]
      /\ \A l \in Loads : \/ load'[l] = load[l]
                          \/ load'[l] = Idle
                          \/ /\ load'[l].pc = "resources" /\ load'[l].orphans = {}
                             /\ load'[l].containers = {} /\ load'[l].running = {}
  <2>1. CASE UNCHANGED load
    BY <1>1, <2>1 DEF TypeOK
  <2>2. CASE StartLoad
    BY <1>1, <2>2, Starting
  <2>3. CASE load' = [l \in Loads |-> Idle]
    <3>1. Idle \in Listings
      BY DEF Idle, Listings
    <3> QED  BY <2>3, <3>1
  <2> QED  BY <2>1, <2>2, <2>3 DEF Key, Quit, Open, Leave, Refresh, Toggle, SelectAllOnTab, SelectNone,
                                   Purge, Delete, Cancel, Accept, Removed
<1>6. Idle.pc = "idle" /\ Idle.orphans = {} /\ Idle.containers = {} /\ Idle.running = {}
  BY DEF Idle
<1>7. \A l \in Loads :
        /\ load'[l].orphans \subseteq
             load'[l].images \cup load'[l].containers \cup load'[l].volumes \cup load'[l].networks
        /\ load'[l].running \cap load'[l].orphans = {}
        /\ load'[l].pc = "idle" => load'[l] = Idle
        /\ load'[l].pc # "posted" => load'[l].orphans = {}
        /\ Spares(load'[l].orphans, {s \in Sessions : Proxy(s) \in load'[l].running})
        /\ \A c \in load'[l].containers : Made(c)
  BY <1>1, <1>5, <1>6 DEF TypeOK, Tidy, Judged, RunIn, Once, Spares
\* The screen, by what it was.
<1>8. /\ orphans' \subseteq rows' /\ rows' \subseteq Objects
      /\ loaded' \in BOOLEAN /\ selected' \subseteq Objects
      /\ mode' \in {"away", "browse", "confirm", "working", "quit"}
      /\ removal' \subseteq selected' /\ purging' \in BOOLEAN
      /\ jailing' \subseteq Sessions /\ vouched' \subseteq Sessions
      /\ mode' # "working" => removal' = {}
      /\ Spares(orphans', jailing')
      /\ purging' => mode' \in {"confirm", "working"} /\ Spares(selected', vouched')
      /\ rows' \subseteq rows /\ selected' \subseteq selected \cup rows
      /\ mode' = "working" => removal' = selected'
  <2>0. Spares({}, {})
    BY DEF Spares
  <2>1. CASE Quit
    BY <1>1, <2>0, <2>1 DEF TypeOK, Tidy, Judged, Quit
  <2>2. CASE Open
    BY <1>1, <2>0, <2>2 DEF TypeOK, Tidy, Judged, Open
  <2>3. CASE Leave
    BY <1>1, <2>0, <2>3 DEF TypeOK, Tidy, Judged, Leave
  <2>4. CASE Refresh
    BY <1>1, <2>4 DEF TypeOK, Tidy, Judged, Refresh, ghostVars
  <2>5. CASE Toggle \/ SelectAllOnTab \/ SelectNone
    BY <1>1, <2>5 DEF TypeOK, Tidy, Judged, Toggle, SelectAllOnTab, SelectNone, ghostVars
  <2>6. CASE Purge \/ Delete
    BY <1>1, <2>6 DEF TypeOK, Tidy, Judged, Purge, Delete
  <2>7. CASE Cancel
    BY <1>1, <2>7 DEF TypeOK, Tidy, Judged, Cancel
  <2>8. CASE Accept
    BY <1>1, <2>8 DEF TypeOK, Tidy, Judged, Accept, ghostVars
  <2>9. CASE Removed
    BY <1>1, <2>9 DEF TypeOK, Tidy, Judged, Removed
  <2> QED  BY <2>1, <2>2, <2>3, <2>4, <2>5, <2>6, <2>7, <2>8, <2>9 DEF Key
<1>9. TypeOK'
  BY <1>1, <1>2, <1>5, <1>7, <1>8 DEF TypeOK, worldVars
<1>a. Tidy'
  BY <1>7, <1>8 DEF Tidy
<1>b. Judged'
  <2>1. \A l \in Loads : Spares(load'[l].orphans, RunIn(l)')
    BY <1>7 DEF RunIn
  <2> QED  BY <1>1, <1>2, <1>4, <1>8, <2>1 DEF Judged, worldVars
<1>c. Once'
  BY <1>1, <1>2, <1>3, <1>7, <1>8 DEF Once, worldVars
<1> QED  BY <1>9, <1>a, <1>b, <1>c DEF ArtifactsInv

\* What a call that removes one object leaves as it was.
LEMMA RemoveOneKeeps ==
  ASSUME ArtifactsInv, NEW o \in Objects, RemoveOne(o)
  PROVE  ArtifactsInv'
<1>1. TypeOK /\ Tidy /\ Judged /\ Once
  BY DEF ArtifactsInv
<1>2. /\ UNCHANGED <<known, spc, dir, moves, load, rows, orphans, loaded, selected, mode, ghostVars>>
      /\ mode = "working" /\ o \in removal /\ removal' = removal \ {o}
  BY DEF RemoveOne
<1>3. /\ box' \in [Containers -> {"absent", "created", "running", "exited"}]
      /\ \A c \in Containers : box'[c] \in {box[c], "absent"} /\ (c = o => box'[c] = "absent")
      /\ things' \subseteq {Helper, Home, Net}
  <2>1. /\ box \in [Containers -> {"absent", "created", "running", "exited"}]
        /\ things \subseteq {Helper, Home, Net}
    BY <1>1 DEF TypeOK
  <2>2. CASE o \in Containers
    BY <2>1, <2>2 DEF RemoveOne
  <2>3. CASE o \notin Containers
    BY <2>1, <2>3 DEF RemoveOne
  <2> QED  BY <2>2, <2>3
<1>4. TypeOK'
  BY <1>1, <1>2, <1>3 DEF TypeOK, ghostVars
<1>5. Tidy'
  BY <1>1, <1>2 DEF Tidy
<1>6. Judged'
  BY <1>1, <1>2 DEF Judged, Spares, RunIn, ghostVars
<1>7. Once'
  <2>1. \A p : Made(p)' = Made(p)
    BY <1>2 DEF Made
  <2> QED  BY <1>1, <1>2, <1>3, <2>1 DEF Once
<1> QED  BY <1>4, <1>5, <1>6, <1>7 DEF ArtifactsInv
-----------------------------------------------------------------------------
LEMMA ArtifactsStart == Init => ArtifactsInv
<1> SUFFICES ASSUME Init PROVE ArtifactsInv
  OBVIOUS
<1>1. Idle \in Listings /\ Idle.pc = "idle" /\ Idle.orphans = {} /\ Idle.containers = {} /\ Idle.running = {}
  BY DEF Idle, Listings
<1>2. TypeOK
  <2>1. 0 \in 0..MaxMoves
    BY ArtifactsAssumption DEF ArtifactsAssumption
  <2>2. /\ spc \in [Sessions -> Steps] /\ box \in [Containers -> {"absent", "created", "running", "exited"}]
        /\ things \subseteq {Helper, Home, Net} /\ load \in [Loads -> Listings]
    BY <1>1 DEF Init, Helpers, Steps
  <2> QED  BY <1>1, <2>1, <2>2 DEF Init, TypeOK, Steps
<1>3. Tidy
  BY <1>1 DEF Init, Tidy
<1>4. Judged
  BY <1>1 DEF Init, Judged, Spares, RunIn
<1>5. Once
  BY <1>1 DEF Init, Once
<1> QED  BY <1>2, <1>3, <1>4, <1>5 DEF ArtifactsInv

LEMMA ArtifactsStep == ArtifactsInv /\ [Next]_vars => ArtifactsInv'
<1> SUFFICES ASSUME ArtifactsInv, [Next]_vars PROVE ArtifactsInv'
  OBVIOUS
<1>1. CASE World
  BY <1>1, WorldKeeps
<1>2. ASSUME NEW l \in Loads, Loading(l) PROVE ArtifactsInv'
  BY <1>2, LoadingKeeps
<1>3. CASE Key \/ Removed
  BY <1>3, KeysKeep
<1>4. ASSUME NEW o \in Objects, RemoveOne(o) PROVE ArtifactsInv'
  BY <1>4, RemoveOneKeeps
<1>5. CASE UNCHANGED vars
  BY <1>5 DEF ArtifactsInv, TypeOK, Tidy, Judged, Spares, RunIn, Once, Made, vars, worldVars,
     screenVars, ghostVars
<1> QED  BY <1>1, <1>2, <1>3, <1>4, <1>5 DEF Next, Screen

\* The invariant the rest follows from: a judgement spares what it spared when
\* it was made, and what a removal has been through is not made again.
THEOREM ArtifactsInvariant == Spec => []ArtifactsInv
<1> QED  BY ArtifactsStart, ArtifactsStep, PTL DEF Spec

\* Every variable keeps its type: what is judged an orphan was listed, and never
\* ran; what is to be removed was selected.
THEOREM TypeCorrect == Spec => []TypeOK
<1>1. ArtifactsInv => TypeOK
  BY DEF ArtifactsInv
<1> QED  BY <1>1, ArtifactsInvariant, PTL

\* Only the removal takes an object from what is to be removed; a quit drops it.
LEMMA OnlyRemoveOneRemoves ==
  ASSUME ArtifactsInv, [Next]_vars, NEW o \in removal \ removal'
  PROVE  mode' = "quit" \/ (o \in Objects /\ RemoveOne(o))
<1>1. CASE World
  BY <1>1 DEF World, screenVars
<1>2. ASSUME NEW l \in Loads, Loading(l) PROVE FALSE
  BY <1>2 DEF Loading, ListResources, Judge, Arrive, Show, screenVars
<1>3. CASE Key \/ Removed
  <2>1. mode # "working" => removal = {}
    BY DEF ArtifactsInv, Tidy
  <2>2. mode' = "quit" \/ removal' = removal \/ mode # "working"
    BY <1>3 DEF Key, Quit, Open, Leave, Refresh, Toggle, SelectAllOnTab, SelectNone, Purge, Delete,
                Cancel, Accept, Removed
  <2> QED  BY <2>1, <2>2
<1>4. ASSUME NEW p \in Objects, RemoveOne(p) PROVE o \in Objects /\ RemoveOne(o)
  BY <1>4 DEF RemoveOne
<1>5. CASE UNCHANGED vars
  BY <1>5 DEF vars, screenVars
<1> QED  BY <1>1, <1>2, <1>3, <1>4, <1>5 DEF Next, Screen

\* A step that removes an object is a call of the removal, which was given it.
LEMMA Removing ==
  ASSUME ArtifactsInv, [Next]_vars, NEW o, Removes(o)
  PROVE  /\ o \in Objects /\ o \in selected /\ RemoveOne(o)
         /\ o \notin Containers => ~InUse(o)
<1>1. o \in removal \ removal' /\ mode = "working" /\ Exists(o) /\ ~Exists(o)'
  BY DEF Removes
<1>2. o \in selected
  BY <1>1 DEF ArtifactsInv, TypeOK
<1>3. o \in Objects /\ RemoveOne(o)
  <2>1. CASE mode' = "quit"
    <3>1. Quit
      BY <1>1, <2>1 DEF Next, World, Loading, ListResources, Judge, Arrive, Show, Screen, Key,
         Open, Leave, Refresh,
         Toggle, SelectAllOnTab, SelectNone, Purge, Delete, Cancel, Accept, RemoveOne, Removed,
         vars, screenVars
    <3> QED  BY <1>1, <3>1 DEF Quit, Exists, worldVars
  <2> QED  BY <1>1, <2>1, OnlyRemoveOneRemoves
<1>4. o \notin Containers => ~InUse(o)
  BY <1>1, <1>3 DEF RemoveOne, Removable, Exists
<1> QED  BY <1>2, <1>3, <1>4

\* A purge never takes the home of a project whose directory has not been away.
THEOREM HomesAreKept == Spec => HomesKept
<1>1. ArtifactsInv /\ [Next]_vars => [purging /\ known /\ Removes(Home) => moves > 0]_vars
  <2> SUFFICES ASSUME ArtifactsInv, [Next]_vars, purging, known, Removes(Home) PROVE moves > 0
    OBVIOUS
  <2>1. Home \in selected
    BY Removing
  <2>2. known /\ moves = 0 => Home \notin selected
    BY DEF ArtifactsInv, Judged, Spares
  <2>3. moves \in 0..MaxMoves /\ MaxMoves \in Nat
    BY ArtifactsAssumption DEF ArtifactsInv, TypeOK, ArtifactsAssumption
  <2> QED  BY <2>1, <2>2, <2>3
<1> QED  BY <1>1, ArtifactsInvariant, PTL DEF Spec, HomesKept

\* A purge takes nothing from a session whose proxy ran when the listing was made
\* and still runs.
THEOREM SessionsSpared == Spec => PurgeSparesSessions
<1> DEFINE Spared == \A s \in vouched : purging /\ Running(Proxy(s)) => \A o \in Needed(s) : ~Removes(o)
<1>1. ArtifactsInv /\ [Next]_vars => [Spared]_vars
  <2> SUFFICES ASSUME ArtifactsInv, [Next]_vars, NEW s \in vouched, purging, Running(Proxy(s)),
                      NEW o \in Needed(s), Removes(o)
               PROVE  FALSE
    OBVIOUS
  <2>1. s \in Sessions /\ Spares(selected, vouched)
    BY DEF ArtifactsInv, TypeOK, Judged
  <2>2. o \in selected /\ (o \notin Containers => ~InUse(o))
    BY Removing
  <2>3. o # Proxy(s)
    BY <2>1, <2>2 DEF Spares
  <2>4. o # Net
    BY <2>1, <2>2, Distinct DEF InUse, Jailing
  <2>5. known => o \in {Helper, Net}
    BY <2>1, <2>2 DEF Spares
  <2>6. Running(Agent(s)) => o # Home
    BY <2>1, <2>2, Distinct DEF InUse, Running
  <2> QED  BY <2>1, <2>3, <2>4, <2>5, <2>6, Distinct DEF Needed
<1> QED  BY <1>1, ArtifactsInvariant, PTL DEF Spec, PurgeSparesSessions

\* One pass over a selection removes all of it that nothing else uses.
THEOREM OnePassIsEnough == Spec => SweepInOnePass
<1> DEFINE Swept == \A o \in removal \ removal' :
                      Exists(o)' /\ mode' # "quit" => \E c \in Containers \ selected : Exists(c)
<1>1. ArtifactsInv /\ [Next]_vars => [Swept]_vars
  <2> SUFFICES ASSUME ArtifactsInv, [Next]_vars, NEW o \in removal \ removal', Exists(o)', mode' # "quit"
               PROVE  \E c \in Containers \ selected : Exists(c)
    OBVIOUS
  <2>1. o \in Objects /\ RemoveOne(o)
    BY OnlyRemoveOneRemoves
  <2>2. o \notin Containers
    <3> SUFFICES ASSUME o \in Containers PROVE FALSE
      OBVIOUS
    <3>1. box \in [Containers -> {"absent", "created", "running", "exited"}]
      BY DEF ArtifactsInv, TypeOK
    <3>2. box'[o] = "absent"
      BY <2>1, <3>1 DEF RemoveOne
    <3> QED  BY <3>2 DEF Exists
  <2>3. InUse(o)
    BY <2>1, <2>2 DEF Exists, RemoveOne, Removable
  <2>4. PICK c \in Containers : box[c] # "absent"
    BY <2>3, Distinct DEF InUse, Jailing, Running
  <2>5. c \notin removal
    \* Containers are removed first.
    <3>1. Place(o) <= Place(c) => c \notin Containers
      <4>1. c.tab = "containers"
        BY DEF Containers, Proxy, Agent
      <4>2. o.tab \in {"images", "volumes", "networks"}
        BY <2>1, <2>2, Distinct DEF Helper, Home, Net
      <4> QED  BY <4>1, <4>2 DEF Place
    <3> QED  BY <2>1, <3>1 DEF RemoveOne
  <2>6. c \notin selected \ removal
    BY <2>1, <2>4 DEF ArtifactsInv, Once, RemoveOne
  <2> QED  BY <2>4, <2>5, <2>6 DEF Exists
<1> QED  BY <1>1, ArtifactsInvariant, PTL DEF Spec, SweepInOnePass
=============================================================================
