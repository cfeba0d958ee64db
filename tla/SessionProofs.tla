---------------------------- MODULE SessionProofs ----------------------------
(***************************************************************************)
(* Proofs about Session, for every set of sessions and every request.      *)
(*                                                                         *)
(* The argument is one inductive invariant, SessionInv, in three parts:    *)
(* what each session's own place in its code says about its jail           *)
(* (Confinement), about what it has left to take down (Tidiness), and      *)
(* about the networks, which other sessions can remove too (Networks).     *)
(***************************************************************************)
EXTENDS Session, TLAPS

\* Only a session with a jail is ever at these steps.
JailSteps == {"jail", "clearNetwork", "createNetwork", "writePolicy", "openLog", "startProxy",
              "awaitProxy", "netsetup", "removeProxy", "removePolicy", "removeNetwork"}

\* The steps that come before the session's network, policy file and proxy.
BeforeNetwork == {"start", "image", "jail", "clearNetwork", "createNetwork"}
BeforePolicy == BeforeNetwork \cup {"writePolicy"}
BeforeProxy == BeforePolicy \cup {"openLog", "startProxy"}

Confinement ==
  \A s \in Sessions :
    /\ pc[s] \in JailSteps => Jailed(s)
    /\ pc[s] = "netsetup" \/ s \in rules => s \in marker
    /\ Jailed(s) /\ pc[s] \in {"sidecar", "attachOllama", "launch"} => s \in rules
    /\ Jailed(s) /\ pc[s] \in {"openLog", "startProxy", "awaitProxy", "netsetup",
                               "sidecar", "attachOllama", "launch"} => s \in policy
    /\ agent[s] = "running" => pc[s] \in {"running", "killed"}
    /\ Jailed(s) /\ agent[s] = "running" =>
         s \in rules /\ proxy[s] \in {"running", "exited"} /\ s \in policy

Tidiness ==
  \A s \in Sessions :
    /\ pc[s] \in BeforeProxy \/ ~Jailed(s) => proxy[s] = "absent"
    /\ pc[s] \in BeforePolicy \/ ~Jailed(s) => s \notin policy
    /\ s \in failing =>
         pc[s] \in {"removeProxy", "removePolicy", "removeNetwork", "died", "killed"}
    /\ pc[s] \in {"removePolicy", "removeNetwork"} /\ s \notin hurt => proxy[s] = "absent"
    /\ pc[s] = "removeNetwork" => s \notin policy
    /\ CleanExit(s) => proxy[s] = "absent" /\ s \notin policy

Networks ==
  \A s \in Sessions :
    /\ s \in nets => Jailed(s) /\ pc[s] \notin BeforeNetwork
    /\ proxyNet[s] # NoNet => Jailed(s) /\ SameNetwork(proxyNet[s], s)
    /\ pc[s] \in {"sidecar", "attachOllama"} \/ s \in ollamaNets => plan[s].local
    /\ Jailed(s) /\ Solo(s) /\ pc[s] \in HasNetwork => s \in nets
    /\ Jailed(s) /\ Solo(s) => proxyNet[s] \in {NoNet, s}
    /\ CleanExit(s) /\ Solo(s) /\ ~plan[s].local => s \notin nets

SessionInv == TypeOK /\ Confinement /\ Tidiness /\ Networks
-----------------------------------------------------------------------------
\* The initial states satisfy the invariant: nothing exists yet.
LEMMA InitSessionInv == Init => SessionInv
<1> SUFFICES ASSUME Init PROVE SessionInv
  OBVIOUS
<1>1. TypeOK
  BY SessionAssumption DEF Init, TypeOK, Steps
<1>2. Confinement /\ Tidiness /\ Networks
  BY DEF Init, Confinement, Tidiness, Networks, JailSteps, BeforeProxy, BeforePolicy,
         BeforeNetwork, CleanExit, HasNetwork
<1>3. QED
  BY <1>1, <1>2 DEF SessionInv

\* Every step keeps every variable in its range.
LEMMA TypePreserved == SessionInv /\ [Next]_vars => TypeOK'
<1> SUFFICES ASSUME SessionInv, [Next]_vars PROVE TypeOK'
  OBVIOUS
<1> USE SessionAssumption DEF SessionInv, TypeOK, Steps, Ended, Named, vars, hostVars, proxyVars,
          ollamaVars
<1>1. ASSUME NEW t \in Sessions, AttachShell(t) PROVE TypeOK'
  BY <1>1 DEF AttachShell, Goes
<1>2. ASSUME NEW t \in Sessions, ConfirmPlan(t) PROVE TypeOK'
  BY <1>2 DEF ConfirmPlan, Goes, Dies
<1>3. ASSUME NEW t \in Sessions, PrepareImage(t) PROVE TypeOK'
  BY <1>3 DEF PrepareImage, Goes, Dies, AfterJail
<1>4. ASSUME NEW t \in Sessions, PreflightJail(t) PROVE TypeOK'
  BY <1>4 DEF PreflightJail, Goes, Dies
<1>5. ASSUME NEW t \in Sessions, ClearNetwork(t) PROVE TypeOK'
  BY <1>5 DEF ClearNetwork, Goes
<1>6. ASSUME NEW t \in Sessions, CreateNetwork(t) PROVE TypeOK'
  BY <1>6 DEF CreateNetwork, Goes, Dies
<1>7. ASSUME NEW t \in Sessions, WritePolicy(t) PROVE TypeOK'
  BY <1>7 DEF WritePolicy, Goes, Undoes
<1>8. ASSUME NEW t \in Sessions, OpenLog(t) PROVE TypeOK'
  BY <1>8 DEF OpenLog, Goes, Undoes
<1>9. ASSUME NEW t \in Sessions, StartProxy(t) PROVE TypeOK'
  BY <1>9 DEF StartProxy, Goes, Undoes
<1>10. ASSUME NEW t \in Sessions, AwaitProxy(t) PROVE TypeOK'
  BY <1>10 DEF AwaitProxy, Goes, Undoes
<1>11. ASSUME NEW t \in Sessions, RunNetsetup(t) PROVE TypeOK'
  BY <1>11 DEF RunNetsetup, Goes, Undoes, AfterJail
<1>12. ASSUME NEW t \in Sessions, EnsureOllama(t) PROVE TypeOK'
  <2>1. ollama' \in BOOLEAN
    BY <1>12 DEF EnsureOllama
  <2>2. \E step \in {"attachOllama", "removeProxy", "done", "died"} : pc' = [pc EXCEPT ![t] = step]
    BY <1>12 DEF EnsureOllama, Goes, Dies, Returning
  <2>3. UNCHANGED <<plan, failing, hurt, nets, proxyVars, agent, ollamaNets, policy>>
    BY <1>12 DEF EnsureOllama
  <2> QED  BY <2>1, <2>2, <2>3
<1>13. ASSUME NEW t \in Sessions, AttachOllama(t) PROVE TypeOK'
  BY <1>13 DEF AttachOllama, Goes
<1>14. ASSUME NEW t \in Sessions, Launch(t) PROVE TypeOK'
  BY <1>14 DEF Launch, Goes
<1>15. ASSUME NEW t \in Sessions, Return(t) PROVE TypeOK'
  BY <1>15 DEF Return, Goes, Returning
<1>16. ASSUME NEW t \in Sessions, RemoveProxy(t) PROVE TypeOK'
  BY <1>16 DEF RemoveProxy, Goes
<1>17. ASSUME NEW t \in Sessions, RemovePolicy(t) PROVE TypeOK'
  BY <1>17 DEF RemovePolicy, Goes
<1>18. ASSUME NEW t \in Sessions, RemoveNetwork(t) PROVE TypeOK'
  BY <1>18 DEF RemoveNetwork, Goes
<1>19. ASSUME NEW t \in Sessions, ProxyReady(t) PROVE TypeOK'
  BY <1>19 DEF ProxyReady
<1>20. ASSUME NEW t \in Sessions, ProxyExits(t) PROVE TypeOK'
  BY <1>20 DEF ProxyExits
<1>21. ASSUME NEW t \in Sessions, AgentExits(t) PROVE TypeOK'
  BY <1>21 DEF AgentExits
<1>22. ASSUME NEW t \in Sessions, Kill(t) PROVE TypeOK'
  BY <1>22 DEF Kill, Ended
<1>23. CASE OllamaUpDown
  BY <1>23 DEF OllamaUpDown
<1>24. CASE UNCHANGED vars
  BY <1>24
<1>25. QED
  BY <1>1, <1>2, <1>3, <1>4, <1>5, <1>6, <1>7, <1>8, <1>9, <1>10, <1>11, <1>12, <1>13, <1>14,
     <1>15, <1>16, <1>17, <1>18, <1>19, <1>20, <1>21, <1>22, <1>23, <1>24 DEF Next, HostStep

\* No step of any session, proxy, agent or user breaks a session's confinement.
LEMMA ConfinementPreserved == SessionInv /\ [Next]_vars => Confinement'
<1> SUFFICES ASSUME SessionInv, [Next]_vars PROVE Confinement'
  OBVIOUS
<1> USE SessionAssumption DEF SessionInv, TypeOK, Confinement, JailSteps, Jailed, vars, hostVars,
          proxyVars, ollamaVars
<1>1. ASSUME NEW t \in Sessions, AttachShell(t) PROVE Confinement'
  BY <1>1 DEF AttachShell, Goes
<1>2. ASSUME NEW t \in Sessions, ConfirmPlan(t) PROVE Confinement'
  BY <1>2 DEF ConfirmPlan, Goes, Dies
<1>3. ASSUME NEW t \in Sessions, PrepareImage(t) PROVE Confinement'
  BY <1>3 DEF PrepareImage, Goes, Dies, AfterJail
<1>4. ASSUME NEW t \in Sessions, PreflightJail(t) PROVE Confinement'
  BY <1>4 DEF PreflightJail, Goes, Dies
<1>5. ASSUME NEW t \in Sessions, ClearNetwork(t) PROVE Confinement'
  BY <1>5 DEF ClearNetwork, Goes
<1>6. ASSUME NEW t \in Sessions, CreateNetwork(t) PROVE Confinement'
  BY <1>6 DEF CreateNetwork, Goes, Dies
<1>7. ASSUME NEW t \in Sessions, WritePolicy(t) PROVE Confinement'
  BY <1>7 DEF WritePolicy, Goes, Undoes
<1>8. ASSUME NEW t \in Sessions, OpenLog(t) PROVE Confinement'
  BY <1>8 DEF OpenLog, Goes, Undoes
<1>9. ASSUME NEW t \in Sessions, StartProxy(t) PROVE Confinement'
  BY <1>9 DEF StartProxy, Goes, Undoes
<1>10. ASSUME NEW t \in Sessions, AwaitProxy(t) PROVE Confinement'
  BY <1>10 DEF AwaitProxy, Goes, Undoes
<1>11. ASSUME NEW t \in Sessions, RunNetsetup(t) PROVE Confinement'
  BY <1>11 DEF RunNetsetup, Goes, Undoes, AfterJail
<1>12. ASSUME NEW t \in Sessions, EnsureOllama(t) PROVE Confinement'
  BY <1>12 DEF EnsureOllama, Goes, Dies, Returning
<1>13. ASSUME NEW t \in Sessions, AttachOllama(t) PROVE Confinement'
  BY <1>13 DEF AttachOllama, Goes
<1>14. ASSUME NEW t \in Sessions, Launch(t) PROVE Confinement'
  BY <1>14 DEF Launch, Goes
<1>15. ASSUME NEW t \in Sessions, Return(t) PROVE Confinement'
  BY <1>15 DEF Return, Goes, Returning
<1>16. ASSUME NEW t \in Sessions, RemoveProxy(t) PROVE Confinement'
  BY <1>16 DEF RemoveProxy, Goes
<1>17. ASSUME NEW t \in Sessions, RemovePolicy(t) PROVE Confinement'
  BY <1>17 DEF RemovePolicy, Goes
<1>18. ASSUME NEW t \in Sessions, RemoveNetwork(t) PROVE Confinement'
  BY <1>18 DEF RemoveNetwork, Goes
<1>19. ASSUME NEW t \in Sessions, ProxyReady(t) PROVE Confinement'
  BY <1>19 DEF ProxyReady
<1>20. ASSUME NEW t \in Sessions, ProxyExits(t) PROVE Confinement'
  BY <1>20 DEF ProxyExits
<1>21. ASSUME NEW t \in Sessions, AgentExits(t) PROVE Confinement'
  BY <1>21 DEF AgentExits
<1>22. ASSUME NEW t \in Sessions, Kill(t) PROVE Confinement'
  BY <1>22 DEF Kill, Ended
<1>23. CASE OllamaUpDown
  BY <1>23 DEF OllamaUpDown
<1>24. CASE UNCHANGED vars
  BY <1>24
<1>25. QED
  BY <1>1, <1>2, <1>3, <1>4, <1>5, <1>6, <1>7, <1>8, <1>9, <1>10, <1>11, <1>12, <1>13, <1>14,
     <1>15, <1>16, <1>17, <1>18, <1>19, <1>20, <1>21, <1>22, <1>23, <1>24 DEF Next, HostStep

\* No step leaves a session with something its remaining steps do not take
\* down.
LEMMA TidinessPreserved == SessionInv /\ [Next]_vars => Tidiness'
<1> SUFFICES ASSUME SessionInv, [Next]_vars PROVE Tidiness'
  OBVIOUS
<1> USE SessionAssumption DEF SessionInv, TypeOK, Tidiness, Confinement, JailSteps, Jailed,
          CleanExit, BeforeProxy, BeforePolicy, BeforeNetwork, vars, hostVars, proxyVars,
          ollamaVars
<1>1. ASSUME NEW t \in Sessions, AttachShell(t) PROVE Tidiness'
  BY <1>1 DEF AttachShell, Goes
<1>2. ASSUME NEW t \in Sessions, ConfirmPlan(t) PROVE Tidiness'
  BY <1>2 DEF ConfirmPlan, Goes, Dies
<1>3. ASSUME NEW t \in Sessions, PrepareImage(t) PROVE Tidiness'
  BY <1>3 DEF PrepareImage, Goes, Dies, AfterJail
<1>4. ASSUME NEW t \in Sessions, PreflightJail(t) PROVE Tidiness'
  BY <1>4 DEF PreflightJail, Goes, Dies
<1>5. ASSUME NEW t \in Sessions, ClearNetwork(t) PROVE Tidiness'
  BY <1>5 DEF ClearNetwork, Goes
<1>6. ASSUME NEW t \in Sessions, CreateNetwork(t) PROVE Tidiness'
  BY <1>6 DEF CreateNetwork, Goes, Dies
<1>7. ASSUME NEW t \in Sessions, WritePolicy(t) PROVE Tidiness'
  BY <1>7 DEF WritePolicy, Goes, Undoes
<1>8. ASSUME NEW t \in Sessions, OpenLog(t) PROVE Tidiness'
  BY <1>8 DEF OpenLog, Goes, Undoes
<1>9. ASSUME NEW t \in Sessions, StartProxy(t) PROVE Tidiness'
  BY <1>9 DEF StartProxy, Goes, Undoes
<1>10. ASSUME NEW t \in Sessions, AwaitProxy(t) PROVE Tidiness'
  BY <1>10 DEF AwaitProxy, Goes, Undoes
<1>11. ASSUME NEW t \in Sessions, RunNetsetup(t) PROVE Tidiness'
  BY <1>11 DEF RunNetsetup, Goes, Undoes, AfterJail
<1>12. ASSUME NEW t \in Sessions, EnsureOllama(t) PROVE Tidiness'
  BY <1>12 DEF EnsureOllama, Goes, Dies, Returning
<1>13. ASSUME NEW t \in Sessions, AttachOllama(t) PROVE Tidiness'
  BY <1>13 DEF AttachOllama, Goes
<1>14. ASSUME NEW t \in Sessions, Launch(t) PROVE Tidiness'
  BY <1>14 DEF Launch, Goes
<1>15. ASSUME NEW t \in Sessions, Return(t) PROVE Tidiness'
  BY <1>15 DEF Return, Goes, Returning
<1>16. ASSUME NEW t \in Sessions, RemoveProxy(t) PROVE Tidiness'
  BY <1>16 DEF RemoveProxy, Goes
<1>17. ASSUME NEW t \in Sessions, RemovePolicy(t) PROVE Tidiness'
  BY <1>17 DEF RemovePolicy, Goes
<1>18. ASSUME NEW t \in Sessions, RemoveNetwork(t) PROVE Tidiness'
  BY <1>18 DEF RemoveNetwork, Goes
<1>19. ASSUME NEW t \in Sessions, ProxyReady(t) PROVE Tidiness'
  BY <1>19 DEF ProxyReady
<1>20. ASSUME NEW t \in Sessions, ProxyExits(t) PROVE Tidiness'
  BY <1>20 DEF ProxyExits
<1>21. ASSUME NEW t \in Sessions, AgentExits(t) PROVE Tidiness'
  BY <1>21 DEF AgentExits
<1>22. ASSUME NEW t \in Sessions, Kill(t) PROVE Tidiness'
  BY <1>22 DEF Kill, Ended
<1>23. CASE OllamaUpDown
  BY <1>23 DEF OllamaUpDown
<1>24. CASE UNCHANGED vars
  BY <1>24
<1>25. QED
  BY <1>1, <1>2, <1>3, <1>4, <1>5, <1>6, <1>7, <1>8, <1>9, <1>10, <1>11, <1>12, <1>13, <1>14,
     <1>15, <1>16, <1>17, <1>18, <1>19, <1>20, <1>21, <1>22, <1>23, <1>24 DEF Next, HostStep

\* No step takes a network from a session that has its project to itself, or
\* leaves it behind.
LEMMA NetworksPreserved == SessionInv /\ [Next]_vars => Networks'
<1> SUFFICES ASSUME SessionInv, [Next]_vars PROVE Networks'
  OBVIOUS
<1> USE SessionAssumption DEF SessionInv, TypeOK, Networks, Tidiness, Confinement, JailSteps,
          Jailed, CleanExit, Solo, SameNetwork, Project, HasNetwork, BeforeNetwork, BeforePolicy,
          BeforeProxy, Named, Busy, vars, hostVars, proxyVars, ollamaVars
<1>1. ASSUME NEW t \in Sessions, AttachShell(t) PROVE Networks'
  BY <1>1 DEF AttachShell, Goes
<1>2. ASSUME NEW t \in Sessions, ConfirmPlan(t) PROVE Networks'
  BY <1>2 DEF ConfirmPlan, Goes, Dies
<1>3. ASSUME NEW t \in Sessions, PrepareImage(t) PROVE Networks'
  BY <1>3 DEF PrepareImage, Goes, Dies, AfterJail
<1>4. ASSUME NEW t \in Sessions, PreflightJail(t) PROVE Networks'
  BY <1>4 DEF PreflightJail, Goes, Dies
<1>5. ASSUME NEW t \in Sessions, ClearNetwork(t) PROVE Networks'
  BY <1>5 DEF ClearNetwork, Goes
<1>6. ASSUME NEW t \in Sessions, CreateNetwork(t) PROVE Networks'
  BY <1>6 DEF CreateNetwork, Goes, Dies
<1>7. ASSUME NEW t \in Sessions, WritePolicy(t) PROVE Networks'
  BY <1>7 DEF WritePolicy, Goes, Undoes
<1>8. ASSUME NEW t \in Sessions, OpenLog(t) PROVE Networks'
  BY <1>8 DEF OpenLog, Goes, Undoes
<1>9. ASSUME NEW t \in Sessions, StartProxy(t) PROVE Networks'
  BY <1>9 DEF StartProxy, Goes, Undoes
<1>10. ASSUME NEW t \in Sessions, AwaitProxy(t) PROVE Networks'
  BY <1>10 DEF AwaitProxy, Goes, Undoes
<1>11. ASSUME NEW t \in Sessions, RunNetsetup(t) PROVE Networks'
  BY <1>11 DEF RunNetsetup, Goes, Undoes, AfterJail
<1>12. ASSUME NEW t \in Sessions, EnsureOllama(t) PROVE Networks'
  BY <1>12 DEF EnsureOllama, Goes, Dies, Returning
<1>13. ASSUME NEW t \in Sessions, AttachOllama(t) PROVE Networks'
  BY <1>13 DEF AttachOllama, Goes
<1>14. ASSUME NEW t \in Sessions, Launch(t) PROVE Networks'
  BY <1>14 DEF Launch, Goes
<1>15. ASSUME NEW t \in Sessions, Return(t) PROVE Networks'
  BY <1>15 DEF Return, Goes, Returning
<1>16. ASSUME NEW t \in Sessions, RemoveProxy(t) PROVE Networks'
  BY <1>16 DEF RemoveProxy, Goes
<1>17. ASSUME NEW t \in Sessions, RemovePolicy(t) PROVE Networks'
  BY <1>17 DEF RemovePolicy, Goes
<1>18. ASSUME NEW t \in Sessions, RemoveNetwork(t) PROVE Networks'
  BY <1>18 DEF RemoveNetwork, Goes
<1>19. ASSUME NEW t \in Sessions, ProxyReady(t) PROVE Networks'
  BY <1>19 DEF ProxyReady
<1>20. ASSUME NEW t \in Sessions, ProxyExits(t) PROVE Networks'
  BY <1>20 DEF ProxyExits
<1>21. ASSUME NEW t \in Sessions, AgentExits(t) PROVE Networks'
  BY <1>21 DEF AgentExits
<1>22. ASSUME NEW t \in Sessions, Kill(t) PROVE Networks'
  BY <1>22 DEF Kill, Ended
<1>23. CASE OllamaUpDown
  BY <1>23 DEF OllamaUpDown
<1>24. CASE UNCHANGED vars
  BY <1>24
<1>25. QED
  BY <1>1, <1>2, <1>3, <1>4, <1>5, <1>6, <1>7, <1>8, <1>9, <1>10, <1>11, <1>12, <1>13, <1>14,
     <1>15, <1>16, <1>17, <1>18, <1>19, <1>20, <1>21, <1>22, <1>23, <1>24 DEF Next, HostStep
-----------------------------------------------------------------------------
\* Every reachable state satisfies the inductive invariant.
THEOREM SessionInvariant == Spec => []SessionInv
<1>1. SessionInv /\ [Next]_vars => SessionInv'
  BY TypePreserved, ConfinementPreserved, TidinessPreserved, NetworksPreserved DEF SessionInv
<1>2. QED
  BY InitSessionInv, <1>1, PTL DEF Spec

\* Every variable stays in its range.
THEOREM TypeCorrect == Spec => []TypeOK
<1>1. SessionInv => TypeOK
  BY DEF SessionInv
<1>2. QED
  BY SessionInvariant, <1>1, PTL

\* However the daemon, the proxy and the other sessions behave, a jailed agent
\* never runs without the rules in its namespace, and rules are only ever in
\* the namespace of a proxy that has said it listens.
THEOREM JailAlwaysHolds == Spec => []JailHolds
<1>1. SessionInv => JailHolds
  <2> SUFFICES ASSUME SessionInv
               PROVE  JailHolds
    OBVIOUS
  <2>1. \A s \in Sessions : Jailed(s) /\ agent[s] = "running" => s \in rules
    BY DEF SessionInv, Confinement
  <2>2. rules \subseteq marker
    BY DEF SessionInv, TypeOK, Confinement
  <2>3. QED
    BY <2>1, <2>2 DEF JailHolds
<1>2. QED
  BY SessionInvariant, <1>1, PTL

\* A running jailed agent always has its proxy container and its policy file.
THEOREM ProxyOutlivesAgent == Spec => []JailOutlivesAgent
<1>1. SessionInv => JailOutlivesAgent
  BY DEF SessionInv, Confinement, JailOutlivesAgent
<1>2. QED
  BY SessionInvariant, <1>1, PTL

\* A clean exit, from whichever step, leaves no proxy and no policy file, and
\* that of a session alone on its project leaves no network.
THEOREM CleanupComplete == Spec => []CleanedUp
<1>1. SessionInv => CleanedUp
  <2> SUFFICES ASSUME SessionInv, NEW s \in Sessions, CleanExit(s)
               PROVE  /\ proxy[s] = "absent" /\ s \notin policy
                      /\ Solo(s) /\ ~plan[s].local => s \notin nets
    BY DEF CleanedUp
  <2>1. proxy[s] = "absent" /\ s \notin policy
    BY DEF SessionInv, Tidiness
  <2>2. Solo(s) /\ ~plan[s].local => s \notin nets
    BY DEF SessionInv, Networks
  <2>3. QED
    BY <2>1, <2>2
<1>2. QED
  BY SessionInvariant, <1>1, PTL

\* No session of another project takes a session's network or its name.
THEOREM ProjectsAlwaysIsolated == Spec => []ProjectsIsolated
<1>1. SessionInv => ProjectsIsolated
  BY DEF SessionInv, Networks, ProjectsIsolated
<1>2. QED
  BY SessionInvariant, <1>1, PTL
=============================================================================
