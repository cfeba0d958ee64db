------------------------------- MODULE Layers -------------------------------
(***************************************************************************)
(* A configuration and where its values come from: the built-in default,   *)
(* the global file, the project's file in the private store and the        *)
(* environment of the process, each over the ones before it.  The agents   *)
(* and the Ollama sidecar have keys and files of their own, under the      *)
(* environment; they are all alike, and "own" is one of them.              *)
(***************************************************************************)
EXTENDS EnvFile

CONSTANTS
  JailKeys,      \* the keys of the global file and of the projects' files
  OwnKeys,       \* those of an agent's own file
  BoolKeys,      \* switches
  ListKeys,      \* lists of hosts
  Default        \* the built-in configuration

Keys == JailKeys \cup OwnKeys

\* The value of a key in a configuration.
IsValue(k, x) == IF k \in BoolKeys THEN x \in BOOLEAN ELSE IsText(x)

ASSUME LayersAssumption ==
  /\ IsFiniteSet(Keys)
  /\ JailKeys \cap OwnKeys = {}
  /\ BoolKeys \cup ListKeys \subseteq JailKeys
  /\ BoolKeys \cap ListKeys = {}
  /\ DOMAIN Default = Keys
  /\ \A k \in Keys : IsValue(k, Default[k])

\* What strconv.ParseBool takes for true.  Whatever it does not know is false.
TrueWords == {<<"true">>, <<"1">>}

Read(k, v) ==
  IF k \in BoolKeys THEN v \in TrueWords
  ELSE IF k \in ListKeys THEN Words(v)
  ELSE v

\* A setting as an editor shows it.
Show(k, x) ==
  IF k \in BoolKeys THEN IF x THEN <<"true">> ELSE <<"false">>
  ELSE IF k \in ListKeys THEN Join(x)
  ELSE x

applyEnv(value, env, keys) ==
  [k \in DOMAIN value |-> IF k \in keys \cap DOMAIN env THEN Read(k, env[k]) ELSE value[k]]

applyJailEnv(value, env) == applyEnv(value, env, JailKeys)

\* loadClaudeEnvFile and its kin.
applyOwnEnv(value, env) == applyEnv(value, env, OwnKeys)

\* A variable set to nothing is as good as none.
applyEnvOverrides(value, environ) ==
  applyEnv(value, environ, {k \in Keys : environ[k] # <<>>})

\* Fault: the project's file comes first.
LoadProjectFirst(files, environ) ==
  LET project == Parse(files.project)
      above   == applyJailEnv(applyJailEnv(Default, project), Parse(files.global))
  IN [value |-> applyEnvOverrides(applyOwnEnv(above, Parse(files.own)), environ),
      overridden |-> JailKeys \cap DOMAIN project]

LoadConfig(files, environ) ==
  LET global  == applyJailEnv(Default, Parse(files.global))
      own     == applyOwnEnv(global, Parse(files.own))
      project == Parse(files.project)
  IN [value |-> applyEnvOverrides(applyJailEnv(own, project), environ),
      overridden |-> JailKeys \cap DOMAIN project]

Only(env, keys) == [k \in keys \cap DOMAIN env |-> env[k]]

\* The README's account of the same, "lowest to highest precedence": the highest
\* layer that has a key decides.
Layer(files, environ) ==
  << Only(Parse(files.global), JailKeys), Only(Parse(files.own), OwnKeys),
     Only(Parse(files.project), JailKeys), Only(environ, {k \in Keys : environ[k] # <<>>}) >>

Resolved(files, environ, k) ==
  LET layer  == Layer(files, environ)
      saying == {i \in 1..4 : k \in DOMAIN layer[i]}
  IN IF saying = {} THEN Default[k] ELSE Read(k, layer[Max(saying)][k])
=============================================================================
