------------------------------ MODULE Settings ------------------------------
(***************************************************************************)
(* The editors of the terminal interface, Settings and Packages, and the   *)
(* files they edit.  An editor shows one scope, the global file or the     *)
(* project's, and for each key what the file says or, if it says nothing,  *)
(* the value of the configuration the editor was opened with.  A save sets *)
(* the keys that were changed, then removes those that were cleared, and   *)
(* has the configuration loaded again; each of these reads the file and    *)
(* writes it in a step of its own, and another process, or the user with   *)
(* an editor of text, may write between the two.                           *)
(*                                                                         *)
(* The two editors work alike: Settings has the switches and texts, and    *)
(* Packages one key, whose value it shows as a list.  A text is typed and  *)
(* accepted in one step.  Choosing a directory and ctrl+c are Interface's. *)
(*                                                                         *)
(* Definitions marked "Fault" are not part of the specification: each is   *)
(* the definition after it with a mistake a change to the code could make, *)
(* kept to show that the properties below notice it.                       *)
(***************************************************************************)
EXTENDS Layers

CONSTANTS
  Pkgs,          \* the key that Packages edits
  Typed,         \* what is typed in for a text, by key; for Pkgs, lists
  Others,        \* assignments another process may make: <<scope, key, value>>
  StartFiles,    \* the files there may be at the start
  Environs,      \* the environments: a value by key, <<>> for none
  MaxChanged,    \* bound: fields that differ from what was saved
  MaxReloads,    \* bound: reloads under way
  MaxWriters     \* bound: saves that are begun and other processes that write

ASSUME SettingsAssumption ==
  /\ Pkgs \in JailKeys \ (BoolKeys \cup ListKeys)
  /\ \A files \in StartFiles :
       /\ DOMAIN files = {"global", "own", "project"}
       /\ \A s \in DOMAIN files : IsFile(files[s]) /\ HasTexts(files[s].lines)
  /\ \A env \in Environs : \A k \in Keys : IsText(env[k])
  /\ \A k \in JailKeys \ BoolKeys : \A v \in Typed[k] : IsText(v)
  /\ \A o \in Others : o[1] \in {"global", "project"} /\ o[2] \in JailKeys /\ IsText(o[3])
  /\ MaxChanged \in Nat \ {0}
  /\ MaxReloads \in Nat \ {0}
  /\ MaxWriters \in Nat \ {0}

Scopes  == {"global", "project"}
Editors == {"settings", "packages"}
KeysOf(e) == IF e = "packages" THEN {Pkgs} ELSE JailKeys \ {Pkgs}

\* In place of the fields of an editor that is not open.
Closed == [scope |-> "closed"]

Saved == [step |-> "saved", lines |-> <<>>]

\* A file as it is first written: each key commented out under its documentation.
Template(s) == <<Prose>> \o
  SetToSeq({Line("comment", k, <<"default">>) : k \in IF s = "own" THEN OwnKeys ELSE JailKeys})

VARIABLES
  file,          \* the files' contents
  environ,
  cfg, cfgErr,   \* the interface's configuration
  asked, ready,  \* reloads that have not read the files yet, and results on their way
  screen,        \* the editor that has the keys, or "hub"
  ed,            \* the editors' fields
  save,          \* the save that is under way: its next step, what it will write
  writers,       \* how many saves were begun, or others wrote
  \* history
  warned,        \* the last key was an esc that was refused
  stirred,       \* editors whose file was changed by others, or half by themselves
  stale,         \* editors opened with, or showing still, an old configuration
  outrun,        \* files changed while a reload was under way, or without one
  foreign        \* the assignments by other processes that should stand

cfgVars == <<cfg, cfgErr, asked, ready>>
history == <<warned, stirred, stale, outrun, foreign>>
vars    == <<file, environ, cfgVars, screen, ed, save, writers, history>>
-----------------------------------------------------------------------------
Open(e)   == ed[e] # Closed
Raw(s)    == Parse(file[s])
Shown(k, v)   == IF k = Pkgs THEN splitPackages(v) ELSE v
Written(k, v) == IF k = Pkgs THEN Join(v) ELSE v

\* dirty of a field: the value differs, or whether it is there.
Changed(e) ==
  {k \in KeysOf(e) : \/ ed[e].value[k] # ed[e].saved[k]
                     \/ ed[e].present[k] # ed[e].was[k]}
Dirty(e) == Changed(e) # {}
AllChanged == UNION {Changed(e) : e \in {d \in Editors : Open(d)}}

\* What an editor shows of a scope, from the file and its configuration c.
buildFields(e, c, s) ==
  LET raw == Raw(s)
      value == [k \in KeysOf(e) |->
                  Shown(k, IF k \in DOMAIN raw THEN raw[k] ELSE Show(k, c.value[k]))]
      present == [k \in KeysOf(e) |-> k \in DOMAIN raw]
  IN [cfg |-> c, scope |-> s, value |-> value, saved |-> value,
      present |-> present, was |-> present, confirmed |-> FALSE]

\* The fields of e, among those of all, are loaded from scope s, with configuration c.
Load(fields, e, c, s) ==
  /\ ed' = [fields EXCEPT ![e] = buildFields(e, c, s)]
  /\ stirred' = stirred \ {e}
  /\ stale' = IF c = LoadConfig(file, environ) THEN stale \ {e} ELSE stale \cup {e}

Init ==
  /\ file \in StartFiles
  /\ environ \in Environs
  /\ cfg = LoadConfig(file, environ)
  /\ cfgErr = FALSE
  /\ asked = 0 /\ ready = {}
  /\ screen = "hub"
  /\ ed = [e \in Editors |-> Closed]
  /\ save = Saved /\ writers = 0
  /\ warned = FALSE
  /\ stirred = {} /\ stale = {}
  /\ outrun = FALSE
  /\ foreign = {}
-----------------------------------------------------------------------------
(* Keys.  A save is one call of Update: no key comes before its end. *)

Pressed(e) == screen = e /\ save = Saved

OpenSettings ==
  /\ Pressed("hub")
  /\ screen' = "settings"
  /\ Load(ed, "settings", cfg, "global")
  /\ warned' = FALSE
  /\ UNCHANGED <<file, environ, cfgVars, save, writers, outrun, foreign>>

\* From the first row of Settings, which keeps its fields.
OpenPackages ==
  /\ Pressed("settings")
  /\ screen' = "packages"
  /\ Load([ed EXCEPT !.settings.confirmed = FALSE], "packages", cfg, "global")
  /\ warned' = FALSE
  /\ UNCHANGED <<file, environ, cfgVars, save, writers, outrun, foreign>>

\* A field is given a value, or is no longer to be in the file.
Put(e, k, v, there) ==
  /\ Cardinality(AllChanged \ {k}) < MaxChanged
  /\ ed' = [ed EXCEPT ![e].value[k] = v, ![e].present[k] = there, ![e].confirmed = FALSE]
  /\ warned' = FALSE
  /\ UNCHANGED <<file, environ, cfgVars, screen, save, writers, stirred, stale, outrun, foreign>>

\* toggleBoolField: on and off or, in a project, inherited, on and off.
Toggle(k) ==
  LET f == ed.settings IN
  /\ Pressed("settings")
  /\ k \in BoolKeys
  /\ \/ /\ f.scope = "global"
        /\ Put("settings", k, IF f.value[k] = <<"true">> THEN <<"false">> ELSE <<"true">>, TRUE)
     \/ /\ f.scope = "project"
        /\ \/ ~f.present[k] /\ Put("settings", k, <<"true">>, TRUE)
           \/ f.present[k] /\ f.value[k] = <<"true">> /\ Put("settings", k, <<"false">>, TRUE)
           \/ f.present[k] /\ f.value[k] # <<"true">> /\ Put("settings", k, f.value[k], FALSE)

Type(k) ==
  /\ Pressed("settings")
  /\ k \in KeysOf("settings") \ BoolKeys
  /\ \E v \in Typed[k] : Put("settings", k, v, TRUE)

\* Those already in the list are passed over.
AddPackages ==
  LET pkgs == ed.packages.value[Pkgs] IN
  /\ Pressed("packages")
  /\ \E v \in Typed[Pkgs] :
       LET words == splitPackages(v)
           added == Selected(words, {i \in DOMAIN words : words[i] \notin ToSet(pkgs)})
       IN added # <<>> /\ Put("packages", Pkgs, pkgs \o added, TRUE)

DeletePackage ==
  LET pkgs == ed.packages.value[Pkgs] IN
  /\ Pressed("packages")
  /\ \E i \in DOMAIN pkgs : Put("packages", Pkgs, RemoveAt(pkgs, i), TRUE)

\* The value stays on the screen.
ClearOverride(e, k) ==
  /\ Pressed(e)
  /\ ed[e].scope = "project"
  /\ ed[e].present[k]
  /\ Put(e, k, ed[e].value[k], FALSE)

\* Any other key, such as the cursor's: the next esc is refused again.
OtherKey(e) ==
  /\ Pressed(e)
  /\ ed[e].confirmed
  /\ ed' = [ed EXCEPT ![e].confirmed = FALSE]
  /\ warned' = FALSE
  /\ UNCHANGED <<file, environ, cfgVars, screen, save, writers, stirred, stale, outrun, foreign>>

Revert(e) ==
  /\ Pressed(e)
  /\ Dirty(e)
  /\ ed' = [ed EXCEPT ![e].value = ed[e].saved, ![e].present = ed[e].was,
                      ![e].confirmed = FALSE]
  /\ warned' = FALSE
  /\ UNCHANGED <<file, environ, cfgVars, screen, save, writers, stirred, stale, outrun, foreign>>

\* Fault: whatever was changed.
ToggleScopeAnyway(e) ==
  /\ Pressed(e)
  /\ Load(ed, e, ed[e].cfg, IF ed[e].scope = "global" THEN "project" ELSE "global")
  /\ warned' = FALSE
  /\ UNCHANGED <<file, environ, cfgVars, screen, save, writers, outrun, foreign>>

\* Not while there are changes.  The configuration is the editor's own.
ToggleScope(e) ==
  /\ Pressed(e)
  /\ ~Dirty(e)
  /\ Load(ed, e, ed[e].cfg, IF ed[e].scope = "global" THEN "project" ELSE "global")
  /\ warned' = FALSE
  /\ UNCHANGED <<file, environ, cfgVars, screen, save, writers, outrun, foreign>>

\* Fault: esc on Packages leads out of Settings, too.
EscToHub(e) ==
  /\ Pressed(e)
  /\ ~Dirty(e) \/ ed[e].confirmed
  /\ ed' = [ed EXCEPT ![e] = Closed]
  /\ screen' = "hub"
  /\ warned' = FALSE
  /\ stirred' = stirred \ {e} /\ stale' = stale \ {e}
  /\ UNCHANGED <<file, environ, cfgVars, save, writers, outrun, foreign>>

\* The first esc is refused while there are changes.
Esc(e) ==
  /\ Pressed(e)
  /\ \/ /\ Dirty(e) /\ ~ed[e].confirmed
        /\ ed' = [ed EXCEPT ![e].confirmed = TRUE]
        /\ warned' = TRUE
        /\ UNCHANGED <<screen, stirred, stale>>
     \/ /\ ~Dirty(e) \/ ed[e].confirmed
        /\ ed' = [ed EXCEPT ![e] = Closed]
        /\ screen' = IF e = "packages" THEN "settings" ELSE "hub"
        /\ warned' = FALSE
        /\ stirred' = stirred \ {e} /\ stale' = stale \ {e}
  /\ UNCHANGED <<file, environ, cfgVars, save, writers, outrun, foreign>>
-----------------------------------------------------------------------------
(* Saving *)

Scope(e)  == ed[e].scope

\* Fault: all that is there is written.
AllPresent(e) == {k \in KeysOf(e) : ed[e].present[k]}

Setting(e)  == {k \in Changed(e) : ed[e].present[k]}
Clearing(e) == {k \in Changed(e) : ~ed[e].present[k]}

Step(step, lines) == save' = [step |-> step, lines |-> lines]

\* WriteEnvTemplates: those of the files ss that are not there are made.
Made(ss) ==
  [s \in DOMAIN file |-> IF s \in ss /\ ~file[s].there THEN File(Template(s)) ELSE file[s]]

\* Before the global file is written, it and the agents' files are made if they are
\* not there, or one cannot be, and the save ends.
Save(e) ==
  /\ Pressed(e)
  /\ Dirty(e)
  /\ asked + Cardinality(ready) < MaxReloads
  /\ writers < MaxWriters
  /\ writers' = writers + 1
  /\ ed' = [ed EXCEPT ![e].confirmed = FALSE]
  /\ warned' = FALSE
  /\ \/ /\ file' = IF Scope(e) = "global" THEN Made({"global", "own"}) ELSE file
        /\ Step(IF Setting(e) # {} THEN "set" ELSE "unset", <<>>)
        /\ foreign' = {o \in foreign : ~(o[1] = Scope(e) /\ o[2] \in Changed(e))}
     \/ /\ Scope(e) = "global"
        /\ \/ ~file.global.there /\ UNCHANGED file
           \/ ~file.own.there /\ file' = Made({"global"})
        /\ UNCHANGED <<save, foreign>>
  /\ UNCHANGED <<environ, cfgVars, screen, stirred, stale, outrun>>

\* Fault: the changes count as saved.
FailQuietly ==
  /\ save' = Saved
  /\ ed' = [ed EXCEPT ![screen].saved = ed[screen].value, ![screen].was = ed[screen].present]
  /\ UNCHANGED <<asked, stale, outrun>>

\* The end of a save that failed: the editor says so and keeps its changes.
Fail == save' = Saved /\ UNCHANGED <<ed, asked, stale, outrun>>

\* The end of a save: the fields are as saved, the configuration is to be loaded.
Finish(e) ==
  /\ save' = Saved
  /\ ed' = [ed EXCEPT ![e].saved = ed[e].value, ![e].was = ed[e].present]
  /\ asked' = asked + 1
  /\ stale' = {d \in Editors : Open(d)}
  /\ outrun' = (asked > 0 \/ ready # {})

SaveSteps(e, step) == screen = e /\ save.step = step /\ UNCHANGED
  <<environ, cfg, cfgErr, ready, screen, writers, warned, foreign>>

\* SetEnvValues up to its writing: a value that has no way to be written ends it.
SetRead(e) ==
  /\ SaveSteps(e, "set")
  /\ LET values == [k \in Setting(e) |-> Written(k, ed[e].value[k])]
     IN IF \A k \in Setting(e) : Quotable(values[k])
        THEN /\ Step("setWrite", SetEnvValues(readEnvLines(file[Scope(e)]), values))
             /\ UNCHANGED <<ed, asked, stale, outrun>>
        ELSE Fail
  /\ UNCHANGED <<file, stirred>>

SetWrite(e) ==
  /\ SaveSteps(e, "setWrite")
  /\ \/ /\ file' = [file EXCEPT ![Scope(e)] = File(save.lines)]
        /\ \/ Clearing(e) = {} /\ Finish(e)
           \/ Clearing(e) # {} /\ Step("unset", <<>>) /\ UNCHANGED <<ed, asked, stale, outrun>>
     \/ Fail /\ UNCHANGED file
  /\ UNCHANGED stirred

\* UnsetEnvValues: without a file, there is nothing to do.
UnsetRead(e) ==
  /\ SaveSteps(e, "unset")
  /\ IF ~file[Scope(e)].there
     THEN Finish(e)
     ELSE /\ Step("unsetWrite", UnsetEnvValues(readEnvLines(file[Scope(e)]), Clearing(e)))
          /\ UNCHANGED <<ed, asked, stale, outrun>>
  /\ UNCHANGED <<file, stirred>>

\* When this fails, what was set stays set and nothing is loaded again.
UnsetWrite(e) ==
  /\ SaveSteps(e, "unsetWrite")
  /\ \/ /\ file' = [file EXCEPT ![Scope(e)] = File(save.lines)]
        /\ Finish(e)
        /\ UNCHANGED stirred
     \/ /\ save' = Saved
        /\ outrun' = (outrun \/ Setting(e) # {})
        /\ stirred' = IF Setting(e) # {} THEN stirred \cup {e} ELSE stirred
        /\ stale' = IF Setting(e) # {} THEN {d \in Editors : Open(d)} ELSE stale
        /\ UNCHANGED <<file, ed, asked>>

Saving(e) == SetRead(e) \/ SetWrite(e) \/ UnsetRead(e) \/ UnsetWrite(e)
-----------------------------------------------------------------------------
(* Reloading *)

LoadAgain ==
  /\ asked > 0
  /\ asked' = asked - 1
  /\ ready' = ready \cup {LoadConfig(file, environ)}
  /\ UNCHANGED <<file, environ, cfg, cfgErr, screen, ed, save, writers, history>>

LoadFails ==
  /\ asked > 0
  /\ save = Saved
  /\ asked' = asked - 1
  /\ cfgErr' = TRUE
  /\ UNCHANGED <<file, environ, cfg, ready, screen, ed, save, writers, history>>

\* The interface takes it, the editors keep theirs.
ConfigReloaded ==
  /\ save = Saved
  /\ \E c \in ready : cfg' = c /\ ready' = ready \ {c}
  /\ cfgErr' = FALSE
  /\ UNCHANGED <<file, environ, asked, screen, ed, save, writers, history>>

\* Another process sets a key.  What it wrote is to stand, in place of what others
\* wrote for that key before, if it counts, and no save has read the file and not
\* written it yet, or is about to set that key.
OtherProcess ==
  /\ writers < MaxWriters
  /\ writers' = writers + 1
  /\ \E o \in Others :
       LET lines == SetEnvValues(readEnvLines(file[o[1]]), [k \in {o[2]} |-> o[3]])
           inSave == /\ save # Saved /\ Scope(screen) = o[1]
                     /\ \/ save.step \in {"setWrite", "unsetWrite"}
                        \/ o[2] \in Changed(screen)
           counts == ~inSave /\ parseEnvFile(lines)[o[2]] = o[3]
       IN /\ file' = [file EXCEPT ![o[1]] = File(lines)]
          /\ foreign' = {p \in foreign : p[1] # o[1] \/ p[2] # o[2]}
                        \cup IF counts THEN {o} ELSE {}
          /\ stirred' = stirred \cup {e \in Editors : Open(e) /\ Scope(e) = o[1]}
  /\ stale' = {e \in Editors : Open(e)}
  /\ outrun' = TRUE
  /\ UNCHANGED <<environ, cfgVars, screen, ed, save, warned>>
-----------------------------------------------------------------------------
Key ==
  \/ OpenSettings \/ OpenPackages \/ AddPackages \/ DeletePackage
  \/ \E k \in JailKeys : Toggle(k) \/ Type(k)
  \/ \E e \in Editors :
       \/ \E k \in KeysOf(e) : ClearOverride(e, k)
       \/ OtherKey(e) \/ Revert(e) \/ ToggleScope(e) \/ Esc(e) \/ Save(e)

Next ==
  \/ Key
  \/ \E e \in Editors : Saving(e)
  \/ LoadAgain \/ LoadFails \/ ConfigReloaded
  \/ OtherProcess

Spec == Init /\ [][Next]_vars
-----------------------------------------------------------------------------
TypeOK ==
  /\ DOMAIN file = {"global", "own", "project"} /\ \A s \in DOMAIN file : IsFile(file[s])
  /\ cfg.overridden \subseteq JailKeys /\ DOMAIN cfg.value = Keys
  /\ {cfgErr, warned, outrun} \subseteq BOOLEAN
  /\ asked + Cardinality(ready) <= MaxReloads /\ writers <= MaxWriters
  /\ screen \in Editors \cup {"hub"}
  /\ screen = "hub" <=> \A e \in Editors : ~Open(e)
  /\ screen = "packages" <=> Open("packages")
  /\ \A e \in Editors : Open(e) =>
       /\ DOMAIN ed[e].value = KeysOf(e) /\ DOMAIN ed[e].saved = KeysOf(e)
       /\ ed[e].present \in [KeysOf(e) -> BOOLEAN] /\ ed[e].was \in [KeysOf(e) -> BOOLEAN]
       /\ Scope(e) \in Scopes
  /\ {stirred, stale} \subseteq SUBSET {e \in Editors : Open(e)}
  /\ save = Saved \/ (screen # "hub" /\ Dirty(screen))
  /\ foreign \subseteq Others

\* A file that assigns a key more than once is beyond SetEnvValues, which changes the
\* first assignment where parseEnvFile takes the last.
Once(s, k) == Cardinality(At(readEnvLines(file[s]), "active", k)) <= 1

\* What an editor shows as saved is what its file says: the value, in its quotes and
\* out of them, of a key that is there, and no value of one that is not.  A key
\* that is not there is shown, until something is saved, with the value it has.
ShowsFile ==
  save = Saved => \A e \in Editors : (Open(e) /\ e \notin stirred) =>
    \A k \in KeysOf(e) \ Changed(e) :
      IF ed[e].present[k]
      THEN Once(Scope(e), k) => /\ k \in DOMAIN Raw(Scope(e))
                                /\ Shown(k, Raw(Scope(e))[k]) = ed[e].value[k]
      ELSE /\ k \notin DOMAIN Raw(Scope(e))
           /\ e \notin stale => ed[e].value[k] = Shown(k, Show(k, Resolved(file, environ, k)))

\* When all reloads have come back without an error, the interface has the
\* configuration of the files, each key by the highest layer that has it, unless they
\* changed behind it: by another process, in a save that failed half way, or while
\* an earlier reload was under way.
ConfigFollowsFiles ==
  (save = Saved /\ asked = 0 /\ ready = {} /\ ~cfgErr /\ ~outrun) =>
    /\ \A k \in Keys : cfg.value[k] = Resolved(file, environ, k)
    /\ cfg.overridden = JailKeys \cap DOMAIN Raw("project")

\* What another process wrote stays until the user changes the same key in the same
\* scope: a save writes the file as it is then, with the changed keys only.  (What
\* falls between the reading and the writing of a save is lost.)
OthersKept == \A o \in foreign : o[2] \in DOMAIN Raw(o[1]) /\ Raw(o[1])[o[2]] = o[3]

\* Changes that were not saved are given up only by u, or by a second esc in a row.
NoSilentLoss ==
  [][\A e \in Editors : (Open(e) /\ Dirty(e)) =>
       \/ ed'[e] # Closed /\ ed'[e].scope = ed[e].scope
       \/ warned]_vars
=============================================================================
