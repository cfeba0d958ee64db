-------------------------------- MODULE Build --------------------------------
(***************************************************************************)
(* How one agent's images come to be: EnsureImage with its per-agent lock, *)
(* and the commands that build or prepare a build without that lock:       *)
(* CheckForUpdate before a run, rebuild, and dockerfile.  All of them      *)
(* write the same files under BuildDir before docker reads them, and name  *)
(* the image by a hash of the configuration and of init.sh as it is on     *)
(* disk when the hash is taken.                                            *)
(*                                                                         *)
(* The agent CLI's version inside the image is left out: it is not part of *)
(* the name.  start.sh is treated as init.sh is, and not modelled apart.   *)
(*                                                                         *)
(* Definitions marked "Fault" are not part of the specification: each is   *)
(* the definition after it with a mistake a change to the code could make, *)
(* kept to show that the properties below notice it.                       *)
(***************************************************************************)
EXTENDS Naturals, FiniteSets

CONSTANTS
  Procs,     \* invocations of smith-jail, all for one agent
  Configs,   \* effective settings: base image, packages, root and sudo
  Scripts,   \* contents init.sh may have
  NoScript,  \* there is no init.sh
  Requests,  \* what the invocations may be asked for: a task for each
  Free,      \* nobody holds the lock
  NoImage,   \* no image has the tag
  Nothing,   \* what a process has before it has anything
  MaxEdits   \* bound: how often the user changes init.sh

Tasks == [kind : {"run", "shell", "rebuild", "dockerfile"}, config : Configs]

ScriptStates == Scripts \cup {NoScript}

\* What goes into an image, and what its tag is the hash of.
Tags == [config : Configs, script : ScriptStates]

\* A Dockerfile: the settings it was generated for, and the scripts it has a
\* section for, that copies and runs them.
Dockerfiles == [config : Configs, copies : SUBSET {"init.sh"}]

ASSUME BuildAssumption ==
  /\ Requests \subseteq [Procs -> Tasks]
  /\ Free \notin Procs
  /\ NoScript \notin Scripts
  /\ NoImage \notin Tags
  /\ Nothing \notin Tags
  /\ MaxEdits \in Nat

VARIABLES
  task,        \* what each process was asked for
  pc,          \* the step it takes next
  ref,         \* the tag it passed to docker build
  context,     \* the content docker build has read for it
  got,         \* the content of the image its container was started from
  lock,        \* the holder of the flock on <agent>.build.lock
  script,      \* init.sh in the user's configuration directory
  copied,      \* BuildDir/<agent>-init.sh
  dockerfile,  \* BuildDir/<agent>-Dockerfile
  images,      \* what each tag names
  edits,       \* how often init.sh was changed so far
  unlocked     \* history: processes that went to build by a way without the lock

ownVars  == <<ref, context, got>>
fileVars == <<copied, dockerfile>>
userVars == <<script, edits>>
vars == <<task, pc, ownVars, lock, userVars, fileVars, images, unlocked>>
-----------------------------------------------------------------------------
Config(p) == task[p].config
Kind(p)   == task[p].kind

\* ImageRef: BuildHash reads init.sh each time it is asked.
Tag(p) == [config |-> Config(p), script |-> script]

Exists(t) == images[t] # NoImage

Init ==
  /\ task \in Requests
  /\ pc = [p \in Procs |-> CASE Kind(p) \in {"run", "shell"} -> "check"
                             [] Kind(p) = "rebuild" -> "remove"
                             [] OTHER -> "copy"]
  /\ ref = [p \in Procs |-> Nothing]
  /\ context = [p \in Procs |-> Nothing]
  /\ got = [p \in Procs |-> Nothing]
  /\ lock = Free
  /\ script \in ScriptStates
  /\ copied = NoScript
  /\ dockerfile = Nothing
  /\ \E S \in SUBSET Tags : images = [t \in Tags |-> IF t \in S THEN t ELSE NoImage]
  /\ edits = 0
  /\ unlocked = {}

Goes(p, from, to) == pc[p] = from /\ pc' = [pc EXCEPT ![p] = to]

\* EnsureImage's deferred unlock; a no-op for who never locked.
Unlock(p) == lock' = IF lock = p THEN Free ELSE lock

\* Where a process with its image goes: only run looks for an update.
AfterImage(p) == IF Kind(p) = "run" THEN "update" ELSE "launch"
-----------------------------------------------------------------------------
(* EnsureImage *)

CheckImage(p) ==
  /\ Goes(p, "check", IF Exists(Tag(p)) THEN AfterImage(p) ELSE "lock") \/ Goes(p, "check", "died")
  /\ UNCHANGED <<task, ownVars, lock, userVars, fileVars, images, unlocked>>

\* Fault: LOCK_NB, with its error dropped.
TryLock(p) ==
  /\ Goes(p, "lock", "recheck")
  /\ lock' = IF lock = Free THEN p ELSE lock
  /\ UNCHANGED <<task, ownVars, userVars, fileVars, images, unlocked>>

\* acquireBuildLock waits for as long as it takes, unless it fails.
Lock(p) ==
  /\ \/ lock = Free /\ Goes(p, "lock", "recheck") /\ lock' = p
     \/ Goes(p, "lock", "died") /\ lock' = lock
  /\ UNCHANGED <<task, ownVars, userVars, fileVars, images, unlocked>>

\* Fault: what was missing before the wait is built after it.
RecheckNothing(p) ==
  /\ Goes(p, "recheck", "confirm")
  /\ UNCHANGED <<task, ownVars, lock, userVars, fileVars, images, unlocked>>

\* The image may have been built while this process waited.
Recheck(p) ==
  /\ \/ Exists(Tag(p)) /\ Goes(p, "recheck", AfterImage(p)) /\ Unlock(p)
     \/ ~Exists(Tag(p)) /\ Goes(p, "recheck", "confirm") /\ lock' = lock
     \/ Goes(p, "recheck", "died") /\ Unlock(p)
  /\ UNCHANGED <<task, ownVars, userVars, fileVars, images, unlocked>>

\* The prompt is answered with the lock held.
Confirm(p) ==
  /\ \/ Goes(p, "confirm", "copy") /\ lock' = lock
     \/ Goes(p, "confirm", "done") /\ Unlock(p)
  /\ UNCHANGED <<task, ownVars, userVars, fileVars, images, unlocked>>
-----------------------------------------------------------------------------
(* BuildImage, for all of its callers, and WriteBuildContext *)

\* A failed build: EnsureImage and rebuild die of it, an update carries on
\* with whatever image there is, and it ends the dockerfile command.
BuildFails(p, from) ==
  /\ Goes(p, from, IF Kind(p) = "run" /\ lock # p THEN "launch" ELSE "died")
  /\ Unlock(p)

\* WriteBuildContext copies init.sh, or removes an earlier copy.
CopyScript(p) ==
  /\ unlocked' = unlocked \cup (IF Kind(p) = "dockerfile" THEN {p} ELSE {})
  /\ \/ Goes(p, "copy", "write") /\ copied' = script /\ lock' = lock
     \/ BuildFails(p, "copy") /\ copied' = copied
  /\ UNCHANGED <<task, ownVars, userVars, dockerfile, images>>

\* Then the Dockerfile: generateDockerfile looks for the copy, not for the
\* script it was made from.
WriteDockerfile(p) ==
  /\ \/ /\ Goes(p, "write", IF Kind(p) = "dockerfile" THEN "done" ELSE "name")
        /\ dockerfile' = [config |-> Config(p), copies |-> IF copied = NoScript THEN {} ELSE {"init.sh"}]
        /\ lock' = lock
     \/ BuildFails(p, "write") /\ dockerfile' = dockerfile
  /\ UNCHANGED <<task, ownVars, userVars, copied, images, unlocked>>

\* The tag is computed now, and passed to docker build.
NameImage(p) ==
  /\ Goes(p, "name", "send")
  /\ ref' = [ref EXCEPT ![p] = Tag(p)]
  /\ UNCHANGED <<task, context, got, lock, userVars, fileVars, images, unlocked>>

\* docker build reads the Dockerfile and its context: the files as they are.
SendContext(p) ==
  /\ \/ /\ Goes(p, "send", "tag")
        /\ dockerfile.copies # {} => copied # NoScript
        /\ context' = [context EXCEPT ![p] =
             [config |-> dockerfile.config, script |-> IF dockerfile.copies = {} THEN NoScript ELSE copied]]
        /\ lock' = lock
     \/ BuildFails(p, "send") /\ context' = context
  /\ UNCHANGED <<task, ref, got, userVars, fileVars, images, unlocked>>

\* Where a successful build leaves its process.
AfterBuild(p) ==
  CASE lock = p -> AfterImage(p)
    [] lock # p /\ Kind(p) = "run" -> "launch"
    [] OTHER -> "done"

\* Fault: the lock is let go when the process exits.
TagImageKeepLock(p) ==
  /\ Goes(p, "tag", AfterBuild(p))
  /\ images' = [images EXCEPT ![ref[p]] = context[p]]
  /\ UNCHANGED <<task, ownVars, lock, userVars, fileVars, unlocked>>

\* The layers are built: the tag moves to the new image.
TagImage(p) ==
  /\ \/ /\ Goes(p, "tag", AfterBuild(p)) /\ Unlock(p)
        /\ images' = [images EXCEPT ![ref[p]] = context[p]]
     \/ BuildFails(p, "tag") /\ images' = images
  /\ UNCHANGED <<task, ownVars, userVars, fileVars, unlocked>>
-----------------------------------------------------------------------------
(* CheckForUpdate, cmdRebuild, and the container *)

\* InstalledVersion asks the image; an update is found and approved, or not.
CheckForUpdate(p) ==
  /\ Goes(p, "update", "launch") \/ (Exists(Tag(p)) /\ Goes(p, "update", "remove"))
  /\ UNCHANGED <<task, ownVars, lock, userVars, fileVars, images, unlocked>>

\* RemoveImage drops docker's error.  A rebuild may be declined instead.
RemoveImage(p) ==
  /\ \/ /\ Goes(p, "remove", "copy")
        /\ images' = [images EXCEPT ![Tag(p)] = NoImage] \/ images' = images
        /\ unlocked' = unlocked \cup {p}
     \/ Kind(p) = "rebuild" /\ Goes(p, "remove", "done") /\ UNCHANGED <<images, unlocked>>
  /\ UNCHANGED <<task, ownVars, lock, userVars, fileVars>>

\* Fault: docker run is taken to find the image EnsureImage saw.
LaunchUnchecked(p) ==
  /\ Goes(p, "launch", "running")
  /\ got' = [got EXCEPT ![p] = images[Tag(p)]]
  /\ UNCHANGED <<task, ref, context, lock, userVars, fileVars, images, unlocked>>

\* docker run; without the image there is nothing to run.
Launch(p) ==
  /\ \/ /\ Exists(Tag(p)) /\ Goes(p, "launch", "running")
        /\ got' = [got EXCEPT ![p] = images[Tag(p)]]
     \/ Goes(p, "launch", "done") /\ got' = got
  /\ UNCHANGED <<task, ref, context, lock, userVars, fileVars, images, unlocked>>

Step(p) ==
  \/ CheckImage(p) \/ Lock(p) \/ Recheck(p) \/ Confirm(p)
  \/ CopyScript(p) \/ WriteDockerfile(p) \/ NameImage(p) \/ SendContext(p) \/ TagImage(p)
  \/ CheckForUpdate(p) \/ RemoveImage(p) \/ Launch(p)

Ended == {"done", "died", "killed"}

\* A signal, at a prompt or during a build: the kernel drops the flock.
Kill(p) ==
  /\ pc[p] \notin Ended \cup {"running"}
  /\ pc' = [pc EXCEPT ![p] = "killed"]
  /\ Unlock(p)
  /\ UNCHANGED <<task, ownVars, userVars, fileVars, images, unlocked>>

EditScript ==
  /\ edits < MaxEdits
  /\ edits' = edits + 1
  /\ script' \in ScriptStates \ {script}
  /\ UNCHANGED <<task, pc, ownVars, lock, fileVars, images, unlocked>>

Next == (\E p \in Procs : Step(p) \/ Kill(p)) \/ EditScript

Spec == Init /\ [][Next]_vars

\* A process that can take its next step takes it: builds end, prompts are
\* answered, and the kernel gives a free lock to a process waiting for it.
Fairness == \A p \in Procs : WF_vars(Step(p))

FairSpec == Spec /\ Fairness
-----------------------------------------------------------------------------
(* Properties *)

TypeOK ==
  /\ task \in Requests
  /\ pc \in [Procs -> {"check", "lock", "recheck", "confirm", "copy", "write", "name", "send", "tag",
                       "update", "remove", "launch", "running"} \cup Ended]
  /\ ref \in [Procs -> Tags \cup {Nothing}]
  /\ context \in [Procs -> Tags \cup {Nothing}]
  /\ got \in [Procs -> Tags \cup {Nothing}]
  /\ lock \in Procs \cup {Free}
  /\ script \in ScriptStates
  /\ copied \in ScriptStates
  /\ dockerfile \in Dockerfiles \cup {Nothing}
  /\ images \in [Tags -> Tags \cup {NoImage}]
  /\ edits \in 0..MaxEdits
  /\ unlocked \subseteq Procs

\* As long as every build went through EnsureImage, a tag names what it is
\* the hash of: concurrent builds of different configurations share BuildDir
\* without mixing.  Its script half further needs init.sh left alone, since
\* it is copied before the tag is computed.
HonestTags ==
  unlocked = {} => \A t \in Tags : Exists(t) =>
    /\ images[t].config = t.config
    /\ edits = 0 => images[t].script = t.script

\* EnsureImage never builds an image that is there: of two processes that
\* both found it missing, the second finds it once it has the lock.
BuildsOnlyMissing ==
  \A p \in Procs :
    unlocked = {} /\ edits = 0 /\ lock = p /\ pc[p] \in {"copy", "write", "name", "send", "tag"}
      => ~Exists(Tag(p))

\* A process that needs an image runs its agent or ends: the lock it waits
\* for is always let go, at a decline, an error, and a kill alike.
EnsureSettles == \A p \in Procs : pc[p] = "check" ~> pc[p] \in {"running"} \cup Ended

\* ImageRef's comment: "distinct configs never clobber each other".  A build
\* without the lock rewrites the Dockerfile another build is about to read.
NeverClobbered == \A t \in Tags : Exists(t) => images[t].config = t.config
=============================================================================
