---------------------------- MODULE BuildProofs ----------------------------
(***************************************************************************)
(* Proofs about Build, for every number of processes, configurations and   *)
(* scripts, and every bound on the edits.                                  *)
(*                                                                         *)
(* HonestTags is not inductive: that the files docker reads are still the  *)
(* ones the holder of the lock wrote has to be carried from step to step   *)
(* (OwnFiles), and that nobody else is writing follows from who may be at  *)
(* which step (LockDiscipline).                                            *)
(***************************************************************************)
EXTENDS Build, TLAPS

\* The steps of a build, in their order.
BuildSteps == {"write", "name", "send", "tag"}

LockDiscipline ==
  \A p \in Procs :
    /\ lock = p => Kind(p) \in {"run", "shell"} /\ pc[p] \in {"recheck", "confirm", "copy"} \cup BuildSteps
    /\ pc[p] \in {"recheck", "confirm"} => lock = p
    /\ Kind(p) \in {"rebuild", "dockerfile"} =>
         pc[p] \in {"remove", "copy", "done", "died", "killed"} \cup BuildSteps
    /\ Kind(p) = "dockerfile" => pc[p] # "remove"
    /\ unlocked = {} /\ pc[p] = "copy" => lock = p \/ Kind(p) = "dockerfile"
    /\ unlocked = {} /\ pc[p] \in BuildSteps => lock = p

\* What each step has left for the next exists.
Prepared ==
  \A p \in Procs :
    /\ pc[p] \in {"name", "send"} => dockerfile \in Dockerfiles
    /\ pc[p] \in {"send", "tag"} => ref[p] \in Tags
    /\ pc[p] = "tag" => context[p] \in Tags

OwnFiles ==
  unlocked = {} => \A p \in Procs :
    /\ pc[p] \in {"name", "send"} => dockerfile.config = Config(p)
    /\ pc[p] \in {"send", "tag"} => ref[p].config = Config(p)
    /\ pc[p] = "tag" => context[p].config = Config(p)
    /\ edits = 0 =>
         /\ pc[p] \in {"write", "name", "send"} => copied = script
         /\ pc[p] \in {"name", "send"} => (dockerfile.copies = {}) <=> (copied = NoScript)
         /\ pc[p] \in {"send", "tag"} => ref[p].script = script
         /\ pc[p] = "tag" => context[p].script = script

BuildInv == TypeOK /\ LockDiscipline /\ Prepared /\ OwnFiles /\ HonestTags

\* Every state BuildsOnlyMissing speaks of, and the prompt before them.
MissingInv ==
  \A p \in Procs :
    unlocked = {} /\ edits = 0 /\ lock = p /\ pc[p] \in {"confirm", "copy"} \cup BuildSteps
      => ~Exists(Tag(p))
-----------------------------------------------------------------------------
\* The initial states satisfy the invariant: no build has begun, and the
\* images there are were named honestly.
LEMMA InitBuildInv == Init => BuildInv /\ MissingInv
<1> SUFFICES ASSUME Init PROVE BuildInv /\ MissingInv
  OBVIOUS
<1> USE BuildAssumption DEF Init, Kind
<1>1. TypeOK
  BY DEF TypeOK, Tasks, Tags, ScriptStates, Ended
<1>2. LockDiscipline /\ Prepared /\ OwnFiles
  BY DEF LockDiscipline, Prepared, OwnFiles, BuildSteps, Tasks
<1>3. HonestTags
  BY DEF HonestTags, Exists
<1>4. MissingInv
  BY DEF MissingInv
<1>5. QED
  BY <1>1, <1>2, <1>3, <1>4 DEF BuildInv

\* ImageRef computes a tag.
LEMMA TagIsTag == TypeOK => \A p \in Procs : Tag(p) \in Tags /\ Tag(p).config = Config(p)
  BY BuildAssumption DEF TypeOK, Tag, Tags, Config, Tasks

\* What the docker build of a ready process reads is content for an image.
LEMMA ContextIsContent ==
  ASSUME TypeOK, dockerfile \in Dockerfiles
  PROVE  [config |-> dockerfile.config,
          script |-> IF dockerfile.copies = {} THEN NoScript ELSE copied] \in Tags
  BY DEF TypeOK, Tags, Dockerfiles, ScriptStates

\* The Dockerfile a process writes is one.
LEMMA WritesDockerfile ==
  ASSUME TypeOK, NEW p \in Procs
  PROVE  [config |-> Config(p), copies |-> IF copied = NoScript THEN {} ELSE {"init.sh"}] \in Dockerfiles
  BY BuildAssumption DEF TypeOK, Dockerfiles, Config, Tasks

\* Every step keeps every variable in its range.
LEMMA TypePreserved == BuildInv /\ [Next]_vars => TypeOK'
<1> SUFFICES ASSUME BuildInv, [Next]_vars PROVE TypeOK'
  OBVIOUS
<1> USE BuildAssumption, TagIsTag DEF BuildInv, TypeOK, Prepared, ScriptStates, Ended, Exists,
          vars, ownVars, userVars, fileVars
<1>1. ASSUME NEW p \in Procs, CheckImage(p) PROVE TypeOK'
  BY <1>1 DEF CheckImage, Goes, AfterImage
<1>2. ASSUME NEW p \in Procs, Lock(p) PROVE TypeOK'
  BY <1>2 DEF Lock, Goes
<1>3. ASSUME NEW p \in Procs, Recheck(p) PROVE TypeOK'
  BY <1>3 DEF Recheck, Goes, AfterImage, Unlock
<1>4. ASSUME NEW p \in Procs, Confirm(p) PROVE TypeOK'
  BY <1>4 DEF Confirm, Goes, Unlock
<1>5. ASSUME NEW p \in Procs, CopyScript(p) PROVE TypeOK'
  BY <1>5 DEF CopyScript, Goes, BuildFails, Unlock
<1>6. ASSUME NEW p \in Procs, WriteDockerfile(p) PROVE TypeOK'
  BY <1>6, WritesDockerfile DEF WriteDockerfile, Goes, BuildFails, Unlock
<1>7. ASSUME NEW p \in Procs, NameImage(p) PROVE TypeOK'
  BY <1>7 DEF NameImage, Goes
<1>8. ASSUME NEW p \in Procs, SendContext(p) PROVE TypeOK'
  BY <1>8, ContextIsContent DEF SendContext, Goes, BuildFails, Unlock
<1>9. ASSUME NEW p \in Procs, TagImage(p) PROVE TypeOK'
  BY <1>9 DEF TagImage, Goes, BuildFails, Unlock, AfterBuild, AfterImage
<1>10. ASSUME NEW p \in Procs, CheckForUpdate(p) PROVE TypeOK'
  BY <1>10 DEF CheckForUpdate, Goes
<1>11. ASSUME NEW p \in Procs, RemoveImage(p) PROVE TypeOK'
  BY <1>11 DEF RemoveImage, Goes
<1>12. ASSUME NEW p \in Procs, Launch(p) PROVE TypeOK'
  BY <1>12 DEF Launch, Goes
<1>13. ASSUME NEW p \in Procs, Kill(p) PROVE TypeOK'
  BY <1>13 DEF Kill, Ended, Unlock
<1>14. CASE EditScript
  BY <1>14 DEF EditScript
<1>15. CASE UNCHANGED vars
  BY <1>15
<1>16. QED
  BY <1>1, <1>2, <1>3, <1>4, <1>5, <1>6, <1>7, <1>8, <1>9, <1>10, <1>11, <1>12, <1>13, <1>14,
     <1>15 DEF Next, Step

\* Nobody comes to build without the lock but by the ways that are counted.
LEMMA DisciplinePreserved == BuildInv /\ [Next]_vars => LockDiscipline'
<1> SUFFICES ASSUME BuildInv, [Next]_vars PROVE LockDiscipline'
  OBVIOUS
<1> USE BuildAssumption DEF BuildInv, TypeOK, LockDiscipline, BuildSteps, Kind, Tasks, vars,
          ownVars, userVars, fileVars
<1>1. ASSUME NEW p \in Procs, CheckImage(p) PROVE LockDiscipline'
  BY <1>1 DEF CheckImage, Goes, AfterImage
<1>2. ASSUME NEW p \in Procs, Lock(p) PROVE LockDiscipline'
  BY <1>2 DEF Lock, Goes
<1>3. ASSUME NEW p \in Procs, Recheck(p) PROVE LockDiscipline'
  BY <1>3 DEF Recheck, Goes, AfterImage, Unlock
<1>4. ASSUME NEW p \in Procs, Confirm(p) PROVE LockDiscipline'
  BY <1>4 DEF Confirm, Goes, Unlock
<1>5. ASSUME NEW p \in Procs, CopyScript(p) PROVE LockDiscipline'
  BY <1>5 DEF CopyScript, Goes, BuildFails, Unlock
<1>6. ASSUME NEW p \in Procs, WriteDockerfile(p) PROVE LockDiscipline'
  BY <1>6 DEF WriteDockerfile, Goes, BuildFails, Unlock
<1>7. ASSUME NEW p \in Procs, NameImage(p) PROVE LockDiscipline'
  BY <1>7 DEF NameImage, Goes
<1>8. ASSUME NEW p \in Procs, SendContext(p) PROVE LockDiscipline'
  BY <1>8 DEF SendContext, Goes, BuildFails, Unlock
<1>9. ASSUME NEW p \in Procs, TagImage(p) PROVE LockDiscipline'
  BY <1>9 DEF TagImage, Goes, BuildFails, Unlock, AfterBuild, AfterImage
<1>10. ASSUME NEW p \in Procs, CheckForUpdate(p) PROVE LockDiscipline'
  BY <1>10 DEF CheckForUpdate, Goes
<1>11. ASSUME NEW p \in Procs, RemoveImage(p) PROVE LockDiscipline'
  BY <1>11 DEF RemoveImage, Goes
<1>12. ASSUME NEW p \in Procs, Launch(p) PROVE LockDiscipline'
  BY <1>12 DEF Launch, Goes
<1>13. ASSUME NEW p \in Procs, Kill(p) PROVE LockDiscipline'
  BY <1>13 DEF Kill, Ended, Unlock
<1>14. CASE EditScript
  BY <1>14 DEF EditScript
<1>15. CASE UNCHANGED vars
  BY <1>15
<1>16. QED
  BY <1>1, <1>2, <1>3, <1>4, <1>5, <1>6, <1>7, <1>8, <1>9, <1>10, <1>11, <1>12, <1>13, <1>14,
     <1>15 DEF Next, Step

\* The files and names a build needs are there when it needs them.
LEMMA PreparedPreserved == BuildInv /\ [Next]_vars => Prepared'
<1> SUFFICES ASSUME BuildInv, [Next]_vars PROVE Prepared'
  OBVIOUS
<1> USE BuildAssumption DEF BuildInv, TypeOK, Prepared, Config, Kind, Tasks, Tags, Dockerfiles,
          ScriptStates, Tag, vars, ownVars, userVars, fileVars
<1>1. ASSUME NEW p \in Procs, CheckImage(p) PROVE Prepared'
  BY <1>1 DEF CheckImage, Goes, AfterImage
<1>2. ASSUME NEW p \in Procs, Lock(p) PROVE Prepared'
  BY <1>2 DEF Lock, Goes
<1>3. ASSUME NEW p \in Procs, Recheck(p) PROVE Prepared'
  BY <1>3 DEF Recheck, Goes, AfterImage, Unlock
<1>4. ASSUME NEW p \in Procs, Confirm(p) PROVE Prepared'
  BY <1>4 DEF Confirm, Goes, Unlock
<1>5. ASSUME NEW p \in Procs, CopyScript(p) PROVE Prepared'
  BY <1>5 DEF CopyScript, Goes, BuildFails, Unlock
<1>6. ASSUME NEW p \in Procs, WriteDockerfile(p) PROVE Prepared'
  BY <1>6 DEF WriteDockerfile, Goes, BuildFails, Unlock
<1>7. ASSUME NEW p \in Procs, NameImage(p) PROVE Prepared'
  BY <1>7 DEF NameImage, Goes
<1>8. ASSUME NEW p \in Procs, SendContext(p) PROVE Prepared'
  BY <1>8 DEF SendContext, Goes, BuildFails, Unlock
<1>9. ASSUME NEW p \in Procs, TagImage(p) PROVE Prepared'
  BY <1>9 DEF TagImage, Goes, BuildFails, Unlock, AfterBuild, AfterImage
<1>10. ASSUME NEW p \in Procs, CheckForUpdate(p) PROVE Prepared'
  BY <1>10 DEF CheckForUpdate, Goes
<1>11. ASSUME NEW p \in Procs, RemoveImage(p) PROVE Prepared'
  BY <1>11 DEF RemoveImage, Goes
<1>12. ASSUME NEW p \in Procs, Launch(p) PROVE Prepared'
  BY <1>12 DEF Launch, Goes
<1>13. ASSUME NEW p \in Procs, Kill(p) PROVE Prepared'
  BY <1>13 DEF Kill, Ended, Unlock
<1>14. CASE EditScript
  BY <1>14 DEF EditScript
<1>15. CASE UNCHANGED vars
  BY <1>15
<1>16. QED
  BY <1>1, <1>2, <1>3, <1>4, <1>5, <1>6, <1>7, <1>8, <1>9, <1>10, <1>11, <1>12, <1>13, <1>14,
     <1>15 DEF Next, Step

\* While every builder has the lock, the files on disk are its own.
LEMMA FilesPreserved == BuildInv /\ [Next]_vars => OwnFiles'
<1> SUFFICES ASSUME BuildInv, [Next]_vars PROVE OwnFiles'
  OBVIOUS
<1> USE BuildAssumption DEF BuildInv, TypeOK, LockDiscipline, Prepared, OwnFiles, BuildSteps,
          Config, Kind, Tags, Dockerfiles, ScriptStates, Tag, vars, ownVars, userVars, fileVars
<1>1. ASSUME NEW p \in Procs, CheckImage(p) PROVE OwnFiles'
  BY <1>1 DEF CheckImage, Goes, AfterImage
<1>2. ASSUME NEW p \in Procs, Lock(p) PROVE OwnFiles'
  BY <1>2 DEF Lock, Goes
<1>3. ASSUME NEW p \in Procs, Recheck(p) PROVE OwnFiles'
  BY <1>3 DEF Recheck, Goes, AfterImage, Unlock
<1>4. ASSUME NEW p \in Procs, Confirm(p) PROVE OwnFiles'
  BY <1>4 DEF Confirm, Goes, Unlock
<1>5. ASSUME NEW p \in Procs, CopyScript(p) PROVE OwnFiles'
  BY <1>5 DEF CopyScript, Goes, BuildFails, Unlock
<1>6. ASSUME NEW p \in Procs, WriteDockerfile(p) PROVE OwnFiles'
  <2> USE DEF WriteDockerfile, Goes
  <2>1. CASE BuildFails(p, "write") /\ dockerfile' = dockerfile
    BY <1>6, <2>1 DEF BuildFails, Unlock
  <2>2. CASE dockerfile' = [config |-> Config(p), copies |-> IF copied = NoScript THEN {} ELSE {"init.sh"}]
    <3>1. dockerfile'.config = Config(p) /\ ((dockerfile'.copies = {}) <=> (copied = NoScript))
      BY <2>2
    <3>2. unlocked = {} => \A q \in Procs : pc[q] \in BuildSteps => q = p
      BY <1>6 DEF BuildFails
    <3>3. QED
      BY <1>6, <3>1, <3>2 DEF BuildFails, Unlock
  <2>3. QED
    BY <1>6, <2>1, <2>2
<1>7. ASSUME NEW p \in Procs, NameImage(p) PROVE OwnFiles'
  BY <1>7 DEF NameImage, Goes
<1>8. ASSUME NEW p \in Procs, SendContext(p) PROVE OwnFiles'
  BY <1>8 DEF SendContext, Goes, BuildFails, Unlock
<1>9. ASSUME NEW p \in Procs, TagImage(p) PROVE OwnFiles'
  BY <1>9 DEF TagImage, Goes, BuildFails, Unlock, AfterBuild, AfterImage
<1>10. ASSUME NEW p \in Procs, CheckForUpdate(p) PROVE OwnFiles'
  BY <1>10 DEF CheckForUpdate, Goes
<1>11. ASSUME NEW p \in Procs, RemoveImage(p) PROVE OwnFiles'
  BY <1>11 DEF RemoveImage, Goes
<1>12. ASSUME NEW p \in Procs, Launch(p) PROVE OwnFiles'
  BY <1>12 DEF Launch, Goes
<1>13. ASSUME NEW p \in Procs, Kill(p) PROVE OwnFiles'
  BY <1>13 DEF Kill, Ended, Unlock
<1>14. CASE EditScript
  BY <1>14 DEF EditScript
<1>15. CASE UNCHANGED vars
  BY <1>15
<1>16. QED
  BY <1>1, <1>2, <1>3, <1>4, <1>5, <1>6, <1>7, <1>8, <1>9, <1>10, <1>11, <1>12, <1>13, <1>14,
     <1>15 DEF Next, Step

\* A finished build puts under its tag what the tag is the hash of.
LEMMA HonestyPreserved == BuildInv /\ [Next]_vars => HonestTags'
<1> SUFFICES ASSUME BuildInv, [Next]_vars PROVE HonestTags'
  OBVIOUS
<1> USE BuildAssumption DEF BuildInv, TypeOK, LockDiscipline, Prepared, OwnFiles, HonestTags,
          BuildSteps, Config, Kind, Tags, Exists, vars, ownVars, userVars, fileVars
<1>1. ASSUME NEW p \in Procs, CheckImage(p) PROVE HonestTags'
  BY <1>1 DEF CheckImage, Goes, AfterImage
<1>2. ASSUME NEW p \in Procs, Lock(p) PROVE HonestTags'
  BY <1>2 DEF Lock, Goes
<1>3. ASSUME NEW p \in Procs, Recheck(p) PROVE HonestTags'
  BY <1>3 DEF Recheck, Goes, AfterImage, Unlock
<1>4. ASSUME NEW p \in Procs, Confirm(p) PROVE HonestTags'
  BY <1>4 DEF Confirm, Goes, Unlock
<1>5. ASSUME NEW p \in Procs, CopyScript(p) PROVE HonestTags'
  BY <1>5 DEF CopyScript, Goes, BuildFails, Unlock
<1>6. ASSUME NEW p \in Procs, WriteDockerfile(p) PROVE HonestTags'
  BY <1>6 DEF WriteDockerfile, Goes, BuildFails, Unlock
<1>7. ASSUME NEW p \in Procs, NameImage(p) PROVE HonestTags'
  BY <1>7 DEF NameImage, Goes
<1>8. ASSUME NEW p \in Procs, SendContext(p) PROVE HonestTags'
  BY <1>8 DEF SendContext, Goes, BuildFails, Unlock
<1>9. ASSUME NEW p \in Procs, TagImage(p) PROVE HonestTags'
  BY <1>9 DEF TagImage, Goes, BuildFails, Unlock, AfterBuild, AfterImage
<1>10. ASSUME NEW p \in Procs, CheckForUpdate(p) PROVE HonestTags'
  BY <1>10 DEF CheckForUpdate, Goes
<1>11. ASSUME NEW p \in Procs, RemoveImage(p) PROVE HonestTags'
  BY <1>11 DEF RemoveImage, Goes
<1>12. ASSUME NEW p \in Procs, Launch(p) PROVE HonestTags'
  BY <1>12 DEF Launch, Goes
<1>13. ASSUME NEW p \in Procs, Kill(p) PROVE HonestTags'
  BY <1>13 DEF Kill, Ended, Unlock
<1>14. CASE EditScript
  BY <1>14 DEF EditScript
<1>15. CASE UNCHANGED vars
  BY <1>15
<1>16. QED
  BY <1>1, <1>2, <1>3, <1>4, <1>5, <1>6, <1>7, <1>8, <1>9, <1>10, <1>11, <1>12, <1>13, <1>14,
     <1>15 DEF Next, Step

\* No image appears under a tag while the holder of the lock is building it.
LEMMA MissingPreserved == BuildInv /\ MissingInv /\ [Next]_vars => MissingInv'
<1> SUFFICES ASSUME BuildInv, MissingInv, [Next]_vars PROVE MissingInv'
  OBVIOUS
<1> USE BuildAssumption DEF BuildInv, MissingInv, TypeOK, LockDiscipline, BuildSteps, Config,
          Kind, Tag, Exists, Tags, ScriptStates, vars, ownVars, userVars, fileVars
<1>1. ASSUME NEW p \in Procs, CheckImage(p) PROVE MissingInv'
  BY <1>1 DEF CheckImage, Goes, AfterImage
<1>2. ASSUME NEW p \in Procs, Lock(p) PROVE MissingInv'
  BY <1>2 DEF Lock, Goes
<1>3. ASSUME NEW p \in Procs, Recheck(p) PROVE MissingInv'
  BY <1>3 DEF Recheck, Goes, AfterImage, Unlock
<1>4. ASSUME NEW p \in Procs, Confirm(p) PROVE MissingInv'
  BY <1>4 DEF Confirm, Goes, Unlock
<1>5. ASSUME NEW p \in Procs, CopyScript(p) PROVE MissingInv'
  BY <1>5 DEF CopyScript, Goes, BuildFails, Unlock
<1>6. ASSUME NEW p \in Procs, WriteDockerfile(p) PROVE MissingInv'
  BY <1>6 DEF WriteDockerfile, Goes, BuildFails, Unlock
<1>7. ASSUME NEW p \in Procs, NameImage(p) PROVE MissingInv'
  BY <1>7 DEF NameImage, Goes
<1>8. ASSUME NEW p \in Procs, SendContext(p) PROVE MissingInv'
  BY <1>8 DEF SendContext, Goes, BuildFails, Unlock
<1>9. ASSUME NEW p \in Procs, TagImage(p) PROVE MissingInv'
  BY <1>9 DEF TagImage, Goes, BuildFails, Unlock, AfterBuild, AfterImage
<1>10. ASSUME NEW p \in Procs, CheckForUpdate(p) PROVE MissingInv'
  BY <1>10 DEF CheckForUpdate, Goes
<1>11. ASSUME NEW p \in Procs, RemoveImage(p) PROVE MissingInv'
  BY <1>11 DEF RemoveImage, Goes
<1>12. ASSUME NEW p \in Procs, Launch(p) PROVE MissingInv'
  BY <1>12 DEF Launch, Goes
<1>13. ASSUME NEW p \in Procs, Kill(p) PROVE MissingInv'
  BY <1>13 DEF Kill, Ended, Unlock
<1>14. CASE EditScript
  BY <1>14 DEF EditScript
<1>15. CASE UNCHANGED vars
  BY <1>15
<1>16. QED
  BY <1>1, <1>2, <1>3, <1>4, <1>5, <1>6, <1>7, <1>8, <1>9, <1>10, <1>11, <1>12, <1>13, <1>14,
     <1>15 DEF Next, Step

-----------------------------------------------------------------------------
\* Every reachable state satisfies the inductive invariant.
THEOREM BuildInvariant == Spec => [](BuildInv /\ MissingInv)
<1>1. BuildInv /\ MissingInv /\ [Next]_vars => (BuildInv /\ MissingInv)'
  BY TypePreserved, DisciplinePreserved, PreparedPreserved, FilesPreserved, HonestyPreserved,
     MissingPreserved DEF BuildInv
<1>2. QED
  BY InitBuildInv, <1>1, PTL DEF Spec

\* Every variable stays in its range.
THEOREM TypeCorrect == Spec => []TypeOK
<1>1. BuildInv => TypeOK
  BY DEF BuildInv
<1>2. QED
  BY BuildInvariant, <1>1, PTL

\* While every build goes through EnsureImage, a tag names an image of the
\* configuration, and with init.sh left alone of the script, it is the hash of.
THEOREM TagsStayHonest == Spec => []HonestTags
<1>1. BuildInv => HonestTags
  BY DEF BuildInv
<1>2. QED
  BY BuildInvariant, <1>1, PTL

\* The re-check under the lock suffices: EnsureImage never builds what is there.
THEOREM OnlyMissingBuilt == Spec => []BuildsOnlyMissing
<1>1. MissingInv => BuildsOnlyMissing
  BY DEF MissingInv, BuildsOnlyMissing, BuildSteps
<1>2. QED
  BY BuildInvariant, <1>1, PTL
=============================================================================
