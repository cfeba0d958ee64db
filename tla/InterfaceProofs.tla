--------------------------- MODULE InterfaceProofs ---------------------------
(***************************************************************************)
(* Proofs about Interface, for any number of directories and of commands   *)
(* under way.                                                              *)
(***************************************************************************)
EXTENDS Interface, TLAPS

\* What is under way for a user who waits: a reload of the directory shown, and
\* image states of the configuration shown; and what such a user edits is the
\* directory's.
UpToDate ==
  /\ \A d \in Dirs : reloads[d] > 0 => d = dir
  /\ cfg = dir \/ cfgErr \/ \E d \in Dirs : reloads[d] > 0
  /\ \A c \in Configs : infos[c] > 0 => c = cfg
  /\ docker = "ok" /\ cfg # None => badge = cfg \/ infos[cfg] > 0
  /\ \A e \in Editors : screen = e \/ (e = "settings" /\ screen = "packages") => editor[e] = dir

InterfaceInv == TypeOK /\ (misplaced => hasty) /\ (hasty \/ UpToDate)

\* Commands under way are counted: one more, and one less.
Counts(S) == [S -> 0..MaxPending]

LEMMA Posted ==
  ASSUME NEW S, NEW f \in Counts(S), NEW x \in S, f[x] < MaxPending
  PROVE  /\ [f EXCEPT ![x] = f[x] + 1] \in Counts(S) /\ [f EXCEPT ![x] = f[x] + 1][x] > 0
         /\ \A y \in S \ {x} : [f EXCEPT ![x] = f[x] + 1][y] = f[y]
<1>1. MaxPending \in Nat /\ f[x] \in 0..MaxPending
  BY InterfaceAssumption DEF InterfaceAssumption, Counts
<1>2. f[x] + 1 \in 0..MaxPending /\ f[x] + 1 > 0
  BY <1>1
<1> QED  BY <1>2 DEF Counts

LEMMA Taken ==
  ASSUME NEW S, NEW f \in Counts(S), NEW x \in S, f[x] > 0
  PROVE  /\ [f EXCEPT ![x] = f[x] - 1] \in Counts(S)
         /\ \A y \in S : [f EXCEPT ![x] = f[x] - 1][y] > 0 => f[y] > 0
<1>1. MaxPending \in Nat /\ f[x] \in 0..MaxPending
  BY InterfaceAssumption DEF InterfaceAssumption, Counts
<1>2. f[x] - 1 \in 0..MaxPending
  BY <1>1
<1> QED  BY <1>2 DEF Counts

LEMMA QuietIs ==
  ASSUME NEW S, NEW f \in Counts(S)
  PROVE  Quiet(f) <=> \A x \in S : ~(f[x] > 0)
<1>1. \A x \in S : f[x] \in Nat
  BY InterfaceAssumption DEF InterfaceAssumption, Counts
<1>2. DOMAIN f = S
  BY DEF Counts
<1> QED  BY <1>1, <1>2 DEF Quiet

LEMMA InterfaceStart == Init => InterfaceInv
<1> SUFFICES ASSUME Init PROVE InterfaceInv
  OBVIOUS
<1>1. 0 \in 0..MaxPending
  BY InterfaceAssumption DEF InterfaceAssumption
<1>2. /\ chosen \in [Dirs -> 0..MaxPending] /\ reloads \in [Dirs -> 0..MaxPending]
      /\ infos \in [Configs -> 0..MaxPending] /\ infos[None] = 0
      /\ editor \in [Editors -> Configs]
      /\ \A d \in Dirs : reloads[d] = 0
      /\ \A c \in Configs : infos[c] = 0
  BY <1>1 DEF Init, Configs
<1>3. TypeOK
  BY <1>2, InterfaceAssumption DEF InterfaceAssumption, Init, TypeOK, Configs
<1>4. UpToDate
  BY <1>2 DEF Init, UpToDate, Editors
<1> QED  BY <1>3, <1>4 DEF Init, InterfaceInv

\* Reading the images of a configuration.
LEMMA ImagesRead ==
  ASSUME infos \in Counts(Configs), infos[None] = 0, NEW c \in Configs, ReadImages(c)
  PROVE  /\ infos' \in Counts(Configs) /\ infos'[None] = 0
         /\ c # None => infos'[c] > 0
         /\ \A d \in Configs \ {c} : infos'[d] = infos[d]
<1>1. CASE c = None
  BY <1>1 DEF ReadImages
<1>2. CASE c # None
  <2>1. infos[c] < MaxPending /\ infos' = [infos EXCEPT ![c] = @ + 1]
    BY <1>2 DEF ReadImages, Post
  <2>2. infos' \in Counts(Configs) /\ infos'[c] > 0 /\ \A d \in Configs \ {c} : infos'[d] = infos[d]
    <3>1. PICK f \in Counts(Configs) : f = infos
      OBVIOUS
    <3>2. f[c] < MaxPending
      BY <2>1, <3>1
    <3>3. /\ [f EXCEPT ![c] = f[c] + 1] \in Counts(Configs) /\ [f EXCEPT ![c] = f[c] + 1][c] > 0
          /\ \A y \in Configs \ {c} : [f EXCEPT ![c] = f[c] + 1][y] = f[y]
      BY <3>2, Posted
    <3>4. infos' = [f EXCEPT ![c] = f[c] + 1]
      BY <2>1, <3>1
    <3> QED  BY <3>1, <3>3, <3>4
  <2> QED  BY <1>2, <2>2 DEF Configs
<1> QED  BY <1>1, <1>2

\* Starting a reload, or a choice, and receiving a result.
LEMMA Messages ==
  ASSUME reloads \in Counts(Dirs), chosen \in Counts(Dirs), infos \in Counts(Configs), NEW d \in Dirs
  PROVE  /\ Post(reloads, d) =>
              /\ reloads' \in Counts(Dirs) /\ reloads'[d] > 0
              /\ \A e \in Dirs \ {d} : reloads'[e] = reloads[e]
         /\ Take(reloads, d) =>
              reloads' \in Counts(Dirs) /\ reloads[d] > 0 /\ \A e \in Dirs : reloads'[e] > 0 => reloads[e] > 0
         /\ Post(chosen, d) \/ Take(chosen, d) => chosen' \in Counts(Dirs)
         /\ Take(infos, d) =>
              /\ infos' \in Counts(Configs) /\ infos[d] > 0
              /\ \A c \in Configs : infos'[c] > 0 => infos[c] > 0
              /\ \A c \in Configs \ {d} : infos'[c] = infos[c]
<1>1. d \in Configs
  BY DEF Configs
<1>2. ASSUME NEW f \in Counts(Dirs), f[d] < MaxPending
      PROVE  /\ [f EXCEPT ![d] = f[d] + 1] \in Counts(Dirs) /\ [f EXCEPT ![d] = f[d] + 1][d] > 0
             /\ \A y \in Dirs \ {d} : [f EXCEPT ![d] = f[d] + 1][y] = f[y]
  BY <1>2, Posted
<1>3. ASSUME NEW f \in Counts(Dirs), f[d] > 0
      PROVE  /\ [f EXCEPT ![d] = f[d] - 1] \in Counts(Dirs)
             /\ \A y \in Dirs : [f EXCEPT ![d] = f[d] - 1][y] > 0 => f[y] > 0
  BY <1>3, Taken
<1>4. ASSUME Take(infos, d)
      PROVE  /\ infos' \in Counts(Configs) /\ infos[d] > 0
             /\ \A c \in Configs : infos'[c] > 0 => infos[c] > 0
             /\ \A c \in Configs \ {d} : infos'[c] = infos[c]
  <2>1. PICK f \in Counts(Configs) : f = infos
    OBVIOUS
  <2>2. f[d] > 0 /\ infos' = [f EXCEPT ![d] = f[d] - 1]
    BY <1>4, <2>1 DEF Take
  <2>3. /\ [f EXCEPT ![d] = f[d] - 1] \in Counts(Configs)
        /\ \A y \in Configs : [f EXCEPT ![d] = f[d] - 1][y] > 0 => f[y] > 0
    BY <1>1, <2>2, Taken
  <2>4. \A c \in Configs \ {d} : infos'[c] = infos[c]
    BY <2>1, <2>2 DEF Counts
  <2> QED  BY <2>1, <2>2, <2>3, <2>4
<1>5. Post(reloads, d) =>
              /\ reloads' \in Counts(Dirs) /\ reloads'[d] > 0
              /\ \A e \in Dirs \ {d} : reloads'[e] = reloads[e]
  BY <1>2 DEF Post
<1>6. Take(reloads, d) =>
         reloads' \in Counts(Dirs) /\ reloads[d] > 0 /\ \A e \in Dirs : reloads'[e] > 0 => reloads[e] > 0
  BY <1>3 DEF Take
<1>7. Post(chosen, d) \/ Take(chosen, d) => chosen' \in Counts(Dirs)
  BY <1>2, <1>3 DEF Post, Take
<1> QED  BY <1>4, <1>5, <1>6, <1>7

\* A result, or a key, keeps what a user who waits can rely on.
LEMMA InterfaceKeeps ==
  ASSUME InterfaceInv, Next
  PROVE  InterfaceInv'
<1> USE DEF editVars, imgVars
<1>1. /\ dir \in Dirs /\ cfg \in Configs /\ badge \in Configs
      /\ screen \in Editors \cup {"hub", "picker", "artifacts", "quit"}
      /\ cfgErr \in BOOLEAN /\ working \in BOOLEAN /\ hasty \in BOOLEAN /\ misplaced \in BOOLEAN
      /\ docker \in {"unchecked", "ok", "down"} /\ editor \in [Editors -> Configs]
      /\ chosen \in Counts(Dirs) /\ reloads \in Counts(Dirs)
      /\ infos \in Counts(Configs) /\ infos[None] = 0
      /\ (misplaced => hasty) /\ (hasty \/ UpToDate)
  BY DEF InterfaceInv, TypeOK, Counts
<1>2. Dirs \subseteq Configs /\ None \in Configs
  BY DEF Configs
<1>3. /\ Quiet(reloads) => \A d \in Dirs : ~(reloads[d] > 0)
      /\ Quiet(infos) => \A c \in Configs : ~(infos[c] > 0)
  BY <1>1, QuietIs
<1>4. CASE DockerChecked
  <2>1. /\ UNCHANGED <<screen, dir, cfg, cfgErr, editor, misplaced, badge, working, chosen, reloads, hasty>>
        /\ docker' \in {"down", "ok"}
        /\ \/ docker' = "down" /\ UNCHANGED infos
           \/ docker' = "ok" /\ ReadImages(cfg)
    BY <1>4 DEF DockerChecked
  <2>2. /\ infos' \in Counts(Configs) /\ infos'[None] = 0
        /\ docker' = "ok" /\ cfg # None => infos'[cfg] > 0
        /\ \A d \in Configs \ {cfg} : infos'[d] = infos[d]
    <3>1. ASSUME ReadImages(cfg)
          PROVE  /\ infos' \in Counts(Configs) /\ infos'[None] = 0
                 /\ cfg # None => infos'[cfg] > 0
                 /\ \A d \in Configs \ {cfg} : infos'[d] = infos[d]
      <4>1. PICK c \in Configs : c = cfg
        BY <1>1
      <4>2. ReadImages(c)
        BY <3>1, <4>1 DEF ReadImages, Post
      <4>3. /\ infos' \in Counts(Configs) /\ infos'[None] = 0
            /\ c # None => infos'[c] > 0
            /\ \A d \in Configs \ {c} : infos'[d] = infos[d]
        BY <1>1, <4>2, ImagesRead
      <4> QED  BY <4>1, <4>3
    <3> QED  BY <1>1, <2>1, <3>1
  <2> QED  BY <1>1, <2>1, <2>2 DEF InterfaceInv, TypeOK, UpToDate, Counts
<1>5. ASSUME NEW d \in Dirs, ImageInfo(d) PROVE InterfaceInv'
  <2>1. /\ UNCHANGED <<screen, dir, cfg, cfgErr, editor, misplaced, docker, working, chosen, reloads, hasty>>
        /\ badge' = d
    BY <1>5 DEF ImageInfo
  <2>2. /\ infos' \in Counts(Configs) /\ infos[d] > 0
        /\ \A c \in Configs : infos'[c] > 0 => infos[c] > 0
        /\ \A c \in Configs \ {d} : infos'[c] = infos[c]
    BY <1>1, <1>5, Messages DEF ImageInfo
  <2>3. d # None
    BY <1>1, <2>2 DEF Counts
  <2> QED  BY <1>1, <1>2, <2>1, <2>2, <2>3 DEF InterfaceInv, TypeOK, UpToDate, Counts
<1>6. ASSUME NEW d \in Dirs, DirChosen(d) PROVE InterfaceInv'
  <2>1. /\ UNCHANGED <<cfg, cfgErr, editor, misplaced, docker, badge, infos, working>>
        /\ dir' = d /\ screen' = "hub" /\ hasty' \in BOOLEAN
        /\ ~hasty' => ~hasty /\ Quiet(reloads)
    BY <1>1, <1>6 DEF DirChosen
  <2>2. /\ chosen' \in Counts(Dirs) /\ reloads' \in Counts(Dirs)
        /\ reloads'[d] > 0 /\ \A e \in Dirs \ {d} : reloads'[e] = reloads[e]
    BY <1>1, <1>6, Messages DEF DirChosen
  <2> QED  BY <1>1, <1>2, <1>3, <2>1, <2>2 DEF InterfaceInv, TypeOK, UpToDate, Counts, Editors
<1>7. ASSUME NEW d \in Dirs, ReloadFailed(d) PROVE InterfaceInv'
  <2>1. /\ UNCHANGED <<screen, dir, cfg, editor, misplaced, docker, badge, infos, working, chosen, hasty>>
        /\ cfgErr' = TRUE
    BY <1>7 DEF ReloadFailed
  <2>2. reloads' \in Counts(Dirs) /\ \A e \in Dirs : reloads'[e] > 0 => reloads[e] > 0
    BY <1>1, <1>7, Messages DEF ReloadFailed
  <2> QED  BY <1>1, <2>1, <2>2 DEF InterfaceInv, TypeOK, UpToDate, Counts
\* The one step that changes the configuration: its images are read again.
<1>8. ASSUME NEW d \in Dirs, ConfigReloaded(d) PROVE InterfaceInv'
  <2>1. /\ UNCHANGED <<screen, dir, editor, misplaced, docker, badge, working, chosen>>
        /\ cfg' = d /\ cfgErr' = FALSE /\ hasty' \in BOOLEAN
        /\ ~hasty' => ~hasty /\ Quiet(infos)
        /\ \/ docker = "down" /\ UNCHANGED infos
           \/ docker # "down" /\ ReadImages(d)
    BY <1>1, <1>8 DEF ConfigReloaded
  <2>2. /\ reloads' \in Counts(Dirs) /\ reloads[d] > 0
        /\ \A e \in Dirs : reloads'[e] > 0 => reloads[e] > 0
    BY <1>1, <1>8, Messages DEF ConfigReloaded
  <2>3. /\ infos' \in Counts(Configs) /\ infos'[None] = 0
        /\ docker # "down" /\ d # None => infos'[d] > 0
        /\ \A c \in Configs \ {d} : infos'[c] = infos[c]
    BY <1>1, <1>2, <2>1, ImagesRead
  <2>4. TypeOK'
    BY <1>1, <1>2, <2>1, <2>2, <2>3 DEF TypeOK, Counts
  <2>5. ~hasty' => UpToDate'
    <3> SUFFICES ASSUME ~hasty' PROVE UpToDate'
      OBVIOUS
    <3>1. d = dir /\ \A e \in Dirs : reloads'[e] > 0 => e = dir
      BY <1>1, <2>1, <2>2 DEF UpToDate
    <3>2. \A c \in Configs : infos'[c] > 0 => c = d
      BY <1>3, <2>1, <2>3
    <3>3. docker # "down" /\ d # None => infos'[d] > 0
      BY <2>3
    <3> QED  BY <1>1, <2>1, <3>1, <3>2, <3>3 DEF UpToDate
  <2> QED  BY <1>1, <2>1, <2>4, <2>5 DEF InterfaceInv
<1>9. CASE ArtifactsRemoved
  <2>1. /\ UNCHANGED <<screen, dir, cfg, cfgErr, editor, misplaced, docker, badge, chosen, reloads, hasty>>
        /\ working' = FALSE /\ (UNCHANGED infos \/ ReadImages(cfg))
    BY <1>9 DEF ArtifactsRemoved
  <2>2. /\ infos' \in Counts(Configs) /\ infos'[None] = 0
        /\ infos[cfg] > 0 => infos'[cfg] > 0
        /\ \A c \in Configs \ {cfg} : infos'[c] = infos[c]
    <3>1. ASSUME ReadImages(cfg)
          PROVE  /\ infos' \in Counts(Configs) /\ infos'[None] = 0
                 /\ cfg # None => infos'[cfg] > 0
                 /\ \A d \in Configs \ {cfg} : infos'[d] = infos[d]
      <4>1. PICK c \in Configs : c = cfg
        BY <1>1
      <4>2. ReadImages(c)
        BY <3>1, <4>1 DEF ReadImages, Post
      <4>3. /\ infos' \in Counts(Configs) /\ infos'[None] = 0
            /\ c # None => infos'[c] > 0
            /\ \A d \in Configs \ {c} : infos'[d] = infos[d]
        BY <1>1, <4>2, ImagesRead
      <4> QED  BY <4>1, <4>3
    <3> QED  BY <1>1, <2>1, <3>1
  <2> QED  BY <1>1, <2>1, <2>2 DEF InterfaceInv, TypeOK, UpToDate, Counts
<1>a. CASE OpenScreen \/ RemoveArtifacts \/ Quit
  <2>1. /\ UNCHANGED <<dir, cfg, cfgErr, editor, misplaced, docker, badge, infos, chosen, reloads, hasty>>
        /\ working' \in BOOLEAN /\ screen' \in {"picker", "artifacts", "quit"}
    BY <1>1, <1>a DEF OpenScreen, RemoveArtifacts, Quit
  <2> QED  BY <1>1, <2>1 DEF InterfaceInv, TypeOK, UpToDate, Counts, Editors
<1>b. ASSUME NEW d \in Dirs, Choose(d) PROVE InterfaceInv'
  <2>1. /\ UNCHANGED <<screen, dir, cfg, cfgErr, editor, misplaced, docker, badge, infos, working, reloads, hasty>>
        /\ chosen' \in Counts(Dirs)
    BY <1>1, <1>b, Messages DEF Choose
  <2> QED  BY <1>1, <2>1 DEF InterfaceInv, TypeOK, UpToDate, Counts
\* An editor is given the configuration of a user who waited: the directory's.
<1>c. ASSUME NEW e \in Editors, NEW from \in {"hub", "settings"}, OpenEditor(e, from),
             e = "packages" <=> from = "settings"
      PROVE  InterfaceInv'
  <2>1. /\ UNCHANGED <<dir, cfg, cfgErr, misplaced, docker, badge, infos, working, chosen, reloads>>
        /\ screen = from /\ screen' = e /\ editor' = [editor EXCEPT ![e] = cfg] /\ hasty' \in BOOLEAN
        /\ ~hasty' => ~hasty /\ Quiet(reloads) /\ ~cfgErr
    BY <1>1, <1>c DEF OpenEditor, CaughtUp
  <2>2. TypeOK'
    BY <1>1, <2>1 DEF TypeOK, Counts
  <2>3. ~hasty' => UpToDate'
    <3> SUFFICES ASSUME ~hasty' PROVE UpToDate'
      OBVIOUS
    <3>1. UpToDate /\ cfg = dir
      BY <1>1, <1>3, <2>1 DEF UpToDate
    <3>2. \A f \in Editors : screen' = f \/ (f = "settings" /\ screen' = "packages") => editor'[f] = dir
      BY <1>1, <1>c, <2>1, <3>1 DEF UpToDate, Editors
    <3> QED  BY <2>1, <3>1, <3>2 DEF UpToDate
  <2> QED  BY <1>1, <2>1, <2>2, <2>3 DEF InterfaceInv
\* A save is of what the editor was given, and loads that directory again.
<1>d. ASSUME NEW e \in Editors, NEW ofProject \in BOOLEAN, Save(e, ofProject) PROVE InterfaceInv'
  <2>1. /\ UNCHANGED <<screen, dir, cfg, cfgErr, editor, docker, badge, infos, working, chosen>>
        /\ screen = e /\ editor[e] \in Dirs /\ hasty' \in BOOLEAN /\ misplaced' \in BOOLEAN
        /\ Post(reloads, editor[e])
        /\ misplaced' => misplaced \/ editor[e] # dir
        /\ ~hasty' => ~hasty
        /\ hasty => hasty'
    BY <1>1, <1>d DEF Save, Configs
  <2>2. /\ reloads' \in Counts(Dirs) /\ reloads'[editor[e]] > 0
        /\ \A d \in Dirs \ {editor[e]} : reloads'[d] = reloads[d]
    BY <1>1, <2>1, Messages
  <2>3. ~hasty' => editor[e] = dir
    BY <1>1, <2>1 DEF UpToDate
  <2>4. TypeOK'
    BY <1>1, <2>1, <2>2 DEF TypeOK, Counts
  <2>5. ~hasty' => UpToDate'
    BY <1>1, <2>1, <2>2, <2>3 DEF UpToDate
  <2> QED  BY <1>1, <2>1, <2>3, <2>4, <2>5 DEF InterfaceInv
<1>e. CASE Back
  <2>1. /\ UNCHANGED <<dir, cfg, cfgErr, misplaced, docker, badge, infos, working, chosen, reloads, hasty>>
        /\ screen' = IF screen = "packages" THEN "settings" ELSE "hub"
        /\ editor' = [e \in Editors |-> IF e = screen THEN None ELSE editor[e]]
    BY <1>e DEF Back
  <2>2. editor' \in [Editors -> Configs]
    BY <1>1, <1>2, <2>1
  <2>3. UpToDate => UpToDate'
    BY <1>1, <2>1 DEF UpToDate, Editors
  <2> QED  BY <1>1, <2>1, <2>2, <2>3 DEF InterfaceInv, TypeOK, Counts, Editors
<1> QED  BY <1>4, <1>5, <1>6, <1>7, <1>8, <1>9, <1>a, <1>b, <1>c, <1>d, <1>e
         DEF Next, Result, Key, OpenSettings, OpenPackages, OpenModelList, SaveSettings,
             SavePackages, SelectModel, Editors

LEMMA InterfaceStep == InterfaceInv /\ [Next]_vars => InterfaceInv'
<1> SUFFICES ASSUME InterfaceInv, [Next]_vars PROVE InterfaceInv'
  OBVIOUS
<1>1. CASE Next
  BY <1>1, InterfaceKeeps
<1>2. CASE UNCHANGED vars
  BY <1>2 DEF vars, editVars, imgVars, InterfaceInv, TypeOK, UpToDate
<1> QED  BY <1>1, <1>2

\* What a user who waits can rely on is kept by every key and every result, in
\* whatever order results come.
THEOREM InterfaceInvariant == Spec => []InterfaceInv
BY InterfaceStart, InterfaceStep, PTL DEF Spec

\* Types, and that no image's state is asked for without a configuration.
THEOREM TypeCorrect == Spec => []TypeOK
<1>1. InterfaceInv => TypeOK
  BY DEF InterfaceInv
<1> QED  BY <1>1, InterfaceInvariant, PTL

\* A user who waits finds the configuration and the badges of the directory
\* shown, and saves that project's settings.
THEOREM DirectoryIsShown == Spec => []ShowsDirectory
<1>1. InterfaceInv => ShowsDirectory
  <2> SUFFICES ASSUME InterfaceInv PROVE ShowsDirectory
    OBVIOUS
  <2>1. /\ Quiet(reloads) => \A d \in Dirs : ~(reloads[d] > 0)
        /\ Quiet(infos) => \A c \in Configs : ~(infos[c] > 0)
    BY QuietIs DEF InterfaceInv, TypeOK, Counts
  <2>2. cfg \in Configs
    BY DEF InterfaceInv, TypeOK
  <2> QED  BY <2>1, <2>2 DEF InterfaceInv, UpToDate, ShowsDirectory, CaughtUp
<1> QED  BY <1>1, InterfaceInvariant, PTL
=============================================================================
