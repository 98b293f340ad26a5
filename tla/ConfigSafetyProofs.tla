------------------------- MODULE ConfigSafetyProofs -------------------------
(***************************************************************************)
(* What config safety guarantees, for every set of files, resources, specs   *)
(* and ConfigMaps and every verdict of NGINX under which config files are    *)
(* self-contained: first what ConfigRollbackManager guarantees to its        *)
(* callers, then what the resources get from everything between the queue    *)
(* and NGINX.                                                                *)
(***************************************************************************)
EXTENDS ConfigSafety, FiniteSetTheorems, WellFoundedInduction, TLAPS

\* Zenon first, then SMT, each with its limit in seconds, for the leaves that name no prover.
USE ZenonT(20), SMTT(20)

-----------------------------------------------------------------------------
(* ConfigRollbackManager.                                                    *)

\* Writing a file makes a tree of a tree.
LEMMA WrittenTree ==
  ASSUME NEW tree \in Trees, NEW p \in Paths, NEW c \in Contents
  PROVE  written(tree, p, c) \in Trees
<1>1. PICK S \in SUBSET Paths : tree \in [S -> Contents]
  BY DEF Trees
<1>2. written(tree, p, c) \in [S \cup {p} -> Contents]
  BY <1>1 DEF written
<1>3. S \cup {p} \in SUBSET Paths
  OBVIOUS
<1> QED BY <1>2, <1>3 DEF Trees

\* Removing files makes a tree of a tree.
LEMMA RemovedTree ==
  ASSUME NEW tree \in Trees, NEW R
  PROVE  removed(tree, R) \in Trees
<1>1. PICK S \in SUBSET Paths : tree \in [S -> Contents]
  BY DEF Trees
<1>2. removed(tree, R) \in [S \ R -> Contents]
  BY <1>1 DEF removed
<1>3. S \ R \in SUBSET Paths
  OBVIOUS
<1> QED BY <1>2, <1>3 DEF Trees

\* A reload changes what NGINX runs with, and nothing on disk.
LEMMA ReloadOK ==
  ASSUME NEW m \in Manager
  PROVE  /\ Reload(m) \in Manager
         /\ Reload(m).files = m.files
BY DEF Reload, Manager

\* A write with rollback, of any file and content: it keeps the types, and in a
\* working tree it leaves a working tree with the same files or one more.
LEMMA RollbackOK ==
  ASSUME NEW m \in Manager, NEW p \in Paths, NEW c \in Contents
  PROVE  LET n == createConfigWithRollback(m, p, c).manager
         IN /\ n \in Manager
            /\ Accepts(m.files) /\ (p \in DOMAIN m.files \/ p \notin protectedFromDeletion)
               => Accepts(n.files) /\ DOMAIN m.files \subseteq DOMAIN n.files
<1> DEFINE new == written(m.files, p, c)
           n == createConfigWithRollback(m, p, c).manager
           hasBackup == p \in DOMAIN m.files /\ Accepts(m.files)
<1>1. m.files \in Trees
  BY DEF Manager
<1>2. new \in Trees /\ DOMAIN m.files \subseteq DOMAIN new
  BY <1>1, WrittenTree DEF written
<1>3. removed(m.files, {p}) \in Trees
  BY <1>1, RemovedTree
<1>4. \A tree \in Trees : WithFiles(m, tree) \in Manager /\ WithFiles(m, tree).files = tree
  BY DEF WithFiles, Manager
<1>5. CASE p \in DOMAIN m.files /\ m.files[p] = c
  BY <1>5 DEF createConfigWithRollback, Outcome
<1>6. CASE ~(p \in DOMAIN m.files /\ m.files[p] = c) /\ Accepts(new)
  <2>1. n = WithFiles(m, new)
    BY <1>6 DEF createConfigWithRollback, Outcome
  <2> QED BY <1>2, <1>4, <1>6, <2>1
<1>7. CASE ~(p \in DOMAIN m.files /\ m.files[p] = c) /\ ~Accepts(new) /\ hasBackup
  <2>1. n = Reload(m)
    BY <1>7 DEF createConfigWithRollback, Outcome
  <2> QED BY <1>7, <2>1, ReloadOK
<1>8. CASE ~(p \in DOMAIN m.files /\ m.files[p] = c) /\ ~Accepts(new) /\ ~hasBackup
  <2>1. n = IF p \in protectedFromDeletion
            THEN WithFiles(m, new) ELSE WithFiles(m, removed(m.files, {p}))
    BY <1>8 DEF createConfigWithRollback, Outcome
  <2>2. n \in Manager
    BY <1>2, <1>3, <1>4, <2>1
  <2>3. ASSUME Accepts(m.files), p \in DOMAIN m.files \/ p \notin protectedFromDeletion
        PROVE  Accepts(n.files) /\ DOMAIN m.files \subseteq DOMAIN n.files
    <3>1. p \notin DOMAIN m.files /\ p \notin protectedFromDeletion
      BY <1>8, <2>3
    <3>2. removed(m.files, {p}) = m.files
      BY <1>1, <3>1 DEF removed, Trees
    <3> QED BY <1>1, <1>4, <2>1, <2>3, <3>1, <3>2
  <2> QED BY <2>2, <2>3
<1> QED BY <1>5, <1>6, <1>7, <1>8

\* CreateConfig of a resource's file or of the default server keeps the types.
LEMMA CreateConfigOK ==
  ASSUME NEW m \in Manager, NEW p \in ResourceFiles \cup {DefaultServer},
         NEW c \in Contents
  PROVE  CreateConfig(m, p, c).manager \in Manager
<1>1. CASE m.batchMode
  <2>1. written(m.files, p, c) \in Trees
    BY WrittenTree DEF Manager, Paths
  <2>2. m.batchFiles \cup {p} \in SUBSET (ResourceFiles \cup {DefaultServer})
    BY DEF Manager
  <2> QED BY <1>1, <2>1, <2>2 DEF CreateConfig, batchWriteConfig, Outcome, Manager
<1>2. CASE ~m.batchMode
  BY <1>2, RollbackOK DEF CreateConfig, Paths
<1> QED BY <1>1, <1>2

\* CreateMainConfig keeps the types.
LEMMA CreateMainConfigOK ==
  ASSUME NEW m \in Manager, NEW c \in Contents
  PROVE  CreateMainConfig(m, c).manager \in Manager
<1>1. CASE m.configVersion = 0
  <2>1. written(m.files, MainConf, c) \in Trees
    BY WrittenTree DEF Manager, Paths
  <2> QED BY <1>1, <2>1 DEF CreateMainConfig, WithFiles, Outcome, Manager
<1>2. CASE m.configVersion # 0
  BY <1>2, RollbackOK DEF CreateMainConfig, Paths
<1> QED BY <1>1, <1>2

\* DeleteConfig keeps the types, and a working tree working.
LEMMA DeleteConfigOK ==
  ASSUME NEW m \in Manager, NEW p \in ResourceFiles
  PROVE  /\ DeleteConfig(m, p) \in Manager
         /\ Accepts(m.files) => Accepts(DeleteConfig(m, p).files)
<1>1. removed(m.files, {p}) \in Trees /\ m.files \in Trees
  BY RemovedTree DEF Manager
<1>2. DeleteConfig(m, p) \in Manager /\ DeleteConfig(m, p).files = removed(m.files, {p})
  BY <1>1 DEF DeleteConfig, WithFiles, Manager
<1>3. Accepts(m.files) => Accepts(removed(m.files, {p}))
  BY <1>1, SelfContained DEF removed
<1> QED BY <1>2, <1>3

\* An iteration of isolateBadConfigs keeps the types: it excludes files of the batch.
LEMMA IsolateOK ==
  ASSUME NEW m \in Manager, NEW o \in isolateBadConfigs(m)
  PROVE  o.manager \in Manager
<1>1. m.files \in Trees /\ m.batchFiles \in SUBSET (ResourceFiles \cup {DefaultServer})
  BY DEF Manager
<1>2. ASSUME NEW p \in m.batchFiles PROVE excludeConfig(m, p) \in Manager
  <2> DEFINE restores == p = DefaultServer /\ m.preBatchDefaultServer # NoPath
             tree == IF restores THEN written(m.files, p, m.preBatchDefaultServer)
                     ELSE removed(m.files, {p})
  <2>1. tree \in Trees
    <3>1. CASE restores
      <4>1. p \in Paths /\ m.preBatchDefaultServer \in Contents
        BY <3>1 DEF Manager, Paths
      <4> QED BY <1>1, <3>1, <4>1, WrittenTree
    <3>2. CASE ~restores
      BY <1>1, <3>2, RemovedTree
    <3> QED BY <3>1, <3>2
  <2> HIDE DEF tree
  <2>2. excludeConfig(m, p) =
          [m EXCEPT !.files = tree,
                    !.preBatchDefaultServer = IF restores THEN NoPath
                                              ELSE m.preBatchDefaultServer,
                    !.batchExcluded = m.batchExcluded \cup {p},
                    !.batchFiles = m.batchFiles \ {p}]
    BY DEF excludeConfig, tree
  <2>3. m.batchExcluded \cup {p} \in SUBSET (ResourceFiles \cup {DefaultServer})
    BY <1>1 DEF Manager
  <2>4. (IF restores THEN NoPath ELSE m.preBatchDefaultServer) \in Contents \cup {NoPath}
    BY DEF Manager
  <2>5. m.batchFiles \ {p} \in SUBSET (ResourceFiles \cup {DefaultServer})
    BY <1>1
  <2> HIDE DEF restores
  <2> QED BY <2>1, <2>2, <2>3, <2>4, <2>5 DEF Manager
<1>3. ASSUME NEW stuck PROVE removeAllBatchFiles(m, stuck) \in Manager
  <2>1. removed(m.files, m.batchFiles \ stuck) \in Trees
    BY <1>1, RemovedTree
  <2> QED BY <1>1, <2>1 DEF removeAllBatchFiles, Manager
<1>4. [m EXCEPT !.batchFiles = {}, !.isolating = FALSE] \in Manager
  BY DEF Manager
<1>5. parsePathFromError(m) \cup (IF m.batchFiles = {} THEN {} ELSE searched(m))
        \subseteq m.batchFiles
  BY DEF parsePathFromError, searched
<1>6. \/ o = Outcome([m EXCEPT !.batchFiles = {}, !.isolating = FALSE], TRUE)
      \/ \E p \in m.batchFiles : o = Outcome(excludeConfig(m, p), TRUE)
      \/ \E stuck \in SUBSET m.batchFiles : o = Outcome(removeAllBatchFiles(m, stuck), FALSE)
  BY <1>5 DEF isolateBadConfigs
<1> QED BY <1>2, <1>3, <1>4, <1>6, SMTT(20) DEF Outcome

\* A rollback that fails: it keeps the types, and costs no more than the file.
LEMMA FailedRollbackOK ==
  ASSUME NEW m \in Manager, NEW p \in Paths, NEW c \in Contents, NEW n \in failedRollbacks(m, p, c)
  PROVE  /\ n \in Manager /\ n.diskFault /\ n.loaded = m.loaded
         /\ removed(n.files, {p}) = removed(m.files, {p})
         /\ DOMAIN m.files \ {p} \subseteq DOMAIN n.files
         /\ p \in protectedFromDeletion => DOMAIN m.files \subseteq DOMAIN n.files
         /\ p \in ResourceFiles => Accepts(n.files)
<1>1. m.files \in Trees
  BY DEF Manager
<1>2. PICK left \in Contents :
        /\ p \in DOMAIN m.files /\ Accepts(m.files)
        /\ n = [m EXCEPT !.files = IF p \in protectedFromDeletion
                                   THEN written(m.files, p, left)
                                   ELSE removed(m.files, {p}),
                         !.diskFault = TRUE]
  BY DEF failedRollbacks
<1> DEFINE tree == IF p \in protectedFromDeletion
                   THEN written(m.files, p, left) ELSE removed(m.files, {p})
<1>3. tree \in Trees
  BY <1>1, WrittenTree, RemovedTree
<1>4. /\ removed(tree, {p}) = removed(m.files, {p})
      /\ DOMAIN m.files \ {p} \subseteq DOMAIN tree
      /\ p \in protectedFromDeletion => DOMAIN m.files \subseteq DOMAIN tree
  BY <1>1, SMTT(20) DEF written, removed
<1>5. p \in ResourceFiles => p \notin protectedFromDeletion
  BY PathsAssumption DEF protectedFromDeletion
<1>6. p \in ResourceFiles => Accepts(tree)
  BY <1>1, <1>2, <1>5, SelfContained DEF removed
<1> HIDE DEF tree
<1>7. n = [m EXCEPT !.files = tree, !.diskFault = TRUE]
  BY <1>2 DEF tree
<1>8. n \in Manager /\ n.files = tree /\ n.diskFault = TRUE /\ n.loaded = m.loaded
  BY <1>3, <1>7 DEF Manager
<1> QED BY <1>4, <1>6, <1>8

\* The manager keeps its types, whatever its client does.
THEOREM ManagerTypeCorrect == ManagerSpec => []ManagerTypeOK
<1>1. ManagerInit => ManagerTypeOK
  <2> SUFFICES ASSUME NEW main \in Contents, NEW default \in Contents
               PROVE  EnableBatchMode(main, default) \in Manager
    BY DEF ManagerInit, ManagerTypeOK
  <2>1. [p \in {} |-> NoPath] \in Trees
    BY DEF Trees
  <2>2. written([p \in {} |-> NoPath], MainConf, main) \in Trees
    BY <2>1, WrittenTree DEF Paths
  <2>3. written(written([p \in {} |-> NoPath], MainConf, main), DefaultServer, default)
          \in Trees
    BY <2>2, WrittenTree DEF Paths
  <2> QED BY <2>3 DEF EnableBatchMode, Manager
<1>2. ManagerTypeOK /\ [ManagerNext]_manager => ManagerTypeOK'
  <2> SUFFICES ASSUME manager \in Manager, [ManagerNext]_manager
               PROVE  manager' \in Manager
    BY DEF ManagerTypeOK
  <2>1. CASE CallCreateMainConfig
    BY <2>1, CreateMainConfigOK DEF CallCreateMainConfig
  <2>2. CASE CallCreateConfig
    BY <2>2, CreateConfigOK DEF CallCreateConfig
  <2>3. CASE CallDeleteConfig
    BY <2>3, DeleteConfigOK DEF CallDeleteConfig
  <2>4. CASE CallReload
    BY <2>4, ReloadOK DEF CallReload
  <2>5. CASE CallCompleteBatch
    BY <2>5 DEF CallCompleteBatch, CompleteBatch, Manager
  <2>6. CASE IsolateBadConfigs
    BY <2>6, IsolateOK DEF IsolateBadConfigs
  <2>7. CASE RollbackFails
    BY <2>7, FailedRollbackOK DEF RollbackFails
  <2>8. CASE UNCHANGED manager
    BY <2>8
  <2> QED BY <2>1, <2>2, <2>3, <2>4, <2>5, <2>6, <2>7, <2>8 DEF ManagerNext
<1> QED BY <1>1, <1>2, PTL DEF ManagerSpec

\* nginx.conf is always there: no failure path deletes it, and it is never part of
\* the batch.
MainConfThere == MainConf \in DOMAIN manager.files

\* Every call leaves nginx.conf there.
LEMMA MainConfStays ==
  ManagerTypeOK /\ MainConfThere /\ [ManagerNext]_manager => MainConfThere'
<1> SUFFICES ASSUME manager \in Manager, MainConf \in DOMAIN manager.files,
                    [ManagerNext]_manager
             PROVE  MainConf \in DOMAIN manager'.files
  BY DEF ManagerTypeOK, MainConfThere
<1>1. \A tree \in Trees : WithFiles(manager, tree).files = tree
  BY DEF WithFiles, Manager
<1>2. \A p, c : MainConf \in DOMAIN written(manager.files, p, c)
  BY DEF written
<1>3. \A S : MainConf \notin S => MainConf \in DOMAIN removed(manager.files, S)
  BY DEF removed
<1>4. \A p \in Paths, c \in Contents :
        MainConf \in DOMAIN createConfigWithRollback(manager, p, c).manager.files
  <2> TAKE p \in Paths, c \in Contents
  <2> DEFINE n == createConfigWithRollback(manager, p, c).manager
  <2>1. \/ n = manager
        \/ n = WithFiles(manager, written(manager.files, p, c))
        \/ n = Reload(manager)
        \/ p # MainConf /\ n = WithFiles(manager, removed(manager.files, {p}))
    BY DEF createConfigWithRollback, Outcome, protectedFromDeletion
  <2>2. written(manager.files, p, c) \in Trees /\ removed(manager.files, {p}) \in Trees
    BY WrittenTree, RemovedTree DEF Manager
  <2> QED BY <1>1, <1>2, <1>3, <2>1, <2>2, ReloadOK, SMTT(20)
<1>5. MainConf \notin ResourceFiles \cup {DefaultServer}
  BY PathsAssumption
<1>6. CASE CallCreateMainConfig
  <2>1. PICK c \in Contents : manager' = CreateMainConfig(manager, c).manager
    BY <1>6 DEF CallCreateMainConfig
  <2>2. CASE manager.configVersion = 0
    <3>1. manager' = WithFiles(manager, written(manager.files, MainConf, c))
      BY <2>1, <2>2 DEF CreateMainConfig, Outcome
    <3>2. written(manager.files, MainConf, c) \in Trees
      BY WrittenTree DEF Manager, Paths
    <3> QED BY <1>1, <1>2, <3>1, <3>2
  <2>3. CASE manager.configVersion # 0
    BY <1>4, <2>1, <2>3 DEF CreateMainConfig, Paths
  <2> QED BY <2>2, <2>3
<1>7. CASE CallCreateConfig
  <2>1. PICK p \in ResourceFiles \cup {DefaultServer}, c \in Contents :
          manager' = CreateConfig(manager, p, c).manager
    BY <1>7 DEF CallCreateConfig
  <2>2. CASE manager.batchMode
    <3>1. manager'.files = written(manager.files, p, c)
      BY <2>1, <2>2 DEF CreateConfig, batchWriteConfig, Outcome, Manager
    <3> QED BY <1>2, <3>1
  <2>3. CASE ~manager.batchMode
    BY <1>4, <2>1, <2>3 DEF CreateConfig, Paths
  <2> QED BY <2>2, <2>3
<1>8. CASE CallDeleteConfig
  <2>1. PICK p \in ResourceFiles : manager' = DeleteConfig(manager, p)
    BY <1>8 DEF CallDeleteConfig
  <2>2. manager'.files = removed(manager.files, {p})
    BY <2>1 DEF DeleteConfig, WithFiles, Manager
  <2> QED BY <1>3, <1>5, <2>2
<1>9. CASE CallReload \/ CallCompleteBatch
  BY <1>9, ReloadOK DEF CallReload, CallCompleteBatch, CompleteBatch, Manager
<1>10. CASE IsolateBadConfigs
  <2>1. PICK o \in isolateBadConfigs(manager) : manager' = o.manager
    BY <1>10 DEF IsolateBadConfigs
  <2>2. manager.batchFiles \subseteq ResourceFiles \cup {DefaultServer}
    BY DEF Manager
  <2>3. \A p \in manager.batchFiles : MainConf \in DOMAIN excludeConfig(manager, p).files
    BY <1>2, <1>3, <1>5, <2>2 DEF excludeConfig, Manager
  <2>4. \A stuck : MainConf \in DOMAIN removeAllBatchFiles(manager, stuck).files
    BY <1>3, <1>5, <2>2 DEF removeAllBatchFiles, Manager
  <2>5. MainConf \in DOMAIN [manager EXCEPT !.batchFiles = {}, !.isolating = FALSE].files
    BY DEF Manager
  <2>6. parsePathFromError(manager) \cup
          (IF manager.batchFiles = {} THEN {} ELSE searched(manager)) \subseteq manager.batchFiles
    BY DEF parsePathFromError, searched
  <2>7. \/ o = Outcome([manager EXCEPT !.batchFiles = {}, !.isolating = FALSE], TRUE)
        \/ \E p \in manager.batchFiles : o = Outcome(excludeConfig(manager, p), TRUE)
        \/ \E stuck : o = Outcome(removeAllBatchFiles(manager, stuck), FALSE)
    BY <2>6 DEF isolateBadConfigs
  <2>8. CASE o = Outcome([manager EXCEPT !.batchFiles = {}, !.isolating = FALSE], TRUE)
    BY <2>1, <2>5, <2>8 DEF Outcome
  <2>9. CASE \E p \in manager.batchFiles : o = Outcome(excludeConfig(manager, p), TRUE)
    <3>1. PICK p \in manager.batchFiles : o = Outcome(excludeConfig(manager, p), TRUE)
      BY <2>9
    <3>2. manager' = excludeConfig(manager, p)
      BY <2>1, <3>1 DEF Outcome
    <3> QED BY <2>3, <3>2
  <2>10. CASE \E stuck : o = Outcome(removeAllBatchFiles(manager, stuck), FALSE)
    <3>1. PICK stuck : o = Outcome(removeAllBatchFiles(manager, stuck), FALSE)
      BY <2>10
    <3>2. manager' = removeAllBatchFiles(manager, stuck)
      BY <2>1, <3>1 DEF Outcome
    <3> QED BY <2>4, <3>2
  <2> QED BY <2>7, <2>8, <2>9, <2>10
<1>11. CASE RollbackFails
  <2>1. PICK p \in Paths, c \in Contents : manager' \in failedRollbacks(manager, p, c)
    BY <1>11 DEF RollbackFails
  <2>2. CASE p = MainConf
    BY <2>1, <2>2, FailedRollbackOK DEF protectedFromDeletion
  <2>3. CASE p # MainConf
    BY <2>1, <2>3, FailedRollbackOK
  <2> QED BY <2>2, <2>3
<1>12. CASE UNCHANGED manager
  BY <1>12
<1> QED BY <1>6, <1>7, <1>8, <1>9, <1>10, <1>11, <1>12 DEF ManagerNext

\* In a working tree every call leaves a working tree, and only DeleteConfig takes a
\* file away; a failed rollback costs its file.
LEMMA WorkingStep ==
  ASSUME ManagerTypeOK, MainConfThere, Working(manager), ManagerNext
  PROVE  \/ /\ Accepts(manager'.files)
            /\ DOMAIN manager.files \subseteq DOMAIN manager'.files \/ CallDeleteConfig
         \/ /\ manager'.diskFault /\ ~manager.diskFault
            /\ \E p \in Paths : CostsOnly(p)
<1>1. manager \in Manager
  BY DEF ManagerTypeOK
<1>2. \A p \in Paths, c \in Contents :
        LET n == createConfigWithRollback(manager, p, c).manager
        IN Accepts(n.files) /\ DOMAIN manager.files \subseteq DOMAIN n.files
  BY <1>1, RollbackOK DEF Working, MainConfThere, protectedFromDeletion
<1>3. CASE CallCreateMainConfig
  BY <1>2, <1>3 DEF CallCreateMainConfig, CreateMainConfig, Working, Paths
<1>4. CASE CallCreateConfig
  BY <1>2, <1>4 DEF CallCreateConfig, CreateConfig, Working, Paths
<1>5. CASE CallDeleteConfig
  BY <1>1, <1>5, DeleteConfigOK DEF CallDeleteConfig, Working
<1>6. CASE CallReload
  BY <1>1, <1>6, ReloadOK DEF CallReload, Working
<1>7. ~CallCompleteBatch /\ ~IsolateBadConfigs
  BY DEF Working, CallCompleteBatch, IsolateBadConfigs
<1>8. CASE RollbackFails
  <2>1. ~manager.diskFault
    BY <1>8 DEF RollbackFails
  <2>2. PICK p \in Paths, c \in Contents : manager' \in failedRollbacks(manager, p, c)
    BY <1>8 DEF RollbackFails
  <2>3. manager'.diskFault /\ CostsOnly(p)
    BY <1>1, <2>2, FailedRollbackOK DEF CostsOnly
  <2> QED BY <2>1, <2>3
<1> QED BY <1>3, <1>4, <1>5, <1>6, <1>7, <1>8 DEF ManagerNext

\* Config safety: once the files work, no call makes them fail and none but
\* DeleteConfig takes a file away; a write whose rollback fails costs the file it was about.
THEOREM ConfigSafetyHolds == ManagerSpec => WorkingTreeKept
<1>1. ManagerInit => MainConfThere
  <2>1. \A main, default : MainConf \in DOMAIN EnableBatchMode(main, default).files
    BY DEF EnableBatchMode, written
  <2> QED BY <2>1 DEF ManagerInit, MainConfThere
<1>2. ManagerTypeOK /\ MainConfThere /\ [ManagerNext]_manager
        => [Working(manager) =>
              \/ /\ Accepts(manager'.files)
                 /\ DOMAIN manager.files \subseteq DOMAIN manager'.files \/ CallDeleteConfig
              \/ /\ manager'.diskFault /\ ~manager.diskFault
                 /\ \E p \in Paths : CostsOnly(p)]_manager
  BY WorkingStep
<1> QED BY <1>1, <1>2, MainConfStays, ManagerTypeCorrect, PTL DEF ManagerSpec, WorkingTreeKept

-----------------------------------------------------------------------------
(* The resources.                                                            *)

-----------------------------------------------------------------------------
(* The inductive invariant.                                                  *)

Updates ==
  [todo : SUBSET ResourceFiles, resourceErrors : SUBSET Paths, updateErr : BOOLEAN,
   consecutiveFailures : Nat, enableEarlyExit : BOOLEAN, updatedResources : SUBSET ResourceFiles]

\* The types of what the worker reads.
SafetyTypes ==
  /\ DOMAIN objects = ResourceFiles /\ DOMAIN resources = ResourceFiles
  /\ \A r \in ResourceFiles :
       objects[r] \in Specs(r) \cup {Absent} /\ resources[r] \in Specs(r) \cup {Absent}
  /\ configMapObject \in ConfigMaps /\ configMap \in ConfigMaps /\ cfgParams \in ConfigMaps
  /\ globalConfigurationObject \in GlobalConfigurations
  /\ globalConfiguration \in GlobalConfigurations
  /\ queue \subseteq Keys
  /\ update \in Updates
  /\ effectiveBatchExclusionCount \in Nat
  /\ isNginxReady \in BOOLEAN /\ heldForConfigSafety \in BOOLEAN

\* Where sync can be: the tasks of an update exist, an update comes after startup, and
\* batches come after readiness.
Control ==
  /\ pc \in {"idle", "synced", "listeners", "update", "apply", "isolate", "finish"}
  /\ pc \in {"listeners", "apply"} => update.todo \subseteq Tasks
  /\ pc = "listeners" => update.todo # {}
  /\ pc \in {"listeners", "update", "apply", "isolate", "finish"} => startupComplete
  /\ pc \in {"idle", "synced", "update"} => update = NoUpdate
  /\ batchSyncEnabled => isNginxReady
  /\ isNginxReady \/ heldForConfigSafety => startupComplete

\* The manager between two calls.  nginx.conf and the default server are there; NGINX runs no
\* resource as long as the batch is open, the files do not work, or nothing was reloaded.
Sound(m) ==
  /\ m \in Manager
  /\ MainConf \in DOMAIN m.files /\ DefaultServer \in DOMAIN m.files
  /\ m.batchMode => ~m.isolating
  /\ m.batchMode \/ m.isolating => m.configVersion = 0
  /\ m.batchMode \/ (m.isolating /\ DefaultServer \in m.batchFiles)
       => m.preBatchDefaultServer # NoPath
  /\ ~Accepts(m.files) \/ m.configVersion = 0 => DOMAIN m.loaded \cap ResourceFiles = {}

\* When the manager is in the startup batch, and when it isolates.
Phases ==
  /\ manager.batchMode => ~isNginxReady /\ ~heldForConfigSafety
  /\ manager.batchMode /\ startupComplete => pc \in {"update", "apply"}
  /\ manager.isolating <=> pc = "isolate"
  /\ pc = "isolate" => ~isNginxReady /\ ~heldForConfigSafety /\ update.todo = {}
  /\ manager.batchMode \/ manager.isolating => update.consecutiveFailures = 0

Safe == SafetyTypes /\ Control /\ Sound(manager) /\ Phases
SafetyInv == isRollbackManager \in BOOLEAN /\ (isRollbackManager => Safe)

\* The end of UpdateConfig: it has failed, or NGINX runs the files.
Finished ==
  /\ pc = "finish" =>
       update.updateErr \/ update.consecutiveFailures > 0 \/ Working(manager)
  /\ pc \in {"apply", "finish"} /\ update.consecutiveFailures > 0 => update.resourceErrors # {}

\* The readiness gate: a pod that was neither held back nor let through is in its first update,
\* and the exclusions of that update are counted.
Gate ==
  ~isNginxReady /\ ~heldForConfigSafety /\ ~manager.batchMode /\ ~manager.isolating =>
    \/ /\ pc = "apply" /\ update.todo = {} /\ update.consecutiveFailures = 0
       /\ Accepts(manager.files)
       /\ effectiveBatchExclusionCount = Cardinality(update.resourceErrors)
    \/ /\ pc = "finish" /\ update.consecutiveFailures = 0 /\ ~update.updateErr
       /\ effectiveBatchExclusionCount = Cardinality(update.resourceErrors)
    \/ /\ pc = "finish" /\ update.updateErr
       /\ effectiveBatchExclusionCount = Cardinality(Tasks)

GateInv == SafetyInv /\ (isRollbackManager => Finished /\ Gate)

\* No resource is forgotten: in an update each one is still to do, has an error, or has its
\* file; at the end NGINX has read that file.
Progress ==
  /\ pc = "apply" /\ update.todo # {} =>
       update.consecutiveFailures < sharedInputFailureThreshold
  /\ pc = "apply" /\ update.consecutiveFailures < sharedInputFailureThreshold =>
       \A r \in Tasks : \/ r \in update.todo \/ r \in update.resourceErrors
                        \/ /\ r \in DOMAIN manager.files
                           /\ manager.batchMode => r \in manager.batchFiles
  /\ manager.batchMode => update.resourceErrors = {}
  /\ pc = "isolate" =>
       \A r \in Tasks : \/ r \in manager.batchExcluded
                        \/ r \in manager.batchFiles /\ r \in DOMAIN manager.files
  /\ pc = "finish" /\ ~update.updateErr
       /\ update.consecutiveFailures < sharedInputFailureThreshold =>
       \A r \in Tasks \ update.resourceErrors : r \in DOMAIN manager.loaded

ProgressInv == GateInv /\ (isRollbackManager => Progress)

-----------------------------------------------------------------------------
(* The order of the updates.                                                 *)

\* First picks one of the resources it is given.
LEMMA FirstIn ==
  ASSUME NEW S, S \subseteq ResourceFiles, S # {}
  PROVE  First(S) \in S
<1> DEFINE T == {i \in DOMAIN ResourceOrder : ResourceOrder[i] \in S}
           R == {ss \in Nat \X Nat : ss[1] < ss[2]}
<1>1. T \subseteq Nat /\ T # {}
  BY ResourcesAssumption, SMTT(20)
<1>2. IsWellFoundedOn(R, Nat)
  BY NatLessThanWellFounded DEF OpToRel
<1>3. PICK m \in T : \A n \in T : <<n, m>> \notin R
  <2> HIDE DEF R, T
  <2> QED BY <1>1, <1>2, WFMin
<1>4. \A n \in T : m <= n
  <2>1. ASSUME NEW n \in T PROVE m <= n
    <3>1. m \in Nat /\ n \in Nat /\ <<n, m>> \notin R
      BY <1>1, <1>3
    <3>2. ~(n < m)
      BY <3>1
    <3> HIDE DEF T, R
    <3> QED BY <3>1, <3>2, SMTT(20)
  <2> QED BY <2>1
<1>5. (CHOOSE i \in T : \A j \in T : i <= j) \in T
  BY <1>4
<1> QED BY <1>5 DEF First

-----------------------------------------------------------------------------
(* The calls of the manager.                                                 *)

\* What a call keeps: a sound manager, its phase, the files of the batch, and a working tree.
Kept(m, n) ==
  /\ Sound(n)
  /\ n.batchMode = m.batchMode /\ n.isolating = m.isolating
  /\ m.batchMode => m.batchFiles \subseteq n.batchFiles
  /\ Working(m) => Working(n)

\* The resources outside S that have a file keep it, and the ones that are served as well.
Remain(m, n, S) ==
  \A r \in ResourceFiles \ S : r \in DOMAIN m.files => r \in DOMAIN n.files
Both(m, r) == r \in DOMAIN m.loaded /\ r \in DOMAIN m.files
Stay(m, n, S) ==
  \A r \in ResourceFiles \ S : Both(m, r) => Both(n, r)

\* Calls one after another keep what each of them keeps.
LEMMA KeptTwice ==
  ASSUME NEW m, NEW n, NEW k, Kept(m, n), Kept(n, k)
  PROVE  Kept(m, k)
BY DEF Kept

\* A call that changes files: the manager that it leaves is sound when nginx.conf and the
\* default server are kept and, in a tree that was tested, the new one works.
LEMMA FilesSound ==
  ASSUME NEW m, Sound(m), NEW tree \in Trees,
         MainConf \in DOMAIN tree, DefaultServer \in DOMAIN tree,
         Accepts(m.files) /\ m.configVersion # 0 => Accepts(tree)
  PROVE  /\ WithFiles(m, tree).files = tree
         /\ WithFiles(m, tree).loaded = m.loaded
         /\ Kept(m, WithFiles(m, tree))
<1> DEFINE n == WithFiles(m, tree)
<1>1. m \in Manager
  BY DEF Sound
<1>2. /\ n \in Manager /\ n.files = tree /\ n.loaded = m.loaded
      /\ n.configVersion = m.configVersion /\ n.batchMode = m.batchMode
      /\ n.isolating = m.isolating /\ n.batchFiles = m.batchFiles
      /\ n.preBatchDefaultServer = m.preBatchDefaultServer
  BY <1>1 DEF WithFiles, Manager
<1> USE <1>2
<1> HIDE DEF n
<1>3. Sound(n)
  BY DEF Sound
<1>4. Working(m) => Working(n)
  BY DEF Working
<1> QED BY <1>3, <1>4 DEF Kept, n

\* A reload outside of the batch keeps everything; NGINX then serves the files if they work.
LEMMA ReloadKept ==
  ASSUME NEW m, Sound(m), ~m.batchMode, ~m.isolating
  PROVE  /\ Kept(m, Reload(m))
         /\ Reload(m).files = m.files
         /\ Stay(m, Reload(m), {}) /\ Remain(m, Reload(m), {})
         /\ Accepts(m.files) => Working(Reload(m)) /\ Reload(m).loaded = m.files
<1> DEFINE n == Reload(m)
<1>1. m \in Manager
  BY DEF Sound
<1>2. /\ n \in Manager /\ n.files = m.files
      /\ n.loaded = IF Accepts(m.files) THEN m.files ELSE m.loaded
      /\ n.configVersion = 1 /\ n.batchMode = m.batchMode
      /\ n.isolating = m.isolating /\ n.batchFiles = m.batchFiles
      /\ n.preBatchDefaultServer = m.preBatchDefaultServer
  BY <1>1 DEF Reload, Manager
<1> USE <1>2
<1>3. 1 # 0
  BY SMTT(20)
<1> HIDE DEF n
<1>4. Sound(n)
  BY <1>3 DEF Sound
<1>5. Accepts(m.files) => Working(n)
  BY <1>3 DEF Working, Sound
<1>6. Stay(m, n, {}) /\ Remain(m, n, {})
  BY DEF Stay, Both, Remain
<1>7. Kept(m, n)
  BY <1>4, <1>5 DEF Kept, Working
<1> QED BY <1>5, <1>6, <1>7 DEF n

\* DeleteConfig of a resource keeps everything but its file.
LEMMA DeleteKept ==
  ASSUME NEW m, Sound(m), NEW p \in ResourceFiles
  PROVE  /\ Kept(m, DeleteConfig(m, p))
         /\ Stay(m, DeleteConfig(m, p), {p})
<1> DEFINE tree == removed(m.files, {p})
<1>1. m \in Manager /\ m.files \in Trees
  BY DEF Sound, Manager
<1>2. tree \in Trees
  BY <1>1, RemovedTree
<1>3. \A q : q \in DOMAIN m.files /\ q # p => q \in DOMAIN tree
  BY DEF removed
<1>4. p # MainConf /\ p # DefaultServer
  BY PathsAssumption
<1>5. Accepts(m.files) => Accepts(tree)
  BY <1>1, SelfContained DEF removed
<1> HIDE DEF tree
<1>6. /\ WithFiles(m, tree).files = tree /\ WithFiles(m, tree).loaded = m.loaded
      /\ Kept(m, WithFiles(m, tree))
  BY <1>2, <1>3, <1>4, <1>5, FilesSound DEF Sound
<1>7. Stay(m, WithFiles(m, tree), {p})
  BY <1>3, <1>6 DEF Stay, Both
<1> QED BY <1>6, <1>7 DEF DeleteConfig, tree

\* A write with rollback keeps everything but the file that it cannot write; without an
\* error the file is there.
LEMMA RollbackKept ==
  ASSUME NEW m, Sound(m), ~m.batchMode, ~m.isolating, NEW p \in Paths, NEW c \in Contents
  PROVE  LET o == createConfigWithRollback(m, p, c)
         IN /\ Kept(m, o.manager)
            /\ Stay(m, o.manager, {})
            /\ Remain(m, o.manager, {p})
            /\ o.ok \in BOOLEAN
            /\ o.ok => p \in DOMAIN o.manager.files
<1> DEFINE new == written(m.files, p, c)
           old == removed(m.files, {p})
           o == createConfigWithRollback(m, p, c)
           hasBackup == p \in DOMAIN m.files /\ Accepts(m.files)
<1>1. m \in Manager /\ m.files \in Trees
  BY DEF Sound, Manager
<1> USE <1>1
<1>2. new \in Trees /\ old \in Trees
  BY WrittenTree, RemovedTree
<1> USE <1>2
<1>3. \A q : q \in DOMAIN m.files \/ q = p <=> q \in DOMAIN new
  BY DEF written
<1> USE <1>3
<1>4. \A q : q \in DOMAIN m.files /\ q # p => q \in DOMAIN old
  BY DEF removed
<1>5. Kept(m, m) /\ Stay(m, m, {}) /\ Remain(m, m, {p})
  BY DEF Kept, Stay, Remain
<1>6. Accepts(m.files) \in BOOLEAN
  BY PathsAssumption
<1>7. CASE p \in DOMAIN m.files /\ m.files[p] = c
  <2>1. o.manager = m /\ o.ok = Accepts(m.files)
    BY <1>7 DEF createConfigWithRollback, Outcome
  <2> QED BY <1>5, <1>6, <1>7, <2>1
<1>8. CASE ~(p \in DOMAIN m.files /\ m.files[p] = c) /\ Accepts(new)
  <2>1. o.manager = WithFiles(m, new) /\ o.ok = TRUE
    BY <1>8 DEF createConfigWithRollback, Outcome
  <2> HIDE DEF new, o
  <2>2. /\ WithFiles(m, new).files = new /\ WithFiles(m, new).loaded = m.loaded
        /\ Kept(m, WithFiles(m, new))
    BY <1>8, FilesSound DEF Sound
  <2>3. Stay(m, WithFiles(m, new), {}) /\ Remain(m, WithFiles(m, new), {p})
    BY <2>2 DEF Stay, Both, Remain
  <2> QED BY <2>1, <2>2, <2>3 DEF o
<1>9. CASE ~(p \in DOMAIN m.files /\ m.files[p] = c) /\ ~Accepts(new) /\ hasBackup
  <2>1. o.manager = Reload(m) /\ o.ok = FALSE
    BY <1>9 DEF createConfigWithRollback, Outcome
  <2>2. Remain(m, Reload(m), {p})
    BY ReloadKept DEF Remain
  <2> QED BY <2>1, <2>2, ReloadKept
<1>10. CASE ~(p \in DOMAIN m.files /\ m.files[p] = c) /\ ~Accepts(new) /\ ~hasBackup
  <2> USE <1>10
  <2>1. CASE p \in protectedFromDeletion
    <3>1. o.manager = WithFiles(m, new) /\ o.ok = FALSE
      BY <2>1 DEF createConfigWithRollback, Outcome
    <3>2. ~Accepts(m.files)
      BY <2>1 DEF Sound, protectedFromDeletion
    <3> HIDE DEF new, o
    <3>3. /\ WithFiles(m, new).files = new /\ WithFiles(m, new).loaded = m.loaded
          /\ Kept(m, WithFiles(m, new))
      BY <3>2, FilesSound DEF Sound
    <3>4. Stay(m, WithFiles(m, new), {}) /\ Remain(m, WithFiles(m, new), {p})
      BY <3>3 DEF Stay, Both, Remain
    <3> QED BY <3>1, <3>3, <3>4 DEF o
  <2>2. CASE p \notin protectedFromDeletion
    <3>1. o.manager = WithFiles(m, old) /\ o.ok = FALSE
      BY <2>2 DEF createConfigWithRollback, Outcome
    <3>2. p # MainConf /\ p # DefaultServer
      BY <2>2 DEF protectedFromDeletion
    <3>3. Accepts(m.files) => old = m.files
      BY SMTT(20) DEF removed, Trees
    <3> HIDE DEF old, o
    <3>4. /\ WithFiles(m, old).files = old /\ WithFiles(m, old).loaded = m.loaded
          /\ Kept(m, WithFiles(m, old))
      BY <1>4, <3>2, <3>3, FilesSound DEF Sound
    <3> USE <3>4
    <3>5. Remain(m, WithFiles(m, old), {p})
      BY <1>4 DEF Remain
    <3>6. Stay(m, WithFiles(m, old), {})
      <4>1. CASE Accepts(m.files)
        BY <3>3, <4>1 DEF Stay, Both
      <4>2. CASE ~Accepts(m.files)
        BY <4>2 DEF Stay, Both, Sound
      <4> QED BY <4>1, <4>2
    <3> QED BY <3>1, <3>5, <3>6 DEF o
  <2> QED BY <2>1, <2>2
<1> QED BY <1>7, <1>8, <1>9, <1>10

\* CreateConfig: in the startup batch the file is written and becomes part of it, without a
\* test.
LEMMA CreateKept ==
  ASSUME isRollbackManager, NEW m, Sound(m), ~m.isolating,
         NEW p \in ResourceFiles \cup {DefaultServer}, NEW c \in Contents
  PROVE  LET o == Create(m, p, c)
         IN /\ Kept(m, o.manager)
            /\ Stay(m, o.manager, {})
            /\ Remain(m, o.manager, {p})
            /\ o.ok \in BOOLEAN
            /\ m.batchMode => o.ok
            /\ o.ok => /\ p \in DOMAIN o.manager.files
                       /\ m.batchMode => p \in o.manager.batchFiles
<1> DEFINE o == Create(m, p, c)
<1>1. m \in Manager /\ p \in Paths
  BY DEF Sound, Paths
<1> USE <1>1
<1>2. CASE m.batchMode
  <2> USE <1>2
  <2> DEFINE new == written(m.files, p, c)
             n == [m EXCEPT !.files = new, !.batchFiles = m.batchFiles \cup {p}]
  <2>1. o.manager = n /\ o.ok = TRUE
    BY DEF Create, CreateConfig, batchWriteConfig, Outcome
  <2>2. new \in Trees
    BY WrittenTree DEF Manager
  <2>3. \A q : q \in DOMAIN m.files \/ q = p <=> q \in DOMAIN new
    BY DEF written
  <2> USE <2>3
  <2>4. m.batchFiles \cup {p} \in SUBSET (ResourceFiles \cup {DefaultServer})
    BY DEF Manager
  <2> HIDE DEF new
  <2>5. /\ n \in Manager /\ n.files = new /\ n.loaded = m.loaded
        /\ n.configVersion = m.configVersion /\ n.batchMode = m.batchMode
        /\ n.isolating = m.isolating /\ n.batchFiles = m.batchFiles \cup {p}
        /\ n.preBatchDefaultServer = m.preBatchDefaultServer
    BY <2>2, <2>4 DEF Manager
  <2> USE <2>5
  <2> HIDE DEF n, o
  <2>6. Sound(n)
    BY DEF Sound
  <2>7. Kept(m, n)
    BY <2>6 DEF Kept, Working
  <2>8. Stay(m, n, {}) /\ Remain(m, n, {p})
    BY DEF Stay, Both, Remain
  <2> QED BY <2>1, <2>7, <2>8 DEF o
<1>3. CASE ~m.batchMode
  <2>1. o = createConfigWithRollback(m, p, c)
    BY <1>3 DEF Create, CreateConfig
  <2> HIDE DEF o
  <2> QED BY <1>3, <2>1, RollbackKept DEF o
<1> QED BY <1>2, <1>3

\* CreateMainConfig keeps everything.
LEMMA CreateMainKept ==
  ASSUME isRollbackManager, NEW m, Sound(m), ~m.isolating, NEW c \in Contents
  PROVE  /\ Kept(m, CreateMain(m, c).manager)
         /\ Stay(m, CreateMain(m, c).manager, {})
         /\ Remain(m, CreateMain(m, c).manager, {})
<1> DEFINE n == CreateMain(m, c).manager
<1>1. m \in Manager /\ MainConf \in Paths /\ MainConf \notin ResourceFiles
  BY PathsAssumption DEF Sound, Paths
<1> USE <1>1
<1>2. CASE m.configVersion = 0
  <2> DEFINE new == written(m.files, MainConf, c)
  <2>1. n = WithFiles(m, new)
    BY <1>2 DEF CreateMain, CreateMainConfig, Outcome
  <2>2. new \in Trees
    BY WrittenTree DEF Manager
  <2>3. \A q : q \in DOMAIN m.files => q \in DOMAIN new
    BY DEF written
  <2> HIDE DEF n, new
  <2>4. /\ WithFiles(m, new).files = new /\ WithFiles(m, new).loaded = m.loaded
        /\ Kept(m, WithFiles(m, new))
    BY <1>2, <2>2, <2>3, FilesSound DEF Sound
  <2>5. Stay(m, WithFiles(m, new), {}) /\ Remain(m, WithFiles(m, new), {})
    BY <2>3, <2>4 DEF Stay, Both, Remain
  <2> QED BY <2>1, <2>4, <2>5 DEF n
<1>3. CASE m.configVersion # 0
  <2>1. ~m.batchMode
    BY <1>3 DEF Sound
  <2>2. n = createConfigWithRollback(m, MainConf, c).manager
    BY <1>3 DEF CreateMain, CreateMainConfig
  <2> HIDE DEF n
  <2>3. Kept(m, n) /\ Stay(m, n, {}) /\ Remain(m, n, {MainConf})
    BY <2>1, <2>2, RollbackKept
  <2>4. Remain(m, n, {})
    BY <2>3 DEF Remain
  <2> QED BY <2>3, <2>4 DEF n
<1> QED BY <1>2, <1>3

-----------------------------------------------------------------------------
(* The writes of the Configurator.                                           *)

\* syncDefaultServerConfig keeps everything, and does not fail in the batch.
LEMMA DefaultKept ==
  ASSUME isRollbackManager, NEW m, Sound(m), ~m.isolating, NEW rec, NEW params \in ConfigMaps
  PROVE  LET o == syncDefaultServerConfig(m, rec, params)
         IN /\ Kept(m, o.manager)
            /\ Stay(m, o.manager, {}) /\ Remain(m, o.manager, {})
            /\ o.ok \in BOOLEAN
            /\ m.batchMode => o.ok
<1> DEFINE o == syncDefaultServerConfig(m, rec, params)
           c == Rendered(DefaultSpec, params, 0)
<1>1. CASE hasActiveEmptyHostIngress(rec)
  <2>1. o.manager = m /\ o.ok = TRUE
    BY <1>1 DEF syncDefaultServerConfig, Outcome
  <2>2. Kept(m, m) /\ Stay(m, m, {}) /\ Remain(m, m, {})
    BY DEF Kept, Stay, Remain
  <2> QED BY <2>1, <2>2
<1>2. CASE ~hasActiveEmptyHostIngress(rec)
  <2>1. o = Create(m, DefaultServer, c)
    BY <1>2 DEF syncDefaultServerConfig
  <2>2. c \in Contents
    BY RenderedAssumption
  <2> HIDE DEF o, c
  <2>3. /\ Kept(m, o.manager) /\ Stay(m, o.manager, {}) /\ Remain(m, o.manager, {DefaultServer})
        /\ o.ok \in BOOLEAN /\ (m.batchMode => o.ok)
    BY <2>1, <2>2, CreateKept
  <2>4. Remain(m, o.manager, {})
    BY <2>3, PathsAssumption DEF Remain
  <2> QED BY <2>3, <2>4 DEF o
<1> QED BY <1>1, <1>2

\* The same for the part of a write that only an Ingress has.
LEMMA WithDefaultKept ==
  ASSUME isRollbackManager, NEW m, Sound(m), ~m.isolating, NEW rec, NEW params \in ConfigMaps,
         NEW r
  PROVE  LET w == withDefaultServer(m, rec, params, r)
         IN /\ Kept(m, w.manager)
            /\ Stay(m, w.manager, {}) /\ Remain(m, w.manager, {})
            /\ w.ok \in BOOLEAN
            /\ m.batchMode => w.ok
<1> DEFINE w == withDefaultServer(m, rec, params, r)
           o == syncDefaultServerConfig(m, rec, params)
<1>1. CASE r \in Ingresses
  <2>1. w.manager = o.manager /\ w.ok = o.ok
    BY <1>1 DEF withDefaultServer, Wrote
  <2> QED BY <2>1, DefaultKept
<1>2. CASE r \notin Ingresses
  <2>1. w.manager = m /\ w.ok = TRUE
    BY <1>2 DEF withDefaultServer, Wrote
  <2>2. Kept(m, m) /\ Stay(m, m, {}) /\ Remain(m, m, {})
    BY DEF Kept, Stay, Remain
  <2> QED BY <2>1, <2>2
<1> QED BY <1>1, <1>2

\* addOrUpdate keeps the manager sound and a working tree working.  Without empty hosts the
\* file of another resource is kept in any case, and what is served stays served.
LEMMA AddOrUpdateKept ==
  ASSUME isRollbackManager, NEW m, Sound(m), ~m.isolating, NEW rec, NEW params \in ConfigMaps,
         NEW gc \in GlobalConfigurations, NEW r \in ResourceFiles, NEW spec \in Specs(r)
  PROVE  LET w == addOrUpdate(m, rec, params, gc, r, spec)
         IN /\ Kept(m, w.manager)
            /\ w.ok \in BOOLEAN
            /\ m.batchMode => w.ok
            /\ EmptyHostSpecs = {} =>
                 /\ Stay(m, w.manager, {}) /\ Remain(m, w.manager, {r})
                 /\ w.ok => /\ r \in DOMAIN w.manager.files
                            /\ m.batchMode => r \in w.manager.batchFiles
<1> DEFINE p == FileName(r, spec)
           c == Rendered(spec, params, Port(gc, r))
           file == Create(m, p, c)
           moved == p # r /\ rec[r] \notin EmptyHostSpecs \cup {Absent}
           m1 == IF moved THEN DeleteConfig(file.manager, r) ELSE file.manager
           rec1 == [rec EXCEPT ![r] = spec]
           w == addOrUpdate(m, rec, params, gc, r, spec)
<1>1. p \in ResourceFiles \cup {DefaultServer} /\ (EmptyHostSpecs = {} => p = r)
  BY DEF FileName
<1> USE <1>1
<1>2. c \in Contents
  BY RenderedAssumption
<1>3. w = IF file.ok THEN withDefaultServer(m1, rec1, params, r) ELSE Wrote(file.manager, rec, FALSE)
  BY DEF addOrUpdate
<1> HIDE DEF p, c, rec1, w
<1>4. /\ Kept(m, file.manager) /\ Stay(m, file.manager, {}) /\ Remain(m, file.manager, {p})
      /\ file.ok \in BOOLEAN /\ (m.batchMode => file.ok)
      /\ file.ok => /\ p \in DOMAIN file.manager.files
                    /\ m.batchMode => p \in file.manager.batchFiles
  BY <1>2, CreateKept
<1> USE <1>4
<1> HIDE DEF file
<1>5. Kept(m, m1) /\ (EmptyHostSpecs = {} => m1 = file.manager)
  <2>1. CASE moved
    <3>1. Kept(file.manager, DeleteConfig(file.manager, r))
      BY DeleteKept DEF Kept
    <3> QED BY <2>1, <3>1, KeptTwice
  <2>2. CASE ~moved
    BY <2>2
  <2> QED BY <2>1, <2>2
<1> USE <1>5
<1> HIDE DEF m1
<1>6. CASE ~file.ok
  <2>1. w.manager = file.manager /\ w.ok = FALSE
    BY <1>3, <1>6 DEF Wrote
  <2> QED BY <1>6, <2>1 DEF w
<1>7. CASE file.ok
  <2> USE <1>7
  <2>1. w = withDefaultServer(m1, rec1, params, r)
    BY <1>3
  <2>2. Sound(m1) /\ ~m1.isolating /\ m1.batchMode = m.batchMode
    BY DEF Kept
  <2> USE <2>2
  <2>3. /\ Kept(m1, w.manager) /\ Stay(m1, w.manager, {}) /\ Remain(m1, w.manager, {})
        /\ w.ok \in BOOLEAN /\ (m1.batchMode => w.ok)
    BY <2>1, WithDefaultKept
  <2> USE <2>3
  <2>4. Kept(m, w.manager)
    BY KeptTwice
  <2>5. ASSUME EmptyHostSpecs = {}
        PROVE  /\ Stay(m, w.manager, {}) /\ Remain(m, w.manager, {r})
               /\ r \in DOMAIN w.manager.files
               /\ m.batchMode => r \in w.manager.batchFiles
    <3>1. m1 = file.manager /\ p = r
      BY <2>5
    <3> USE <3>1
    <3>2. Stay(m, w.manager, {})
      BY DEF Stay
    <3>3. Remain(m, w.manager, {r})
      BY DEF Remain
    <3>4. r \in DOMAIN w.manager.files
      BY DEF Remain
    <3>5. m.batchMode => r \in w.manager.batchFiles
      BY DEF Kept
    <3> QED BY <3>2, <3>3, <3>4, <3>5
  <2> QED BY <2>4, <2>5 DEF w
<1> QED BY <1>6, <1>7

\* The deletion of a resource keeps everything but the resource.
LEMMA DeletionKept ==
  ASSUME isRollbackManager, NEW m, Sound(m), ~m.isolating, NEW rec, NEW params \in ConfigMaps,
         NEW r \in ResourceFiles
  PROVE  LET w == delete(m, rec, params, r)
         IN Kept(m, w.manager) /\ Stay(m, w.manager, {r})
<1> DEFINE m1 == IF rec[r] \in EmptyHostSpecs THEN m ELSE DeleteConfig(m, r)
           rec1 == [rec EXCEPT ![r] = Absent]
           w == delete(m, rec, params, r)
<1>1. w = withDefaultServer(m1, rec1, params, r)
  BY DEF delete
<1>2. Kept(m, m1) /\ Stay(m, m1, {r})
  <2>1. Kept(m, m) /\ Stay(m, m, {r})
    BY DEF Kept, Stay
  <2> QED BY <2>1, DeleteKept
<1> USE <1>2
<1> HIDE DEF m1, rec1, w
<1>3. Sound(m1) /\ ~m1.isolating
  BY DEF Kept
<1>4. Kept(m1, w.manager) /\ Stay(m1, w.manager, {})
  BY <1>1, <1>3, WithDefaultKept
<1>5. Kept(m, w.manager)
  BY <1>4, KeptTwice
<1>6. Stay(m, w.manager, {r})
  BY <1>4 DEF Stay
<1> QED BY <1>5, <1>6 DEF w

\* The reload at the end of a write, outside of the batch, keeps everything.
LEMMA ReloadedKept ==
  ASSUME NEW w, Sound(w.manager), ~w.manager.batchMode, ~w.manager.isolating, NEW enabled
  PROVE  LET n == reloaded(w, enabled).manager
         IN Kept(w.manager, n) /\ Stay(w.manager, n, {})
<1>1. CASE w.ok /\ enabled
  <2>1. reloaded(w, enabled).manager = Reload(w.manager)
    BY <1>1 DEF reloaded, Wrote
  <2> QED BY <2>1, ReloadKept
<1>2. CASE ~(w.ok /\ enabled)
  <2>1. reloaded(w, enabled).manager = w.manager
    BY <1>2 DEF reloaded
  <2> QED BY <2>1 DEF Kept, Stay
<1> QED BY <1>1, <1>2

-----------------------------------------------------------------------------
(* SafetyInv, one lemma for each step.  Each one also says what the step does to the manager. *)

\* The controller starts in the batch, with the files that NGINX runs.
LEMMA SafeInit == Init => SafetyInv
<1> SUFFICES ASSUME Init, isRollbackManager PROVE Safe
  BY FlagsAssumption DEF SafetyInv, Init
<1>1. PICK c \in Clusters, bootstrap \in ConfigMaps \ Unparsable :
        /\ objects = c.objects
        /\ configMapObject = c.configMap
        /\ globalConfigurationObject = c.globalConfiguration
        /\ queue = {r \in ResourceFiles : objects[r] # Absent}
                   \cup {ConfigMapKey, GlobalConfigurationKey}
        /\ resources = [r \in ResourceFiles |-> Absent]
        /\ globalConfiguration = c.globalConfiguration
        /\ startupComplete = FALSE
        /\ configMap = bootstrap /\ cfgParams = bootstrap
        /\ isNginxReady = FALSE /\ heldForConfigSafety = FALSE
        /\ batchSyncEnabled = FALSE
        /\ effectiveBatchExclusionCount = 0
        /\ pc = "idle" /\ update = NoUpdate
        /\ manager = [EnableBatchMode(Rendered(MainSpec, bootstrap, 0),
                                      Rendered(DefaultSpec, bootstrap, 0))
                      EXCEPT !.batchMode = isRollbackManager]
  BY DEF Init
<1> USE <1>1
<1> DEFINE main == Rendered(MainSpec, bootstrap, 0)
           default == Rendered(DefaultSpec, bootstrap, 0)
           tree == written(written([p \in {} |-> NoPath], MainConf, main), DefaultServer, default)
<1>2. isRollbackManager = TRUE
  BY FlagsAssumption DEF Init
<1>3. main \in Contents /\ default \in Contents
  BY RenderedAssumption
<1> USE <1>3
<1>4. tree \in Trees
  <2>1. [p \in {} |-> NoPath] \in Trees
    <3>1. [p \in {} |-> NoPath] \in [{} -> Contents] /\ {} \in SUBSET Paths
      OBVIOUS
    <3> QED BY <3>1 DEF Trees
  <2>2. written([p \in {} |-> NoPath], MainConf, main) \in Trees
    BY <2>1, WrittenTree DEF Paths
  <2> QED BY <2>2, WrittenTree DEF Paths
<1>5. DOMAIN tree = {MainConf, DefaultServer}
  BY DEF written
<1> DEFINE e == EnableBatchMode(main, default)
<1>6. e = [files |-> tree, loaded |-> tree, configVersion |-> 0, batchMode |-> TRUE,
           isolating |-> FALSE, batchFiles |-> {}, batchExcluded |-> {},
           preBatchDefaultServer |-> default, diskFault |-> FALSE]
  BY DEF EnableBatchMode
<1>7. manager = [e EXCEPT !.batchMode = TRUE]
  BY <1>2
<1> HIDE DEF tree, e, main, default
<1>8. e \in Manager
  <2>1. /\ default \in Contents \cup {NoPath} /\ {} \in SUBSET (ResourceFiles \cup {DefaultServer})
        /\ 0 \in {0, 1} /\ TRUE \in BOOLEAN /\ FALSE \in BOOLEAN
    OBVIOUS
  <2> QED BY <1>4, <1>6, <2>1 DEF Manager
<1>9. manager \in Manager
  BY <1>7, <1>8 DEF Manager
<1>10. /\ manager.files = tree /\ manager.loaded = tree /\ manager.configVersion = 0
       /\ manager.batchMode = TRUE /\ manager.isolating = FALSE
       /\ manager.preBatchDefaultServer = default
  <2>1. /\ e.files = tree /\ e.loaded = tree /\ e.configVersion = 0 /\ e.isolating = FALSE
        /\ e.preBatchDefaultServer = default
    BY <1>6
  <2> QED BY <1>7, <1>8, <2>1 DEF Manager
<1>11. Sound(manager)
  BY <1>5, <1>9, <1>10, PathsAssumption DEF Sound
<1>12. NoUpdate \in Updates /\ NoUpdate.consecutiveFailures = 0
  BY SMTT(20) DEF NoUpdate, Updates
<1>13. SafetyTypes
  <2>1. queue \subseteq Keys /\ effectiveBatchExclusionCount \in Nat
    BY DEF Keys
  <2>2. /\ DOMAIN objects = ResourceFiles
        /\ \A r \in ResourceFiles : objects[r] \in Specs(r) \cup {Absent}
        /\ configMapObject \in ConfigMaps
        /\ globalConfigurationObject \in GlobalConfigurations
    BY ClustersAssumption
  <2>3. DOMAIN resources = ResourceFiles /\ \A r \in ResourceFiles : resources[r] = Absent
    OBVIOUS
  <2> QED BY <1>12, <2>1, <2>2, <2>3 DEF SafetyTypes
<1>14. Control
  BY DEF Control
<1>15. update.consecutiveFailures = 0
  BY <1>12
<1>16. Phases
  BY <1>10, <1>15 DEF Phases
<1> QED BY <1>11, <1>13, <1>14, <1>16 DEF Safe

\* What the users change is of the types that the worker expects.
LEMMA UsersSafe ==
  ASSUME Safe, Users
  PROVE  /\ Safe'
         /\ UNCHANGED <<manager, resources, pc, update, startupComplete, task, readiness,
                        effectiveBatchExclusionCount>>
         /\ queue \subseteq queue'
<1>1. PICK key \in Keys : Changed(key)
  BY DEF Users, ChangeResource, ChangeConfigMap, ChangeGlobalConfiguration, Keys
<1>2. /\ UNCHANGED <<isRollbackManager, task, resources, globalConfiguration, startupComplete,
                     configMap, isNginxReady, heldForConfigSafety, batchSyncEnabled, cfgParams,
                     effectiveBatchExclusionCount, pc, update, manager>>
      /\ queue' = queue \cup {key}
  BY <1>1 DEF Changed, configuration, readiness, batching
<1> USE <1>2
<1>3. configMapObject' \in ConfigMaps /\ globalConfigurationObject' \in GlobalConfigurations
  BY DEF Users, ChangeResource, ChangeConfigMap, ChangeGlobalConfiguration, Safe, SafetyTypes
<1>4. DOMAIN objects' = ResourceFiles
      /\ \A r \in ResourceFiles : objects'[r] \in Specs(r) \cup {Absent}
  <2>1. CASE \E r \in ResourceFiles : ChangeResource(r)
    <3>1. PICK r \in ResourceFiles : \E spec \in Specs(r) \cup {Absent} :
            objects' = [objects EXCEPT ![r] = spec]
      BY <2>1 DEF ChangeResource
    <3>2. PICK spec \in Specs(r) \cup {Absent} : objects' = [objects EXCEPT ![r] = spec]
      BY <3>1
    <3> QED BY <3>2 DEF Safe, SafetyTypes
  <2>2. CASE ChangeConfigMap \/ ChangeGlobalConfiguration
    BY <2>2 DEF ChangeConfigMap, ChangeGlobalConfiguration, Safe, SafetyTypes
  <2> QED BY <2>1, <2>2 DEF Users
<1>5. SafetyTypes'
  BY <1>3, <1>4 DEF Safe, SafetyTypes
<1>6. Control' /\ Sound(manager)' /\ Phases'
  BY DEF Safe, Control, Tasks, Existing, Phases
<1> QED BY <1>5, <1>6 DEF Safe, readiness

\* The head of sync.
LEMMA DequeueSafe ==
  ASSUME Safe, NEW key, Dequeue(key)
  PROVE  /\ pc = "idle" /\ ~manager.isolating /\ (startupComplete => ~manager.batchMode)
         /\ queue' \subseteq Keys /\ key \in queue /\ queue' = queue \ {key} /\ task' = key
         /\ batchSyncEnabled' => isNginxReady
BY DEF Dequeue, Safe, SafetyTypes, Control, Phases

\* A resource is synced.
LEMMA SyncResourceSafe ==
  ASSUME isRollbackManager, Safe, NEW r \in ResourceFiles, SyncResource(r)
  PROVE  /\ Safe'
         /\ Kept(manager, manager')
         /\ EmptyHostSpecs = {} =>
              Stay(manager, manager', {q \in ResourceFiles : resources'[q] = Absent})
<1>1. /\ Dequeue(r) /\ pc' = "synced"
      /\ resources' = [resources EXCEPT ![r] = objects[r]]
      /\ UNCHANGED <<objects, configMapObject, globalConfigurationObject, globalConfiguration,
                     startupComplete, configMap, isNginxReady, heldForConfigSafety, cfgParams,
                     effectiveBatchExclusionCount, update>>
  BY DEF SyncResource, cluster, readiness
<1> USE <1>1
<1>2. /\ pc = "idle" /\ ~manager.isolating /\ (startupComplete => ~manager.batchMode)
      /\ queue' \subseteq Keys /\ (batchSyncEnabled' => isNginxReady)
  BY DequeueSafe
<1> USE <1>2
<1>3. DOMAIN resources' = ResourceFiles /\ resources'[r] = objects[r]
      /\ \A q \in ResourceFiles : resources'[q] \in Specs(q) \cup {Absent}
  BY DEF Safe, SafetyTypes
<1>4. /\ Kept(manager, manager')
      /\ EmptyHostSpecs = {} =>
           Stay(manager, manager', {q \in ResourceFiles : resources'[q] = Absent})
  <2>1. CASE ~(startupComplete /\ objects[r] # resources[r])
    <3>1. manager' = manager
      BY <2>1 DEF SyncResource
    <3> QED BY <3>1 DEF Safe, Kept, Stay
  <2>2. CASE startupComplete /\ objects[r] # resources[r] /\ objects[r] = Absent
    <3> USE <2>2
    <3> DEFINE w == delete(manager, recorded, cfgParams, r)
               n == reloaded(w, isReloadsEnabled').manager
    <3>1. manager' = n
      BY DEF SyncResource
    <3>2. Kept(manager, w.manager) /\ Stay(manager, w.manager, {r})
      BY DeletionKept DEF Safe, SafetyTypes
    <3> USE <3>2
    <3> HIDE DEF w
    <3>3. Kept(w.manager, n) /\ Stay(w.manager, n, {})
      <4>1. Sound(w.manager) /\ ~w.manager.batchMode /\ ~w.manager.isolating
        BY DEF Kept
      <4> QED BY <4>1, ReloadedKept
    <3> HIDE DEF n
    <3>4. Kept(manager, n)
      BY <3>3, KeptTwice
    <3>5. Stay(manager, n, {q \in ResourceFiles : resources'[q] = Absent})
      BY <1>3, <3>3 DEF Stay
    <3> QED BY <3>1, <3>4, <3>5
  <2>3. CASE startupComplete /\ objects[r] # resources[r] /\ objects[r] # Absent
    <3> USE <2>3
    <3> DEFINE w == addOrUpdate(manager, recorded, cfgParams, globalConfiguration, r, objects[r])
               n == reloaded(w, isReloadsEnabled').manager
    <3>1. manager' = n
      BY DEF SyncResource
    <3>2. Kept(manager, w.manager) /\ (EmptyHostSpecs = {} => Stay(manager, w.manager, {}))
      <4>1. objects[r] \in Specs(r)
        BY DEF Safe, SafetyTypes
      <4> QED BY <4>1, AddOrUpdateKept DEF Safe, SafetyTypes
    <3> USE <3>2
    <3> HIDE DEF w
    <3>3. Kept(w.manager, n) /\ Stay(w.manager, n, {})
      <4>1. Sound(w.manager) /\ ~w.manager.batchMode /\ ~w.manager.isolating
        BY DEF Kept
      <4> QED BY <4>1, ReloadedKept
    <3> HIDE DEF n
    <3>4. Kept(manager, n)
      BY <3>3, KeptTwice
    <3>5. EmptyHostSpecs = {} =>
            Stay(manager, n, {q \in ResourceFiles : resources'[q] = Absent})
      BY <3>3 DEF Stay
    <3> QED BY <3>1, <3>4, <3>5
  <2> QED BY <2>1, <2>2, <2>3
<1>5. SafetyTypes'
  BY <1>3 DEF Safe, SafetyTypes
<1>6. Control'
  BY DEF Safe, Control
<1>7. Phases'
  BY <1>4 DEF Safe, Phases, Kept
<1> QED BY <1>4, <1>5, <1>6, <1>7 DEF Safe, Kept

\* The ConfigMap is synced.
LEMMA SyncConfigMapSafe ==
  ASSUME Safe, SyncConfigMap
  PROVE  Safe' /\ manager' = manager /\ resources' = resources
<1>1. /\ Dequeue(ConfigMapKey) /\ configMap' = configMapObject
      /\ UNCHANGED <<objects, configMapObject, globalConfigurationObject, resources,
                     globalConfiguration, startupComplete, isNginxReady, heldForConfigSafety,
                     effectiveBatchExclusionCount, manager>>
      /\ IF isNginxReady /\ ~batchSyncEnabled'
         THEN cfgParams' = configMapObject /\ pc' = "update" /\ update' = NoUpdate
         ELSE pc' = "synced" /\ UNCHANGED <<cfgParams, update>>
  BY DEF SyncConfigMap, updateAllConfigs, cluster, configuration, readiness
<1> USE <1>1
<1>2. /\ pc = "idle" /\ ~manager.isolating /\ (startupComplete => ~manager.batchMode)
      /\ queue' \subseteq Keys /\ (batchSyncEnabled' => isNginxReady)
  BY DequeueSafe
<1> USE <1>2
<1>3. update' = NoUpdate /\ update = NoUpdate /\ cfgParams' \in ConfigMaps
  BY DEF Safe, SafetyTypes, Control
<1> USE <1>3
<1>4. SafetyTypes'
  BY DEF Safe, SafetyTypes
<1>5. Control'
  BY DEF Safe, Control
<1>6. Phases' /\ Sound(manager)'
  BY DEF Safe, Phases
<1> QED BY <1>4, <1>5, <1>6 DEF Safe

\* The GlobalConfiguration is synced.
LEMMA SyncGlobalConfigurationSafe ==
  ASSUME Safe, SyncGlobalConfiguration
  PROVE  Safe' /\ manager' = manager /\ resources' = resources
<1> DEFINE moved == {r \in Tasks \cap TransportServers :
                       globalConfigurationObject[r] # globalConfiguration[r]}
<1>1. /\ Dequeue(GlobalConfigurationKey) /\ globalConfiguration' = globalConfigurationObject
      /\ UNCHANGED <<objects, configMapObject, globalConfigurationObject, resources,
                     startupComplete, configMap, isNginxReady, heldForConfigSafety, cfgParams,
                     effectiveBatchExclusionCount, manager>>
      /\ IF startupComplete /\ moved # {}
         THEN pc' = "listeners" /\ update' = [NoUpdate EXCEPT !.todo = moved]
         ELSE pc' = "synced" /\ UNCHANGED update
  BY DEF SyncGlobalConfiguration, cluster, readiness
<1> USE <1>1
<1>2. /\ pc = "idle" /\ ~manager.isolating /\ (startupComplete => ~manager.batchMode)
      /\ queue' \subseteq Keys /\ (batchSyncEnabled' => isNginxReady)
  BY DequeueSafe
<1> USE <1>2
<1>3. update = NoUpdate /\ moved \subseteq Tasks /\ Tasks' = Tasks /\ Tasks \subseteq ResourceFiles
  BY DEF Safe, Control, Tasks, Existing
<1> USE <1>3
<1> HIDE DEF moved
<1>4. update' \in Updates /\ update'.consecutiveFailures = 0
      /\ (pc' = "listeners" => update'.todo = moved)
  <2>1. NoUpdate \in Updates /\ NoUpdate.consecutiveFailures = 0
    BY SMTT(20) DEF NoUpdate, Updates
  <2>2. \/ update' = NoUpdate /\ pc' # "listeners"
        \/ update' = [NoUpdate EXCEPT !.todo = moved]
    OBVIOUS
  <2>3. moved \in SUBSET ResourceFiles
    OBVIOUS
  <2> HIDE DEF NoUpdate
  <2> QED BY <2>1, <2>2, <2>3 DEF Updates
<1> USE <1>4
<1>5. SafetyTypes'
  BY DEF Safe, SafetyTypes
<1>6. Control'
  BY DEF Safe, Control
<1>7. Phases' /\ Sound(manager)'
  BY DEF Safe, Phases
<1> QED BY <1>5, <1>6, <1>7 DEF Safe

\* A TransportServer follows its listener.
LEMMA UpdateTransportServersSafe ==
  ASSUME isRollbackManager, Safe, UpdateTransportServers
  PROVE  /\ Safe'
         /\ Kept(manager, manager') /\ (EmptyHostSpecs = {} => Stay(manager, manager', {}))
         /\ pc = "listeners" /\ pc' \in {"listeners", "synced"} /\ resources' = resources
<1> DEFINE r == First(update.todo)
           w == addOrUpdate(manager, recorded, cfgParams, globalConfiguration, r, resources[r])
           last == reloaded(Wrote(w.manager, w.recorded, TRUE), isReloadsEnabled)
           ok == ~update.updateErr /\ w.ok
           updated == update.updatedResources \cup {r}
<1>1. /\ pc = "listeners"
      /\ UNCHANGED <<objects, configMapObject, globalConfigurationObject, queue, resources,
                     globalConfiguration, startupComplete, configMap, isNginxReady,
                     heldForConfigSafety, batchSyncEnabled, cfgParams,
                     effectiveBatchExclusionCount>>
      /\ IF update.todo # {r}
         THEN /\ manager' = w.manager /\ pc' = pc
              /\ update' = [update EXCEPT !.todo = @ \ {r}, !.updateErr = ~ok,
                                          !.updatedResources = updated]
         ELSE manager' = last.manager /\ update' = NoUpdate /\ pc' = "synced"
  BY DEF UpdateTransportServers, cluster, configuration, readiness, batching
<1> USE <1>1
<1>2. update.todo \subseteq Tasks /\ update.todo # {} /\ Tasks \subseteq ResourceFiles
      /\ startupComplete /\ ~manager.batchMode /\ ~manager.isolating
  BY DEF Safe, Control, Phases, Tasks
<1> USE <1>2
<1>3. r \in update.todo
  BY FirstIn
<1>4. r \in ResourceFiles /\ resources[r] \in Specs(r)
  BY <1>3 DEF Safe, SafetyTypes, Tasks, Existing
<1>5. Kept(manager, w.manager) /\ (EmptyHostSpecs = {} => Stay(manager, w.manager, {}))
  <2> HIDE DEF r
  <2> QED BY <1>4, AddOrUpdateKept DEF Safe, SafetyTypes
<1> USE <1>5
<1> HIDE DEF r, w
<1>6. Kept(w.manager, last.manager) /\ Stay(w.manager, last.manager, {})
  <2> DEFINE v == Wrote(w.manager, w.recorded, TRUE)
  <2>1. v.manager = w.manager
    BY DEF Wrote
  <2>2. Sound(w.manager) /\ ~w.manager.batchMode /\ ~w.manager.isolating
    BY DEF Kept
  <2> HIDE DEF v
  <2> QED BY <2>1, <2>2, ReloadedKept DEF v
<1>7. Kept(manager, last.manager) /\ (EmptyHostSpecs = {} => Stay(manager, last.manager, {}))
  <2>1. Kept(manager, last.manager)
    BY <1>6, KeptTwice
  <2>2. EmptyHostSpecs = {} => Stay(manager, last.manager, {})
    BY <1>6 DEF Stay
  <2> QED BY <2>1, <2>2
<1> HIDE DEF last
<1>8. Kept(manager, manager') /\ (EmptyHostSpecs = {} => Stay(manager, manager', {}))
  BY <1>7
<1> USE <1>8
<1>9. update' \in Updates
  <2>1. update \in Updates /\ NoUpdate \in Updates
    BY SMTT(20) DEF Safe, SafetyTypes, NoUpdate, Updates
  <2>2. ok \in BOOLEAN /\ updated \in SUBSET ResourceFiles /\ update.todo \ {r} \in SUBSET ResourceFiles
    BY <1>4, <2>1 DEF Updates
  <2> HIDE DEF ok, updated
  <2> QED BY <2>1, <2>2 DEF Updates
<1>10. CASE update.todo # {r}
  <2>1. pc' = "listeners" /\ update'.todo = update.todo \ {r}
    BY <1>10 DEF Safe, SafetyTypes, Updates
  <2> USE <2>1
  <2>2. update'.todo \subseteq Tasks' /\ update'.todo # {}
    BY <1>3, <1>10 DEF Tasks, Existing
  <2>3. Control'
    BY <2>2 DEF Safe, Control
  <2>4. SafetyTypes'
    BY <1>9 DEF Safe, SafetyTypes
  <2>5. Phases'
    BY DEF Safe, Phases, Kept
  <2> QED BY <2>3, <2>4, <2>5 DEF Safe, Kept
<1>11. CASE update.todo = {r}
  <2>1. pc' = "synced" /\ update' = NoUpdate
    BY <1>11
  <2> USE <2>1
  <2>2. Control'
    BY DEF Safe, Control
  <2>3. SafetyTypes'
    BY <1>9 DEF Safe, SafetyTypes
  <2>4. Phases'
    BY DEF Safe, Phases, Kept
  <2> QED BY <2>2, <2>3, <2>4 DEF Safe, Kept
<1> QED BY <1>10, <1>11

\* Startup is over.
LEMMA CompleteStartupSafe ==
  ASSUME Safe, CompleteStartup
  PROVE  Safe' /\ manager' = manager /\ resources' = resources
<1>1. /\ pc = "synced" /\ pc' = "update" /\ update' = NoUpdate /\ ~isNginxReady
      /\ startupComplete' = TRUE /\ cfgParams' = configMap
      /\ UNCHANGED <<objects, configMapObject, globalConfigurationObject, queue, resources,
                     globalConfiguration, configMap, isNginxReady, heldForConfigSafety,
                     batchSyncEnabled, effectiveBatchExclusionCount, manager>>
  BY DEF CompleteStartup, updateAllConfigs, cluster, readiness
<1> USE <1>1
<1>2. update = NoUpdate
  BY DEF Safe, Control
<1>3. SafetyTypes'
  BY <1>2 DEF Safe, SafetyTypes
<1>4. Control'
  BY DEF Safe, Control
<1>5. Phases' /\ Sound(manager)'
  BY <1>2 DEF Safe, Phases
<1> QED BY <1>3, <1>4, <1>5 DEF Safe

\* A batch of syncs is over.
LEMMA EndBatchSyncSafe ==
  ASSUME Safe, EndBatchSync
  PROVE  Safe' /\ Kept(manager, manager') /\ Stay(manager, manager', {}) /\ resources' = resources
<1>1. /\ pc = "synced" /\ batchSyncEnabled /\ batchSyncEnabled' = FALSE
      /\ UNCHANGED <<objects, configMapObject, globalConfigurationObject, queue, resources,
                     globalConfiguration, startupComplete, configMap, isNginxReady,
                     heldForConfigSafety, effectiveBatchExclusionCount>>
      /\ \/ manager' = manager /\ pc' = "update" /\ update' = NoUpdate /\ cfgParams' = configMap
         \/ manager' = Reload(manager) /\ pc' = "idle" /\ UNCHANGED <<cfgParams, update>>
  BY DEF EndBatchSync, updateAllConfigs, cluster, configuration, readiness
<1> USE <1>1
<1>2. update = NoUpdate /\ update' = NoUpdate /\ cfgParams' \in ConfigMaps
      /\ isNginxReady /\ startupComplete /\ ~manager.batchMode /\ ~manager.isolating
  BY DEF Safe, SafetyTypes, Control, Phases
<1> USE <1>2
<1>3. Kept(manager, manager') /\ Stay(manager, manager', {})
  <2>1. Kept(manager, manager) /\ Stay(manager, manager, {})
    BY DEF Safe, Kept, Stay
  <2>2. Kept(manager, Reload(manager)) /\ Stay(manager, Reload(manager), {})
    BY ReloadKept DEF Safe
  <2> QED BY <2>1, <2>2
<1>4. SafetyTypes'
  BY DEF Safe, SafetyTypes
<1>5. Control'
  BY DEF Safe, Control
<1>6. Phases'
  BY <1>3 DEF Safe, Phases, Kept
<1> QED BY <1>3, <1>4, <1>5, <1>6 DEF Safe, Kept

\* The worker takes the next key.
LEMMA EndSyncSafe ==
  ASSUME Safe, EndSync
  PROVE  Safe' /\ manager' = manager /\ resources' = resources
<1>1. /\ pc = "synced" /\ pc' = "idle"
      /\ UNCHANGED <<objects, configMapObject, globalConfigurationObject, queue, resources,
                     globalConfiguration, startupComplete, configMap, isNginxReady,
                     heldForConfigSafety, batchSyncEnabled, cfgParams,
                     effectiveBatchExclusionCount, update, manager>>
  BY DEF EndSync, cluster, configuration, readiness, batching
<1> USE <1>1
<1>2. SafetyTypes'
  BY DEF Safe, SafetyTypes
<1>3. Control'
  BY DEF Safe, Control
<1>4. Phases' /\ Sound(manager)'
  BY DEF Safe, Phases
<1> QED BY <1>2, <1>3, <1>4 DEF Safe

\* What no step of UpdateConfig changes.
LEMMA UpdatingSame ==
  Updating => UNCHANGED <<isRollbackManager, objects, configMapObject, globalConfigurationObject,
                          queue, task, resources, globalConfiguration, startupComplete, configMap,
                          isNginxReady, heldForConfigSafety, batchSyncEnabled, cfgParams>>
BY DEF Updating, cluster, configuration, readiness, batching

\* The update begins with nginx.conf and the default server.
LEMMA WriteMainConfigSafe ==
  ASSUME isRollbackManager, Safe, WriteMainConfig
  PROVE  /\ Safe'
         /\ Kept(manager, manager') /\ Stay(manager, manager', {})
         /\ resources' = resources /\ pc = "update" /\ update = NoUpdate
         /\ update'.consecutiveFailures = 0 /\ update'.resourceErrors = {}
         /\ \/ pc' = "apply" /\ update'.todo = Tasks /\ ~update'.updateErr
            \/ pc' = "finish" /\ update'.updateErr /\ ~manager.batchMode
<1> DEFINE main == CreateMain(manager, Rendered(MainSpec, cfgParams, 0))
           default == syncDefaultServerConfig(main.manager, recorded, cfgParams)
           exit == isRollbackManager /\ ~manager.batchMode
<1>1. /\ pc = "update"
      /\ manager' = default.manager
      /\ update' = [update EXCEPT !.updateErr = ~default.ok, !.todo = Tasks,
                                  !.enableEarlyExit = exit]
      /\ pc' = IF default.ok THEN "apply" ELSE "finish"
      /\ effectiveBatchExclusionCount' = effectiveBatchExclusionCount
      /\ Updating
  BY DEF WriteMainConfig
<1> USE <1>1
<1>2. /\ UNCHANGED <<objects, configMapObject, globalConfigurationObject, queue, resources,
                     globalConfiguration, startupComplete, configMap, isNginxReady,
                     heldForConfigSafety, batchSyncEnabled, cfgParams>>
  BY UpdatingSame
<1> USE <1>2
<1>3. ~manager.isolating /\ update = NoUpdate /\ startupComplete /\ cfgParams \in ConfigMaps
  BY DEF Safe, SafetyTypes, Control, Phases
<1> USE <1>3
<1>4. Kept(manager, main.manager) /\ Stay(manager, main.manager, {})
  <2>1. Rendered(MainSpec, cfgParams, 0) \in Contents
    BY RenderedAssumption
  <2> QED BY <2>1, CreateMainKept DEF Safe
<1> USE <1>4
<1> HIDE DEF main
<1>5. /\ Kept(main.manager, default.manager) /\ Stay(main.manager, default.manager, {})
      /\ default.ok \in BOOLEAN /\ (manager.batchMode => default.ok)
  <2>1. Sound(main.manager) /\ ~main.manager.isolating
        /\ main.manager.batchMode = manager.batchMode
    BY DEF Kept
  <2> QED BY <2>1, DefaultKept
<1> USE <1>5
<1> HIDE DEF default, exit
<1>6. Kept(manager, manager') /\ Stay(manager, manager', {})
  <2>1. Kept(manager, manager')
    BY KeptTwice
  <2>2. Stay(manager, manager', {})
    BY DEF Stay
  <2> QED BY <2>1, <2>2
<1>7. Tasks \in SUBSET ResourceFiles /\ Tasks' = Tasks /\ exit \in BOOLEAN
  BY DEF Tasks, Existing, exit
<1>8. /\ update' \in Updates /\ update'.todo = Tasks /\ update'.consecutiveFailures = 0
      /\ update'.resourceErrors = {} /\ update'.updateErr = ~default.ok
  <2>1. /\ update \in Updates /\ update.consecutiveFailures = 0 /\ update.resourceErrors = {}
    BY SMTT(20) DEF NoUpdate, Updates
  <2> QED BY <1>7, <2>1 DEF Updates
<1> USE <1>8
<1>9. SafetyTypes'
  BY DEF Safe, SafetyTypes
<1>10. Control'
  BY <1>7 DEF Safe, Control
<1>11. Phases'
  BY <1>6 DEF Safe, Phases, Kept
<1> QED BY <1>6, <1>9, <1>10, <1>11 DEF Safe, Kept

\* One resource of the update is written.
LEMMA ApplyTaskSafe ==
  ASSUME isRollbackManager, Safe, ApplyTask
  PROVE  \E r \in Tasks :
         /\ Safe'
         /\ Kept(manager, manager')
         /\ resources' = resources /\ pc = "apply" /\ pc' = "apply"
         /\ update.todo # {} /\ r \in update.todo /\ update'.updateErr = update.updateErr
         /\ EmptyHostSpecs = {} => Stay(manager, manager', {}) /\ Remain(manager, manager', {r})
         /\ \/ /\ update'.resourceErrors = update.resourceErrors
               /\ update'.consecutiveFailures = 0
               /\ update'.todo = update.todo \ {r}
               /\ EmptyHostSpecs = {} => /\ r \in DOMAIN manager'.files
                                         /\ manager.batchMode => r \in manager'.batchFiles
            \/ /\ update'.resourceErrors = update.resourceErrors \cup {r}
               /\ ~manager.batchMode
               /\ IF update'.consecutiveFailures >= sharedInputFailureThreshold
                  THEN update'.todo = {}
                  ELSE update'.todo = update.todo \ {r}
<1> DEFINE r == First(update.todo)
           w == addOrUpdate(manager, recorded, cfgParams, globalConfiguration, r, resources[r])
           failures == IF w.ok THEN 0
                       ELSE IF update.enableEarlyExit THEN update.consecutiveFailures + 1
                       ELSE update.consecutiveFailures
           errors == IF w.ok THEN update.resourceErrors ELSE update.resourceErrors \cup {r}
           todo == IF failures >= sharedInputFailureThreshold THEN {} ELSE update.todo \ {r}
<1>1. /\ pc = "apply" /\ pc' = "apply" /\ update.todo # {}
      /\ manager' = w.manager
      /\ update' = [update EXCEPT !.resourceErrors = errors, !.consecutiveFailures = failures,
                                  !.todo = todo]
      /\ effectiveBatchExclusionCount' = effectiveBatchExclusionCount
      /\ Updating
  BY SMTT(20) DEF ApplyTask
<1> USE <1>1
<1>2. /\ UNCHANGED <<objects, configMapObject, globalConfigurationObject, queue, resources,
                     globalConfiguration, startupComplete, configMap, isNginxReady,
                     heldForConfigSafety, batchSyncEnabled, cfgParams>>
  BY UpdatingSame
<1> USE <1>2
<1>3. /\ ~manager.isolating /\ startupComplete /\ update.todo \subseteq Tasks
      /\ Tasks \subseteq ResourceFiles /\ Tasks' = Tasks /\ update \in Updates
  BY DEF Safe, SafetyTypes, Control, Phases, Tasks, Existing
<1> USE <1>3
<1>4. r \in update.todo /\ r \in Tasks
  BY FirstIn
<1> USE <1>4
<1>5. r \in ResourceFiles /\ resources[r] \in Specs(r)
  BY DEF Safe, SafetyTypes, Tasks, Existing
<1> HIDE DEF r
<1>6. /\ Kept(manager, w.manager)
      /\ w.ok \in BOOLEAN
      /\ manager.batchMode => w.ok
      /\ EmptyHostSpecs = {} =>
           /\ Stay(manager, w.manager, {}) /\ Remain(manager, w.manager, {r})
           /\ w.ok => /\ r \in DOMAIN w.manager.files
                      /\ manager.batchMode => r \in w.manager.batchFiles
  BY <1>5, AddOrUpdateKept DEF Safe, SafetyTypes
<1> USE <1>6
<1> HIDE DEF w
<1>7. /\ failures \in Nat /\ (w.ok => failures = 0)
      /\ (failures = 0 => ~(failures >= sharedInputFailureThreshold))
  BY SMTT(20) DEF Updates, sharedInputFailureThreshold
<1> USE <1>7
<1>8. errors \in SUBSET Paths /\ todo \in SUBSET ResourceFiles /\ todo \subseteq Tasks
  BY <1>5 DEF Updates, Paths
<1> HIDE DEF failures
<1>9. todo = IF failures >= sharedInputFailureThreshold THEN {} ELSE update.todo \ {r}
  OBVIOUS
<1>10. errors = IF w.ok THEN update.resourceErrors ELSE update.resourceErrors \cup {r}
  OBVIOUS
<1> HIDE DEF errors, todo
<1>11. /\ update' \in Updates /\ update'.todo = todo /\ update'.consecutiveFailures = failures
       /\ update'.resourceErrors = errors /\ update'.updateErr = update.updateErr
  BY <1>8 DEF Updates
<1> USE <1>11
<1>12. SafetyTypes'
  BY DEF Safe, SafetyTypes
<1>13. Control'
  BY <1>8 DEF Safe, Control
<1>14. Phases'
  BY DEF Safe, Phases, Kept
<1>15. Safe'
  BY <1>12, <1>13, <1>14 DEF Safe, Kept
<1>16. CASE w.ok
  BY <1>9, <1>10, <1>15, <1>16
<1>17. CASE ~w.ok
  BY <1>9, <1>10, <1>15, <1>17
<1> QED BY <1>16, <1>17

\* One iteration of isolateBadConfigs, as long as files can be removed: the files work and it
\* is over; one file of the batch is excluded; or none is left and it fails.
LEMMA IsolateSound ==
  ASSUME ~DiskFaults, NEW m, Sound(m), m.isolating, NEW o \in isolateBadConfigs(m)
  PROVE  LET n == o.manager
         IN /\ Sound(n) /\ ~n.batchMode /\ n.isolating \in BOOLEAN
            /\ n.batchExcluded \subseteq Paths
            /\ \/ /\ ~n.isolating /\ o.ok /\ Accepts(n.files)
                  /\ n.files = m.files /\ n.batchExcluded = m.batchExcluded
               \/ /\ n.isolating
                  /\ m.batchExcluded \subseteq n.batchExcluded
                  /\ \A r \in ResourceFiles : r \in m.batchFiles /\ r \in DOMAIN m.files =>
                       r \in n.batchExcluded \/ (r \in n.batchFiles /\ r \in DOMAIN n.files)
               \/ ~n.isolating /\ ~o.ok /\ ~Accepts(n.files)
<1> DEFINE n == o.manager
           excluded == parsePathFromError(m) \cup (IF m.batchFiles = {} THEN {} ELSE searched(m))
           done == [m EXCEPT !.batchFiles = {}, !.isolating = FALSE]
<1>1. m \in Manager /\ n \in Manager /\ m.files \in Trees /\ ~m.batchMode
  BY IsolateOK DEF Sound, Manager
<1> USE <1>1
<1>2. excluded \subseteq m.batchFiles
  BY DEF parsePathFromError, searched
<1>3. \/ Accepts(m.files) /\ o = Outcome(done, TRUE)
      \/ ~Accepts(m.files) /\ \E p \in excluded : o = Outcome(excludeConfig(m, p), TRUE)
      \/ /\ ~Accepts(m.files) /\ m.batchFiles = {}
         /\ \E stuck : o = Outcome(removeAllBatchFiles(m, stuck), FALSE)
  BY DEF isolateBadConfigs
<1> HIDE DEF excluded
<1>4. n.batchExcluded \subseteq Paths /\ n.isolating \in BOOLEAN
  BY DEF Manager, Paths
<1> USE <1>4
<1>5. CASE Accepts(m.files) /\ o = Outcome(done, TRUE)
  <2>1. n = done /\ o.ok = TRUE
    BY <1>5 DEF Outcome
  <2>2. /\ n.files = m.files /\ n.loaded = m.loaded /\ n.configVersion = m.configVersion
        /\ n.batchMode = m.batchMode /\ n.isolating = FALSE /\ n.batchExcluded = m.batchExcluded
    BY <2>1 DEF Manager
  <2> HIDE DEF n, done
  <2>3. Sound(n)
    BY <2>2 DEF Sound
  <2> QED BY <1>5, <2>1, <2>2, <2>3 DEF n
<1>6. CASE ~Accepts(m.files) /\ \E p \in excluded : o = Outcome(excludeConfig(m, p), TRUE)
  <2>1. PICK p \in m.batchFiles : o = Outcome(excludeConfig(m, p), TRUE)
    BY <1>2, <1>6
  <2> DEFINE restores == p = DefaultServer /\ m.preBatchDefaultServer # NoPath
             tree == IF restores THEN written(m.files, p, m.preBatchDefaultServer)
                     ELSE removed(m.files, {p})
  <2>2. n = excludeConfig(m, p)
    BY <2>1 DEF Outcome
  <2>3. /\ n.files = tree /\ n.loaded = m.loaded /\ n.configVersion = m.configVersion
        /\ n.batchMode = m.batchMode /\ n.isolating = m.isolating
        /\ n.batchFiles = m.batchFiles \ {p} /\ n.batchExcluded = m.batchExcluded \cup {p}
        /\ n.preBatchDefaultServer = IF restores THEN NoPath ELSE m.preBatchDefaultServer
    BY <2>2 DEF excludeConfig, Manager
  <2> USE <2>3
  <2>4. p = DefaultServer => restores
    BY DEF Sound
  <2>5. \A q : q \in DOMAIN m.files /\ (q # p \/ restores) => q \in DOMAIN tree
    BY DEF written, removed
  <2>6. p # MainConf
    BY PathsAssumption DEF Manager
  <2>7. MainConf \in DOMAIN tree /\ DefaultServer \in DOMAIN tree
    BY <2>4, <2>5, <2>6 DEF Sound
  <2>8. DefaultServer \in m.batchFiles \ {p} => ~restores /\ m.preBatchDefaultServer # NoPath
    BY DEF Sound
  <2> HIDE DEF n, tree, restores
  <2>9. DOMAIN m.loaded \cap ResourceFiles = {} /\ m.configVersion = 0
    BY DEF Sound
  <2>10. Sound(n)
    BY <2>7, <2>8, <2>9 DEF Sound
  <2>11. \A r \in ResourceFiles : r \in m.batchFiles /\ r \in DOMAIN m.files =>
           r \in n.batchExcluded \/ (r \in n.batchFiles /\ r \in DOMAIN n.files)
    BY <2>5
  <2> QED BY <2>10, <2>11 DEF n
<1>7. CASE /\ ~Accepts(m.files) /\ m.batchFiles = {}
           /\ \E stuck : o = Outcome(removeAllBatchFiles(m, stuck), FALSE)
  <2>0. PICK stuck : o = Outcome(removeAllBatchFiles(m, stuck), FALSE)
    BY <1>7
  <2>1. n = removeAllBatchFiles(m, stuck) /\ o.ok = FALSE
    BY <2>0 DEF Outcome
  <2>2. removed(m.files, m.batchFiles \ stuck) = m.files
    BY <1>7 DEF removed, Trees
  <2>3. /\ n.files = m.files /\ n.loaded = m.loaded /\ n.configVersion = m.configVersion
        /\ n.batchMode = m.batchMode /\ n.isolating = FALSE
    BY <2>1, <2>2 DEF removeAllBatchFiles, Manager
  <2> HIDE DEF n
  <2>4. Sound(n)
    BY <1>7, <2>3 DEF Sound
  <2> QED BY <1>7, <2>1, <2>3, <2>4 DEF n
<1> QED BY <1>3, <1>5, <1>6, <1>7

\* The batch is written, and isolation begins.
LEMMA StartIsolationSafe ==
  ASSUME Safe, StartIsolation
  PROVE  /\ Safe'
         /\ manager.batchMode /\ ~manager'.batchMode /\ manager'.isolating /\ pc = "apply"
         /\ pc' = "isolate" /\ update.todo = {} /\ update' = update /\ resources' = resources
         /\ manager'.files = manager.files /\ manager'.batchFiles = manager.batchFiles
<1>1. /\ pc = "apply" /\ pc' = "isolate" /\ update.todo = {} /\ manager.batchMode
      /\ manager' = CompleteBatch(manager) /\ effectiveBatchExclusionCount' = 0
      /\ update' = update /\ Updating
  BY DEF StartIsolation
<1> USE <1>1
<1>2. UNCHANGED <<objects, configMapObject, globalConfigurationObject, queue, resources,
                  globalConfiguration, startupComplete, configMap, isNginxReady,
                  heldForConfigSafety, batchSyncEnabled, cfgParams>>
  BY UpdatingSame
<1> USE <1>2
<1>3. manager \in Manager
  BY DEF Safe, Sound
<1>4. /\ manager' \in Manager /\ manager'.files = manager.files
      /\ manager'.loaded = manager.loaded /\ manager'.configVersion = manager.configVersion
      /\ manager'.batchMode = FALSE /\ manager'.isolating = TRUE
      /\ manager'.batchFiles = manager.batchFiles
      /\ manager'.preBatchDefaultServer = manager.preBatchDefaultServer
  BY <1>3 DEF CompleteBatch, Manager
<1> USE <1>4
<1>5. Sound(manager')
  BY DEF Safe, Sound
<1>6. SafetyTypes'
  BY DEF Safe, SafetyTypes
<1>7. Control'
  BY DEF Safe, Control
<1>8. Phases'
  BY DEF Safe, Phases
<1> QED BY <1>5, <1>6, <1>7, <1>8 DEF Safe

\* Isolation goes on, leaves the files that work, or fails.
LEMMA IsolateSafe ==
  ASSUME ~DiskFaults, Safe, Isolate
  PROVE  /\ Safe'
         /\ manager.isolating /\ ~manager'.batchMode /\ pc = "isolate" /\ resources' = resources
         /\ update'.todo = {} /\ update'.consecutiveFailures = 0
         /\ \/ /\ pc' = "isolate" /\ manager'.isolating
               /\ UNCHANGED <<update, effectiveBatchExclusionCount>>
               /\ manager.batchExcluded \subseteq manager'.batchExcluded
               /\ \A r \in ResourceFiles : r \in manager.batchFiles /\ r \in DOMAIN manager.files =>
                    \/ r \in manager'.batchExcluded
                    \/ r \in manager'.batchFiles /\ r \in DOMAIN manager'.files
            \/ /\ pc' = "apply" /\ Accepts(manager'.files) /\ manager'.files = manager.files
               /\ update' = [update EXCEPT !.resourceErrors =
                               UNION {owners(p) : p \in manager.batchExcluded}]
               /\ effectiveBatchExclusionCount' = Cardinality(update'.resourceErrors)
            \/ /\ pc' = "finish" /\ update'.updateErr
               /\ effectiveBatchExclusionCount' = Cardinality(Tasks)
<1>1. /\ pc = "isolate" /\ Updating
      /\ \E o \in isolateBadConfigs(manager) :
           LET m == o.manager
               excluded == UNION {owners(p) : p \in m.batchExcluded}
           IN /\ manager' = m
              /\ IF m.isolating
                 THEN UNCHANGED <<pc, update, effectiveBatchExclusionCount>>
                 ELSE IF o.ok
                 THEN /\ update' = [update EXCEPT !.resourceErrors = excluded]
                      /\ effectiveBatchExclusionCount' = Cardinality(excluded)
                      /\ pc' = "apply"
                 ELSE ~Accepts(m.files) =>
                      /\ update' = [update EXCEPT !.resourceErrors = Tasks, !.updateErr = TRUE]
                      /\ effectiveBatchExclusionCount' = Cardinality(Tasks)
                      /\ pc' = "finish"
  BY DEF Isolate
<1> USE <1>1
<1>2. PICK o \in isolateBadConfigs(manager) :
        /\ manager' = o.manager
        /\ o.manager.isolating => UNCHANGED <<pc, update, effectiveBatchExclusionCount>>
        /\ ~o.manager.isolating /\ o.ok =>
             /\ update' = [update EXCEPT !.resourceErrors =
                             UNION {owners(p) : p \in manager'.batchExcluded}]
             /\ effectiveBatchExclusionCount' =
                  Cardinality(UNION {owners(p) : p \in manager'.batchExcluded})
             /\ pc' = "apply"
        /\ ~o.manager.isolating /\ ~o.ok /\ ~Accepts(o.manager.files) =>
             /\ update' = [update EXCEPT !.resourceErrors = Tasks, !.updateErr = TRUE]
             /\ effectiveBatchExclusionCount' = Cardinality(Tasks)
             /\ pc' = "finish"
  OBVIOUS
<1> USE <1>2
<1>3. UNCHANGED <<objects, configMapObject, globalConfigurationObject, queue, resources,
                  globalConfiguration, startupComplete, configMap, isNginxReady,
                  heldForConfigSafety, batchSyncEnabled, cfgParams>>
  BY UpdatingSame
<1> USE <1>3
<1>4. /\ manager.isolating /\ startupComplete /\ update \in Updates /\ update.todo = {}
      /\ update.consecutiveFailures = 0 /\ ~isNginxReady /\ ~heldForConfigSafety
      /\ Tasks \subseteq ResourceFiles /\ Tasks' = Tasks
  BY DEF Safe, SafetyTypes, Control, Phases, Tasks, Existing
<1> USE <1>4
<1> DEFINE n == manager'
           excluded == UNION {owners(p) : p \in n.batchExcluded}
<1>5. /\ Sound(n) /\ ~n.batchMode /\ n.isolating \in BOOLEAN
      /\ n.batchExcluded \subseteq Paths
      /\ \/ /\ ~n.isolating /\ o.ok /\ Accepts(n.files)
            /\ n.files = manager.files /\ n.batchExcluded = manager.batchExcluded
         \/ /\ n.isolating
            /\ manager.batchExcluded \subseteq n.batchExcluded
            /\ \A r \in ResourceFiles : r \in manager.batchFiles /\ r \in DOMAIN manager.files =>
                 r \in n.batchExcluded \/ (r \in n.batchFiles /\ r \in DOMAIN n.files)
         \/ ~n.isolating /\ ~o.ok /\ ~Accepts(n.files)
  BY IsolateSound DEF Safe
<1> USE <1>5
<1>6. excluded \subseteq Paths
  BY DEF owners, Paths
<1>7. IsFiniteSet(Paths)
  <2>1. Paths = (ResourceFiles \cup {MainConf}) \cup {DefaultServer}
    BY DEF Paths
  <2>2. IsFiniteSet(ResourceFiles \cup {MainConf})
    BY ResourcesAssumption, FS_AddElement
  <2> QED BY <2>1, <2>2, FS_AddElement
<1>8. Cardinality(excluded) \in Nat /\ Cardinality(Tasks) \in Nat
  <2>1. Tasks \subseteq Paths
    BY DEF Paths
  <2>2. IsFiniteSet(excluded) /\ IsFiniteSet(Tasks)
    BY <1>6, <1>7, <2>1, FS_Subset
  <2> QED BY <2>2, FS_CardinalityType
<1> HIDE DEF excluded
<1>9. CASE n.isolating
  <2> USE <1>9
  <2>1. UNCHANGED <<pc, update, effectiveBatchExclusionCount>>
    OBVIOUS
  <2> USE <2>1
  <2>2. SafetyTypes'
    BY DEF Safe, SafetyTypes
  <2>3. Control'
    BY DEF Safe, Control
  <2>4. Phases'
    BY DEF Phases
  <2> QED BY <2>2, <2>3, <2>4 DEF Safe
<1>10. CASE ~n.isolating /\ o.ok
  <2> USE <1>10
  <2>1. /\ update' = [update EXCEPT !.resourceErrors = excluded]
        /\ effectiveBatchExclusionCount' = Cardinality(excluded) /\ pc' = "apply"
    BY DEF excluded
  <2> USE <2>1
  <2>2. /\ update' \in Updates /\ update'.todo = {} /\ update'.consecutiveFailures = 0
        /\ update'.resourceErrors = excluded
    BY <1>6 DEF Updates
  <2> USE <2>2
  <2>3. SafetyTypes'
    BY <1>8 DEF Safe, SafetyTypes
  <2>4. Control'
    BY DEF Safe, Control
  <2>5. Phases'
    BY DEF Phases
  <2>6. Accepts(n.files) /\ n.files = manager.files /\ n.batchExcluded = manager.batchExcluded
    OBVIOUS
  <2> QED BY <2>3, <2>4, <2>5, <2>6 DEF Safe, excluded
<1>11. CASE ~n.isolating /\ ~o.ok
  <2> USE <1>11
  <2>1. ~Accepts(n.files)
    OBVIOUS
  <2>2. /\ update' = [update EXCEPT !.resourceErrors = Tasks, !.updateErr = TRUE]
        /\ effectiveBatchExclusionCount' = Cardinality(Tasks) /\ pc' = "finish"
    BY <2>1
  <2> USE <2>2
  <2>3. /\ update' \in Updates /\ update'.todo = {} /\ update'.consecutiveFailures = 0
        /\ update'.updateErr
    <3>1. Tasks \in SUBSET Paths
      BY DEF Paths
    <3> QED BY <3>1 DEF Updates
  <2> USE <2>3
  <2>4. SafetyTypes'
    BY <1>8 DEF Safe, SafetyTypes
  <2>5. Control'
    BY DEF Safe, Control
  <2>6. Phases'
    BY DEF Phases
  <2> QED BY <2>4, <2>5, <2>6 DEF Safe
<1> QED BY <1>9, <1>10, <1>11

\* The update ends with a reload, or without one after shared-input failures.
LEMMA ReloadAllSafe ==
  ASSUME Safe, ReloadAll
  PROVE  /\ Safe'
         /\ Kept(manager, manager') /\ Stay(manager, manager', {})
         /\ resources' = resources /\ pc = "apply" /\ update.todo = {} /\ ~manager.batchMode
         /\ pc' = "finish" /\ update'.resourceErrors = update.resourceErrors
         /\ update'.consecutiveFailures = update.consecutiveFailures
         /\ effectiveBatchExclusionCount' = effectiveBatchExclusionCount
         /\ IF update.consecutiveFailures >= sharedInputFailureThreshold
            THEN UNCHANGED <<manager, update>>
            ELSE /\ update'.updateErr = ~Accepts(manager.files)
                 /\ Accepts(manager.files) => Working(manager') /\ manager'.loaded = manager.files
<1> DEFINE gaveUp == update.consecutiveFailures >= sharedInputFailureThreshold
<1>1. /\ pc = "apply" /\ pc' = "finish" /\ update.todo = {} /\ ~manager.batchMode
      /\ effectiveBatchExclusionCount' = effectiveBatchExclusionCount
      /\ IF gaveUp
         THEN UNCHANGED <<manager, update>>
         ELSE /\ manager' = Reload(manager)
              /\ update' = [update EXCEPT !.updateErr = ~Accepts(manager.files)]
      /\ Updating
  BY DEF ReloadAll, sharedInputFailure
<1> USE <1>1
<1>2. UNCHANGED <<objects, configMapObject, globalConfigurationObject, queue, resources,
                  globalConfiguration, startupComplete, configMap, isNginxReady,
                  heldForConfigSafety, batchSyncEnabled, cfgParams>>
  BY UpdatingSame
<1> USE <1>2
<1>3. ~manager.isolating /\ startupComplete /\ update \in Updates
  BY DEF Safe, SafetyTypes, Control, Phases
<1> USE <1>3
<1>4. /\ Kept(manager, Reload(manager)) /\ Stay(manager, Reload(manager), {})
      /\ Accepts(manager.files) => Working(Reload(manager))
                                   /\ Reload(manager).loaded = manager.files
  BY ReloadKept DEF Safe
<1>5. Kept(manager, manager) /\ Stay(manager, manager, {})
  BY DEF Safe, Kept, Stay
<1>6. Accepts(manager.files) \in BOOLEAN
  BY PathsAssumption DEF Safe, Sound, Manager
<1>7. /\ update' \in Updates /\ update'.todo = {}
      /\ update'.resourceErrors = update.resourceErrors
      /\ update'.consecutiveFailures = update.consecutiveFailures
      /\ ~gaveUp => update'.updateErr = ~Accepts(manager.files)
  <2> HIDE DEF gaveUp
  <2> QED BY <1>6 DEF Updates
<1> USE <1>7
<1>8. Kept(manager, manager') /\ Stay(manager, manager', {})
  BY <1>4, <1>5
<1> USE <1>8
<1>9. SafetyTypes'
  BY DEF Safe, SafetyTypes
<1>10. Control'
  BY DEF Safe, Control
<1>11. Phases'
  BY DEF Safe, Phases, Kept
<1>12. Safe'
  BY <1>9, <1>10, <1>11 DEF Safe, Kept
<1> HIDE DEF gaveUp
<1> QED BY <1>4, <1>12 DEF gaveUp

\* The gate: the pod gets Ready, is held back, or keeps its state.
LEMMA FinishUpdateSafe ==
  ASSUME Safe, FinishUpdate
  PROVE  /\ Safe'
         /\ manager' = manager /\ resources' = resources /\ startupComplete
         /\ ~manager.batchMode /\ ~manager.isolating
<1>1. /\ pc = "finish" /\ pc' = "idle" /\ update' = NoUpdate
      /\ isNginxReady' = ~holdsBack
      /\ heldForConfigSafety' = ((heldForConfigSafety /\ ~selfHeals) \/ holdsBack)
      /\ UNCHANGED <<objects, configMapObject, globalConfigurationObject, queue, resources,
                     globalConfiguration, startupComplete, configMap, batchSyncEnabled, cfgParams,
                     effectiveBatchExclusionCount, manager>>
  BY DEF FinishUpdate, cluster, configuration, batching
<1> USE <1>1
<1>2. startupComplete /\ ~manager.batchMode /\ ~manager.isolating
  BY DEF Safe, Control, Phases
<1> USE <1>2
<1>3. isNginxReady' \in BOOLEAN /\ heldForConfigSafety' \in BOOLEAN
      /\ (isNginxReady => isNginxReady')
  BY DEF holdsBack
<1>4. NoUpdate \in Updates
  BY SMTT(20) DEF NoUpdate, Updates
<1>5. SafetyTypes'
  BY <1>3, <1>4 DEF Safe, SafetyTypes
<1>6. Control'
  BY <1>3 DEF Safe, Control
<1>7. Phases' /\ Sound(manager)'
  BY DEF Safe, Phases
<1> QED BY <1>5, <1>6, <1>7 DEF Safe

\* Every step keeps SafetyInv.
LEMMA SafetyStep ==
  ASSUME ~DiskFaults, Unparsable = {}, SafetyInv, [Next]_safetyVars
  PROVE  SafetyInv' /\ isRollbackManager' = isRollbackManager
<1>1. isRollbackManager' = isRollbackManager
  <2>1. CASE Worker
    BY <2>1, UpdatingSame
    DEF Worker, SyncResource, SyncConfigMap, SyncGlobalConfiguration, UpdateTransportServers,
        CompleteStartup, EndBatchSync, EndSync, ParseTemplates, WriteMainConfig, ApplyTask,
        StartIsolation, Isolate, ReloadAll, FinishUpdate, cluster
  <2>2. CASE Users
    BY <2>2 DEF Users, ChangeResource, ChangeConfigMap, ChangeGlobalConfiguration, Changed
  <2>3. CASE UNCHANGED safetyVars
    BY <2>3 DEF safetyVars, cluster
  <2> QED BY <2>1, <2>2, <2>3 DEF Next
<1> SUFFICES ASSUME isRollbackManager, Safe PROVE Safe'
  BY <1>1 DEF SafetyInv
<1>2. ASSUME Worker PROVE Safe'
  <2>1. ~ParseTemplates
    BY DEF ParseTemplates
  <2> QED BY <1>2, <2>1, SyncResourceSafe, SyncConfigMapSafe, SyncGlobalConfigurationSafe,
             UpdateTransportServersSafe, CompleteStartupSafe, EndBatchSyncSafe, EndSyncSafe,
             WriteMainConfigSafe, ApplyTaskSafe, StartIsolationSafe, IsolateSafe, ReloadAllSafe,
             FinishUpdateSafe DEF Worker
<1>3. ASSUME UNCHANGED safetyVars PROVE Safe'
  <2>1. UNCHANGED <<objects, configMapObject, globalConfigurationObject, queue, resources,
                    globalConfiguration, startupComplete, configMap, isNginxReady,
                    heldForConfigSafety, batchSyncEnabled, cfgParams,
                    effectiveBatchExclusionCount, pc, update, manager>>
    BY <1>3 DEF safetyVars, cluster, configuration, readiness, batching
  <2> QED BY <2>1 DEF Safe, SafetyTypes, Control, Phases, Tasks, Existing
<1> QED BY <1>2, <1>3, UsersSafe DEF Next

-----------------------------------------------------------------------------
(* What is served.                                                           *)

\* As long as files can be removed, the templates parse and no Ingress has the empty host: a
\* step keeps what is served and still exists.
LEMMA ServedStep ==
  ASSUME ~DiskFaults, EmptyHostSpecs = {}, Unparsable = {}, isRollbackManager, Safe, Next
  PROVE  Stay(manager, manager', {q \in ResourceFiles : resources'[q] = Absent})
<1> DEFINE gone == {q \in ResourceFiles : resources'[q] = Absent}
<1>1. Stay(manager, manager', {}) => Stay(manager, manager', gone)
  BY DEF Stay
<1> USE <1>1
<1>2. manager' = manager => Stay(manager, manager', {})
  BY DEF Stay
<1>3. manager.batchMode \/ manager.isolating => Stay(manager, manager', {})
  BY DEF Stay, Both, Safe, Sound
<1>4. CASE \E r \in ResourceFiles : SyncResource(r)
  BY <1>4, SyncResourceSafe
<1>5. CASE UpdateTransportServers \/ ApplyTask
  BY <1>5, UpdateTransportServersSafe, ApplyTaskSafe
<1>6. CASE EndBatchSync \/ WriteMainConfig \/ ReloadAll
  BY <1>6, EndBatchSyncSafe, WriteMainConfigSafe, ReloadAllSafe
<1>7. CASE StartIsolation \/ Isolate
  BY <1>3, <1>7, StartIsolationSafe, IsolateSafe
<1>8. CASE SyncConfigMap \/ SyncGlobalConfiguration \/ CompleteStartup \/ EndSync \/ FinishUpdate
  BY <1>2, <1>8, SyncConfigMapSafe, SyncGlobalConfigurationSafe, CompleteStartupSafe,
     EndSyncSafe, FinishUpdateSafe
<1>9. CASE Users
  BY <1>2, <1>9, UsersSafe
<1>10. ~ParseTemplates
  BY DEF ParseTemplates
<1> QED BY <1>4, <1>5, <1>6, <1>7, <1>8, <1>9, <1>10 DEF Next, Worker

\* Config safety keeps what works, for any resources, specs, ConfigMaps and verdicts of NGINX:
\* a resource that NGINX serves, and would serve after a reload, is served until it is deleted.
THEOREM ServedKept ==
  ASSUME ~DiskFaults, Unparsable = {}, EmptyHostSpecs = {}
  PROVE  Spec => ServedStaysServed
<1>1. SafetyInv /\ [Next]_safetyVars
        => [isRollbackManager => \A r \in ResourceFiles :
              Served(r) /\ Existing(r)' => Served(r)']_safetyVars
  <2> SUFFICES ASSUME SafetyInv, Next, isRollbackManager, NEW r \in ResourceFiles,
                      Served(r), Existing(r)'
               PROVE  Served(r)'
    OBVIOUS
  <2>1. \A tree : Serves(tree, r) <=> r \in DOMAIN tree
    BY DEF Serves
  <2>2. Both(manager, r) /\ resources'[r] # Absent
    BY <2>1 DEF Served, Both, Existing
  <2>3. Stay(manager, manager', {q \in ResourceFiles : resources'[q] = Absent})
    BY ServedStep DEF SafetyInv
  <2>4. Both(manager', r)
    BY <2>2, <2>3 DEF Stay
  <2> QED BY <2>1, <2>4 DEF Served, Both
<1>2. SafetyInv /\ [Next]_safetyVars => SafetyInv'
  BY SafetyStep
<1> QED BY <1>1, <1>2, SafeInit, PTL DEF Spec, ServedStaysServed

-----------------------------------------------------------------------------
(* The readiness gate.                                                       *)

\* The resources are counted: fewer resources, a smaller count.
LEMMA Counted ==
  /\ IsFiniteSet(Paths) /\ IsFiniteSet(Keys)
  /\ \A S, T : S \subseteq T /\ T \subseteq Paths =>
       /\ Cardinality(S) \in Nat /\ Cardinality(T) \in Nat /\ Cardinality(S) <= Cardinality(T)
       /\ Cardinality(S) = 0 <=> S = {}
  /\ \A S : S \subseteq Keys => (Cardinality(S) = 0 <=> S = {})
<1>1. IsFiniteSet(Paths)
  <2>1. Paths = (ResourceFiles \cup {MainConf}) \cup {DefaultServer}
    BY DEF Paths
  <2>2. IsFiniteSet(ResourceFiles \cup {MainConf})
    BY ResourcesAssumption, FS_AddElement
  <2> QED BY <2>1, <2>2, FS_AddElement
<1>2. IsFiniteSet(Keys)
  <2>1. Keys = (ResourceFiles \cup {ConfigMapKey}) \cup {GlobalConfigurationKey}
    BY DEF Keys
  <2>2. IsFiniteSet(ResourceFiles \cup {ConfigMapKey})
    BY ResourcesAssumption, FS_AddElement
  <2> QED BY <2>1, <2>2, FS_AddElement
<1>3. ASSUME NEW S, NEW T, S \subseteq T, T \subseteq Paths
      PROVE  /\ Cardinality(S) \in Nat /\ Cardinality(T) \in Nat
             /\ Cardinality(S) <= Cardinality(T)
             /\ Cardinality(S) = 0 <=> S = {}
  <2>1. IsFiniteSet(T)
    BY <1>1, <1>3, FS_Subset
  <2>2. IsFiniteSet(S) /\ Cardinality(S) <= Cardinality(T)
    BY <1>3, <2>1, FS_Subset
  <2> QED BY <2>1, <2>2, FS_CardinalityType, FS_EmptySet
<1>4. ASSUME NEW S, S \subseteq Keys PROVE Cardinality(S) = 0 <=> S = {}
  <2>1. IsFiniteSet(S)
    BY <1>2, <1>4, FS_Subset
  <2> QED BY <2>1, FS_EmptySet
<1> QED BY <1>1, <1>2, <1>3, <1>4

\* Only FinishUpdate passes the gate, and only the isolation counts.
LEMMA GateFrame ==
  ASSUME Next, ~FinishUpdate
  PROVE  /\ isNginxReady' = isNginxReady /\ heldForConfigSafety' = heldForConfigSafety
         /\ ~StartIsolation /\ ~Isolate =>
              effectiveBatchExclusionCount' = effectiveBatchExclusionCount
<1>1. CASE Users
  BY <1>1 DEF Users, ChangeResource, ChangeConfigMap, ChangeGlobalConfiguration, Changed, readiness
<1>2. CASE UpdateTransportServers \/ ParseTemplates \/ WriteMainConfig \/ ApplyTask
           \/ StartIsolation \/ Isolate \/ ReloadAll
  BY <1>2, UpdatingSame
  DEF UpdateTransportServers, ParseTemplates, WriteMainConfig, ApplyTask, StartIsolation,
      Isolate, ReloadAll, readiness
<1>3. CASE \/ \E r \in ResourceFiles : SyncResource(r)
           \/ SyncConfigMap \/ SyncGlobalConfiguration \/ CompleteStartup \/ EndBatchSync \/ EndSync
  BY <1>3
  DEF SyncResource, SyncConfigMap, SyncGlobalConfiguration, CompleteStartup, EndBatchSync,
      EndSync, readiness
<1> QED BY <1>1, <1>2, <1>3 DEF Next, Worker

\* The steps outside of an update.
LEMMA GateQuiet ==
  ASSUME Gate, Kept(manager, manager'),
         isNginxReady' = isNginxReady, heldForConfigSafety' = heldForConfigSafety,
         pc \notin {"apply", "finish"}, pc' \notin {"apply", "finish"}
  PROVE  Finished' /\ Gate'
<1>1. isNginxReady' \/ heldForConfigSafety' \/ manager'.batchMode \/ manager'.isolating
  BY DEF Gate, Kept
<1> QED BY <1>1 DEF Finished, Gate

\* The gate itself: after it the pod is Ready or held back.
LEMMA GateFinish ==
  ASSUME FinishUpdate
  PROVE  Finished' /\ Gate'
<1>1. /\ pc' = "idle" /\ isNginxReady' = ~holdsBack
      /\ heldForConfigSafety' = ((heldForConfigSafety /\ ~selfHeals) \/ holdsBack)
  BY DEF FinishUpdate
<1>2. isNginxReady' \/ heldForConfigSafety'
  BY <1>1
<1> QED BY <1>1, <1>2 DEF Finished, Gate

\* Every step keeps the gate.
LEMMA GateStep ==
  ASSUME ~DiskFaults, Unparsable = {}, isRollbackManager, Safe, Finished, Gate, Next
  PROVE  Finished' /\ Gate'
<1>1. manager' = manager => Kept(manager, manager')
  BY DEF Kept, Safe
<1>2. 0 # 1 /\ ~(0 > 0) /\ ~(0 >= sharedInputFailureThreshold)
  BY SMTT(20) DEF sharedInputFailureThreshold
<1> USE <1>2
<1>3. CASE FinishUpdate
  BY <1>3, GateFinish
<1>4. CASE \/ \E r \in ResourceFiles : SyncResource(r)
           \/ SyncConfigMap \/ SyncGlobalConfiguration \/ UpdateTransportServers
           \/ CompleteStartup \/ EndBatchSync \/ EndSync
  <2>1. Kept(manager, manager')
    BY <1>1, <1>4, SyncResourceSafe, SyncConfigMapSafe, SyncGlobalConfigurationSafe,
       UpdateTransportServersSafe, CompleteStartupSafe, EndBatchSyncSafe, EndSyncSafe
  <2>2. pc \in {"idle", "synced", "listeners"} /\ pc' \in {"idle", "synced", "listeners", "update"}
    BY <1>4, UpdateTransportServersSafe
    DEF SyncResource, SyncConfigMap, SyncGlobalConfiguration, Dequeue, updateAllConfigs,
        CompleteStartup, EndBatchSync, EndSync
  <2>3. ~FinishUpdate
    BY <2>2 DEF FinishUpdate
  <2> QED BY <2>1, <2>2, <2>3, GateFrame, GateQuiet
<1>5. CASE Users
  <2>1. UNCHANGED <<manager, resources, pc, update, isNginxReady, heldForConfigSafety,
                    effectiveBatchExclusionCount>>
    BY <1>5, UsersSafe DEF readiness
  <2>2. Tasks' = Tasks
    BY <2>1 DEF Tasks, Existing
  <2> QED BY <2>1, <2>2 DEF Finished, Gate
<1>6. CASE WriteMainConfig
  <2>1. /\ Kept(manager, manager') /\ pc = "update" /\ update'.consecutiveFailures = 0
        /\ pc' = "apply" \/ (pc' = "finish" /\ update'.updateErr)
    BY <1>6, WriteMainConfigSafe
  <2> USE <2>1
  <2>2. isNginxReady' = isNginxReady /\ heldForConfigSafety' = heldForConfigSafety
    BY GateFrame DEF FinishUpdate
  <2>3. isNginxReady' \/ heldForConfigSafety' \/ manager'.batchMode \/ manager'.isolating
    BY <2>2 DEF Gate, Kept
  <2> QED BY <2>3 DEF Finished, Gate
<1>7. CASE ApplyTask
  <2>1. PICK r \in Tasks :
          /\ Kept(manager, manager') /\ pc = "apply" /\ pc' = "apply" /\ update.todo # {}
          /\ \/ update'.consecutiveFailures = 0
             \/ update'.resourceErrors = update.resourceErrors \cup {r}
    BY <1>7, ApplyTaskSafe
  <2> USE <2>1
  <2>2. isNginxReady' = isNginxReady /\ heldForConfigSafety' = heldForConfigSafety
    BY <1>7, GateFrame DEF FinishUpdate
  <2>3. isNginxReady' \/ heldForConfigSafety' \/ manager'.batchMode \/ manager'.isolating
    BY <2>2 DEF Gate, Kept
  <2> QED BY <2>3 DEF Finished, Gate
<1>8. CASE StartIsolation
  <2>1. manager'.isolating /\ pc' = "isolate"
    BY <1>8, StartIsolationSafe
  <2> QED BY <2>1 DEF Finished, Gate
<1>9. CASE Isolate
  <2>1. /\ pc = "isolate" /\ resources' = resources
        /\ update'.todo = {} /\ update'.consecutiveFailures = 0
        /\ \/ pc' = "isolate" /\ manager'.isolating
           \/ /\ pc' = "apply" /\ Accepts(manager'.files)
              /\ effectiveBatchExclusionCount' = Cardinality(update'.resourceErrors)
           \/ /\ pc' = "finish" /\ update'.updateErr
              /\ effectiveBatchExclusionCount' = Cardinality(Tasks)
    BY <1>9, IsolateSafe
  <2> USE <2>1
  <2>2. Tasks' = Tasks
    BY DEF Tasks, Existing
  <2>3. Finished'
    BY DEF Finished
  <2>4. Gate'
    BY <2>2 DEF Gate
  <2> QED BY <2>3, <2>4
<1>10. CASE ReloadAll
  <2>1. /\ Kept(manager, manager') /\ resources' = resources /\ pc = "apply" /\ pc' = "finish"
        /\ ~manager.batchMode /\ update'.resourceErrors = update.resourceErrors
        /\ update'.consecutiveFailures = update.consecutiveFailures
        /\ IF update.consecutiveFailures >= sharedInputFailureThreshold
           THEN UNCHANGED <<manager, update>>
           ELSE /\ update'.updateErr = ~Accepts(manager.files)
                /\ Accepts(manager.files) => Working(manager')
    BY <1>10, ReloadAllSafe
  <2> USE <2>1
  <2>2. /\ isNginxReady' = isNginxReady /\ heldForConfigSafety' = heldForConfigSafety
        /\ effectiveBatchExclusionCount' = effectiveBatchExclusionCount /\ ~manager.isolating
    BY <1>10, ReloadAllSafe, GateFrame DEF FinishUpdate, StartIsolation, Isolate, Safe, Phases
  <2>3. ~isNginxReady' /\ ~heldForConfigSafety' =>
          /\ update'.consecutiveFailures = 0 /\ ~update'.updateErr
          /\ effectiveBatchExclusionCount' = Cardinality(update'.resourceErrors)
    BY <2>2 DEF Gate
  <2>4. update.consecutiveFailures >= sharedInputFailureThreshold => update.consecutiveFailures > 0
    BY SMTT(20) DEF sharedInputFailureThreshold, Safe, SafetyTypes, Updates
  <2>5. Finished'
    BY <2>4 DEF Finished
  <2>6. Gate'
    BY <2>3 DEF Gate
  <2> QED BY <2>5, <2>6
<1>11. ~ParseTemplates
  BY DEF ParseTemplates
<1> QED BY <1>3, <1>4, <1>5, <1>6, <1>7, <1>8, <1>9, <1>10, <1>11 DEF Next, Worker

\* The initial state has nothing to gate.
LEMMA GateInit == Init => GateInv
<1> SUFFICES ASSUME Init, isRollbackManager PROVE Finished /\ Gate
  BY SafeInit DEF GateInv
<1>1. pc = "idle"
  BY DEF Init
<1>2. manager.batchMode
  BY SMTT(20) DEF Init, EnableBatchMode
<1> QED BY <1>1, <1>2 DEF Finished, Gate

\* GateInv is inductive.
LEMMA GateInvariant ==
  ASSUME ~DiskFaults, Unparsable = {}
  PROVE  GateInv /\ [Next]_safetyVars => GateInv'
<1> SUFFICES ASSUME GateInv, [Next]_safetyVars PROVE GateInv'
  OBVIOUS
<1>1. SafetyInv' /\ isRollbackManager' = isRollbackManager
  BY SafetyStep DEF GateInv
<1> SUFFICES ASSUME isRollbackManager PROVE Finished' /\ Gate'
  BY <1>1 DEF GateInv
<1>2. Safe /\ Finished /\ Gate
  BY DEF GateInv, SafetyInv
<1>3. CASE Next
  BY <1>2, <1>3, GateStep
<1>4. CASE UNCHANGED safetyVars
  <2>1. UNCHANGED <<resources, isNginxReady, heldForConfigSafety, effectiveBatchExclusionCount,
                    pc, update, manager>>
    BY <1>4 DEF safetyVars, configuration, readiness
  <2> QED BY <1>2, <2>1 DEF Finished, Gate, Tasks, Existing
<1> QED BY <1>3, <1>4

\* A step of a pod that is Ready keeps a working tree.
LEMMA ReadyKeeps ==
  ASSUME Unparsable = {}, isRollbackManager, Safe, Next, isNginxReady
  PROVE  Kept(manager, manager')
<1>1. manager' = manager => Kept(manager, manager')
  BY DEF Kept, Safe
<1>2. ~manager.batchMode /\ ~manager.isolating /\ pc # "isolate"
  BY DEF Safe, Phases
<1>3. CASE \/ \E r \in ResourceFiles : SyncResource(r)
           \/ SyncConfigMap \/ SyncGlobalConfiguration \/ UpdateTransportServers
           \/ CompleteStartup \/ EndBatchSync \/ EndSync
  BY <1>1, <1>3, SyncResourceSafe, SyncConfigMapSafe, SyncGlobalConfigurationSafe,
     UpdateTransportServersSafe, CompleteStartupSafe, EndBatchSyncSafe, EndSyncSafe
<1>4. CASE WriteMainConfig \/ ApplyTask \/ ReloadAll
  BY <1>4, WriteMainConfigSafe, ApplyTaskSafe, ReloadAllSafe
<1>5. CASE FinishUpdate \/ Users
  BY <1>1, <1>5, FinishUpdateSafe, UsersSafe
<1>6. ~ParseTemplates /\ ~StartIsolation /\ ~Isolate
  BY <1>2 DEF ParseTemplates, StartIsolation, Isolate
<1> QED BY <1>3, <1>4, <1>5, <1>6 DEF Next, Worker

\* A pod that gets Ready, with resources and not held back any more, has a working tree.
LEMMA GetsReady ==
  ASSUME Safe, Finished, Gate, FinishUpdate, ~isNginxReady, isNginxReady',
         ~heldForConfigSafety', Tasks # {}
  PROVE  /\ Working(manager) /\ manager' = manager
         /\ update.consecutiveFailures = 0 /\ ~update.updateErr
         /\ ~(Tasks \subseteq update.resourceErrors)
<1>1. /\ pc = "finish" /\ ~holdsBack /\ (heldForConfigSafety => selfHeals) /\ manager' = manager
      /\ ~manager.batchMode /\ ~manager.isolating
  BY FinishUpdateSafe DEF FinishUpdate
<1> USE <1>1
<1>2. /\ update.consecutiveFailures \in Nat /\ effectiveBatchExclusionCount \in Nat
      /\ update.resourceErrors \subseteq Paths /\ Tasks \subseteq Paths
  BY DEF Safe, SafetyTypes, Updates, Tasks, Paths
<1>3. Cardinality(Tasks) \in Nat /\ Cardinality(Tasks) # 0
  BY <1>2, Counted
<1>4. /\ update.consecutiveFailures = 0 /\ ~update.updateErr
      /\ ~(Tasks \subseteq update.resourceErrors)
  <2>1. CASE heldForConfigSafety
    <3>1. update.resourceErrors = {} /\ ~update.updateErr
      BY <2>1 DEF selfHeals
    <3>2. ~(update.consecutiveFailures > 0)
      BY <3>1 DEF Finished
    <3>3. update.consecutiveFailures = 0
      BY <1>2, <3>2, SMTT(20)
    <3> QED BY <3>1, <3>3
  <2>2. CASE ~heldForConfigSafety
    <3>1. \/ /\ update.consecutiveFailures = 0 /\ ~update.updateErr
             /\ effectiveBatchExclusionCount = Cardinality(update.resourceErrors)
          \/ effectiveBatchExclusionCount = Cardinality(Tasks)
      BY <2>2 DEF Gate
    <3>2. ~(effectiveBatchExclusionCount > 0 /\ effectiveBatchExclusionCount >= Cardinality(Tasks))
      BY <2>2 DEF holdsBack, selfHeals
    <3>3. effectiveBatchExclusionCount < Cardinality(Tasks)
      BY <1>2, <1>3, <3>2, SMTT(20)
    <3>4. effectiveBatchExclusionCount # Cardinality(Tasks)
      BY <1>2, <1>3, <3>3, SMTT(20)
    <3>5. Tasks \subseteq update.resourceErrors =>
            /\ Cardinality(Tasks) <= Cardinality(update.resourceErrors)
            /\ Cardinality(update.resourceErrors) \in Nat
      BY <1>2, Counted
    <3>6. effectiveBatchExclusionCount = Cardinality(update.resourceErrors) =>
            ~(Tasks \subseteq update.resourceErrors)
      BY <1>2, <1>3, <3>3, <3>5, SMTT(20)
    <3> QED BY <3>1, <3>4, <3>6
  <2> QED BY <2>1, <2>2
<1>5. ~(update.consecutiveFailures > 0)
  BY <1>4, SMTT(20)
<1>6. Working(manager)
  BY <1>4, <1>5 DEF Finished
<1> QED BY <1>4, <1>6

\* A pod that gets Ready with resources has files that NGINX accepts, and keeps them, for any
\* resources, specs, ConfigMaps and verdicts of NGINX and whatever users create, change and
\* delete, as long as files can be removed and the templates parse.
THEOREM ReadyIsValid ==
  ASSUME ~DiskFaults, Unparsable = {}
  PROVE  Spec => ReadyFilesAreValid
<1>1. GateInv /\ [Next]_safetyVars
        => [/\ isRollbackManager /\ isNginxReady'
            /\ IF isNginxReady THEN Validated ELSE Tasks # {} /\ ~heldForConfigSafety'
            => Validated']_safetyVars
  <2> SUFFICES ASSUME GateInv, Next, isRollbackManager, isNginxReady',
                      IF isNginxReady THEN Validated ELSE Tasks # {} /\ ~heldForConfigSafety'
               PROVE  Validated'
    OBVIOUS
  <2>1. Safe /\ Finished /\ Gate
    BY DEF GateInv, SafetyInv
  <2>2. CASE isNginxReady
    <3>1. Kept(manager, manager')
      BY <2>1, <2>2, ReadyKeeps
    <3>2. Working(manager)
      BY <2>1, <2>2 DEF Working, Validated, Safe, Sound, Phases
    <3> QED BY <3>1, <3>2 DEF Kept, Working, Validated
  <2>3. CASE ~isNginxReady
    <3>1. FinishUpdate
      BY <2>3, GateFrame
    <3>2. Working(manager')
      BY <2>1, <2>3, <3>1, GetsReady
    <3> QED BY <3>2 DEF Working, Validated
  <2> QED BY <2>2, <2>3
<1> QED BY <1>1, GateInit, GateInvariant, PTL DEF Spec, ReadyFilesAreValid

-----------------------------------------------------------------------------
(* A Ready pod serves something.                                             *)

\* Outside of an update nothing is in progress.
LEMMA ProgressQuiet ==
  ASSUME Safe, pc \in {"idle", "synced", "listeners", "update"}
  PROVE  Progress
<1>1. NoUpdate.resourceErrors = {}
  BY DEF NoUpdate
<1>2. manager.batchMode => update.resourceErrors = {}
  BY <1>1 DEF Safe, Control, Phases
<1> QED BY <1>2 DEF Progress

\* Every step keeps track of the resources.
LEMMA ProgressStep ==
  ASSUME ~DiskFaults, Unparsable = {}, EmptyHostSpecs = {}, isRollbackManager, Safe, Safe',
         Progress, Next
  PROVE  Progress'
<1>1. 0 < sharedInputFailureThreshold
  BY SMTT(20) DEF sharedInputFailureThreshold
<1>2. Tasks \subseteq ResourceFiles /\ (resources' = resources => Tasks' = Tasks)
  BY DEF Tasks, Existing
<1>3. CASE \/ \E r \in ResourceFiles : SyncResource(r)
           \/ SyncConfigMap \/ SyncGlobalConfiguration \/ UpdateTransportServers
           \/ CompleteStartup \/ EndBatchSync \/ EndSync \/ FinishUpdate
  <2>1. pc' \in {"idle", "synced", "listeners", "update"}
    BY <1>3, UpdateTransportServersSafe
    DEF SyncResource, SyncConfigMap, SyncGlobalConfiguration, updateAllConfigs,
        CompleteStartup, EndBatchSync, EndSync, FinishUpdate
  <2>2. (Safe /\ pc \in {"idle", "synced", "listeners", "update"} => Progress)'
    BY ProgressQuiet, PTL
  <2> QED BY <2>1, <2>2
<1>4. CASE Users
  <2>1. UNCHANGED <<manager, resources, pc, update>>
    BY <1>4, UsersSafe
  <2> QED BY <1>2, <2>1 DEF Progress
<1>5. CASE WriteMainConfig
  <2>1. /\ resources' = resources
        /\ update'.consecutiveFailures = 0 /\ update'.resourceErrors = {}
        /\ \/ pc' = "apply" /\ update'.todo = Tasks
           \/ pc' = "finish" /\ update'.updateErr
    BY <1>5, WriteMainConfigSafe
  <2> QED BY <1>1, <1>2, <2>1 DEF Progress
<1>6. CASE ApplyTask
  <2>1. PICK r \in Tasks :
         /\ Kept(manager, manager')
         /\ resources' = resources /\ pc = "apply" /\ pc' = "apply"
         /\ update.todo # {} /\ r \in update.todo
         /\ Remain(manager, manager', {r})
         /\ \/ /\ update'.resourceErrors = update.resourceErrors
               /\ update'.consecutiveFailures = 0
               /\ update'.todo = update.todo \ {r}
               /\ r \in DOMAIN manager'.files
               /\ manager.batchMode => r \in manager'.batchFiles
            \/ /\ update'.resourceErrors = update.resourceErrors \cup {r}
               /\ ~manager.batchMode
               /\ IF update'.consecutiveFailures >= sharedInputFailureThreshold
                  THEN update'.todo = {}
                  ELSE update'.todo = update.todo \ {r}
    BY <1>6, ApplyTaskSafe
  <2>2. update.consecutiveFailures < sharedInputFailureThreshold
    BY <2>1 DEF Progress
  <2>3. update'.consecutiveFailures < sharedInputFailureThreshold <=>
          ~(update'.consecutiveFailures >= sharedInputFailureThreshold)
    BY SMTT(20) DEF Safe, SafetyTypes, Updates, sharedInputFailureThreshold
  <2>4. manager'.batchMode = manager.batchMode
        /\ (manager.batchMode => manager.batchFiles \subseteq manager'.batchFiles)
    BY <2>1 DEF Kept
  <2>5. ASSUME update'.consecutiveFailures < sharedInputFailureThreshold, NEW q \in Tasks
        PROVE  \/ q \in update'.todo \/ q \in update'.resourceErrors
               \/ /\ q \in DOMAIN manager'.files
                  /\ manager'.batchMode => q \in manager'.batchFiles
    <3>1. update'.todo = update.todo \ {r}
      BY <2>1, <2>3, <2>5
    <3>2. CASE q = r
      BY <2>1, <2>4, <3>2
    <3>3. CASE q # r
      <4>1. \/ q \in update.todo \/ q \in update.resourceErrors
            \/ q \in DOMAIN manager.files /\ (manager.batchMode => q \in manager.batchFiles)
        BY <2>1, <2>2 DEF Progress
      <4>2. q \in DOMAIN manager.files => q \in DOMAIN manager'.files
        BY <1>2, <2>1, <3>3 DEF Remain
      <4>3. update.resourceErrors \subseteq update'.resourceErrors
        BY <2>1
      <4> QED BY <2>4, <3>1, <3>3, <4>1, <4>2, <4>3
    <3> QED BY <3>2, <3>3
  <2>6. update'.todo # {} => update'.consecutiveFailures < sharedInputFailureThreshold
    BY <1>1, <2>1, <2>3
  <2>7. manager'.batchMode => update'.resourceErrors = {}
    BY <2>1, <2>4 DEF Progress
  <2> QED BY <1>2, <2>1, <2>5, <2>6, <2>7 DEF Progress
<1>7. CASE StartIsolation
  <2>1. /\ manager.batchMode /\ ~manager'.batchMode /\ pc = "apply" /\ pc' = "isolate"
        /\ update.todo = {} /\ resources' = resources
        /\ manager'.files = manager.files /\ manager'.batchFiles = manager.batchFiles
    BY <1>7, StartIsolationSafe
  <2>2. update.consecutiveFailures = 0
    BY <2>1 DEF Safe, Phases
  <2>3. \A r \in Tasks : r \in DOMAIN manager.files /\ r \in manager.batchFiles
    BY <1>1, <2>1, <2>2 DEF Progress
  <2> QED BY <1>2, <2>1, <2>3 DEF Progress
<1>8. CASE Isolate
  <2>1. /\ ~manager'.batchMode /\ pc = "isolate" /\ resources' = resources
        /\ update'.todo = {}
        /\ \/ /\ pc' = "isolate"
              /\ manager.batchExcluded \subseteq manager'.batchExcluded
              /\ \A r \in ResourceFiles : r \in manager.batchFiles /\ r \in DOMAIN manager.files =>
                   \/ r \in manager'.batchExcluded
                   \/ r \in manager'.batchFiles /\ r \in DOMAIN manager'.files
           \/ /\ pc' = "apply" /\ manager'.files = manager.files
              /\ update' = [update EXCEPT !.resourceErrors =
                              UNION {owners(p) : p \in manager.batchExcluded}]
           \/ pc' = "finish" /\ update'.updateErr
    BY <1>8, IsolateSafe
  <2>2. \A r \in Tasks : \/ r \in manager.batchExcluded
                         \/ r \in manager.batchFiles /\ r \in DOMAIN manager.files
    BY <2>1 DEF Progress
  <2>3. CASE pc' = "isolate"
    BY <1>2, <2>1, <2>2, <2>3 DEF Progress
  <2>4. CASE pc' = "apply"
    <3>1. update'.resourceErrors = UNION {owners(p) : p \in manager.batchExcluded}
      BY <2>1, <2>4, SMTT(20) DEF Safe, SafetyTypes, Updates
    <3>2. \A r \in Tasks : r \in owners(r)
      BY DEF owners, FileName
    <3>3. \A r \in Tasks : r \in update'.resourceErrors \/ r \in DOMAIN manager'.files
      BY <2>1, <2>2, <2>4, <3>1, <3>2
    <3> QED BY <1>2, <2>1, <2>4, <3>3 DEF Progress
  <2>5. CASE pc' = "finish" /\ update'.updateErr
    BY <2>1, <2>5 DEF Progress
  <2> QED BY <2>1, <2>3, <2>4, <2>5
<1>9. CASE ReloadAll
  <2>1. /\ Kept(manager, manager') /\ resources' = resources /\ pc = "apply" /\ pc' = "finish"
        /\ update.todo = {} /\ ~manager.batchMode
        /\ update'.resourceErrors = update.resourceErrors
        /\ update'.consecutiveFailures = update.consecutiveFailures
        /\ ~(update.consecutiveFailures >= sharedInputFailureThreshold) =>
             /\ update'.updateErr = ~Accepts(manager.files)
             /\ Accepts(manager.files) => manager'.loaded = manager.files
    BY <1>9, ReloadAllSafe
  <2>2. update.consecutiveFailures < sharedInputFailureThreshold =>
          ~(update.consecutiveFailures >= sharedInputFailureThreshold)
    BY SMTT(20) DEF Safe, SafetyTypes, Updates, sharedInputFailureThreshold
  <2>3. ASSUME update.consecutiveFailures < sharedInputFailureThreshold, ~update'.updateErr,
               NEW r \in Tasks \ update.resourceErrors
        PROVE  r \in DOMAIN manager'.loaded
    <3>1. r \in DOMAIN manager.files
      BY <2>1, <2>3 DEF Progress
    <3>2. manager'.loaded = manager.files
      BY <2>1, <2>2, <2>3
    <3> QED BY <3>1, <3>2
  <2>4. ~manager'.batchMode
    BY <2>1 DEF Kept
  <2> QED BY <1>2, <2>1, <2>3, <2>4 DEF Progress
<1>10. ~ParseTemplates
  BY DEF ParseTemplates
<1> QED BY <1>3, <1>4, <1>5, <1>6, <1>7, <1>8, <1>9, <1>10 DEF Next, Worker

\* A pod that becomes Ready, and is not held back any more, serves one of its resources, if it
\* has any, for any resources, specs, ConfigMaps and verdicts of NGINX and whatever users create,
\* change and delete (under the conditions of ReadyIsValid, and without empty hosts).
THEOREM ReadyIsUseful ==
  ASSUME ~DiskFaults, Unparsable = {}, EmptyHostSpecs = {}
  PROVE  Spec => ReadyServesSomething
<1>1. Init => ProgressInv
  <2> SUFFICES ASSUME Init, isRollbackManager PROVE Progress
    BY GateInit DEF ProgressInv
  <2>1. Safe /\ pc = "idle"
    BY SafeInit DEF SafetyInv, Init
  <2> QED BY <2>1, ProgressQuiet
<1>2. ProgressInv /\ [Next]_safetyVars => ProgressInv'
  <2> SUFFICES ASSUME ProgressInv, [Next]_safetyVars PROVE ProgressInv'
    OBVIOUS
  <2>1. GateInv' /\ SafetyInv' /\ isRollbackManager' = isRollbackManager
    BY GateInvariant, SafetyStep DEF ProgressInv, GateInv
  <2> SUFFICES ASSUME isRollbackManager PROVE Progress'
    BY <2>1 DEF ProgressInv
  <2>2. Safe /\ Safe' /\ Progress
    BY <2>1 DEF ProgressInv, GateInv, SafetyInv
  <2>3. CASE Next
    BY <2>2, <2>3, ProgressStep
  <2>4. CASE UNCHANGED safetyVars
    <3>1. UNCHANGED <<resources, pc, update, manager>>
      BY <2>4 DEF safetyVars, configuration
    <3> QED BY <2>2, <3>1 DEF Progress, Tasks, Existing
  <2> QED BY <2>3, <2>4
<1>3. ProgressInv /\ [Next]_safetyVars
        => [isRollbackManager /\ ~isNginxReady /\ isNginxReady' /\ ~heldForConfigSafety' /\ Tasks # {} =>
              \E r \in Tasks : Serves(manager.loaded, r)]_safetyVars
  <2> SUFFICES ASSUME ProgressInv, Next, isRollbackManager, ~isNginxReady, isNginxReady',
                      ~heldForConfigSafety', Tasks # {}
               PROVE  \E r \in Tasks : Serves(manager.loaded, r)
    OBVIOUS
  <2>1. Safe /\ Finished /\ Gate /\ Progress
    BY DEF ProgressInv, GateInv, SafetyInv
  <2>2. FinishUpdate
    BY GateFrame
  <2>3. /\ update.consecutiveFailures = 0 /\ ~update.updateErr
        /\ ~(Tasks \subseteq update.resourceErrors)
    BY <2>1, <2>2, GetsReady
  <2>4. 0 < sharedInputFailureThreshold
    BY SMTT(20) DEF sharedInputFailureThreshold
  <2>5. PICK r \in Tasks : r \notin update.resourceErrors
    BY <2>3
  <2>6. pc = "finish"
    BY <2>2 DEF FinishUpdate
  <2>7. r \in DOMAIN manager.loaded
    BY <2>1, <2>3, <2>4, <2>5, <2>6 DEF Progress
  <2> QED BY <2>7 DEF Serves
<1> QED BY <1>1, <1>2, <1>3, PTL DEF Spec, ReadyServesSomething
=============================================================================
