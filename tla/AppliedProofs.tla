---------------------------- MODULE AppliedProofs ----------------------------
(***************************************************************************)
(* What a resource is told, and what NGINX runs, for every set of          *)
(* resources, specs and ConfigMaps, every verdict of NGINX and both        *)
(* managers.  AppliedInv follows a resource from the moment its file is    *)
(* written, through the batches, the isolation and the update of all files,*)
(* to the moment its owner is told: in between, no operation on another    *)
(* file, no rollback and no exclusion touches the file, or the resource is *)
(* told that it failed.                                                    *)
(***************************************************************************)
EXTENDS ConfigSafety, FiniteSetTheorems, WellFoundedInduction, TLAPS

\* Zenon first, then SMT, each with its limit in seconds, for the leaves that name no prover.
USE ZenonT(20), SMTT(20)

\* The file of a resource, written from what was synced last, and recorded.
File(r) == FileName(r, resources[r])
Written(r) ==
  /\ recorded[r] = resources[r]
  /\ File(r) \in DOMAIN manager.files
  /\ manager.files[File(r)] = Rendered(resources[r], cfgParams, Port(globalConfiguration, r))

\* NGINX runs the file that is on the disk.
Runs(m, p) == p \in DOMAIN m.files \cap DOMAIN m.loaded /\ m.files[p] = m.loaded[p]

\* Only one Ingress may take the empty host.  (The Configuration gives a host to one
\* resource; see HostServedByOldest.)
OneEmptyHost ==
  \A r, q \in ResourceFiles :
    Specs(r) \cap EmptyHostSpecs # {} /\ Specs(q) \cap EmptyHostSpecs # {} => r = q

Fields(m) ==
  {"files", "loaded", "configVersion", "batchMode", "isolating", "batchFiles", "batchExcluded",
   "preBatchDefaultServer", "diskFault"} \subseteq DOMAIN m

\* The shape of what the worker reads.
Shape ==
  /\ Fields(manager) /\ DOMAIN update = DOMAIN NoUpdate
  /\ DOMAIN objects = ResourceFiles /\ DOMAIN resources = ResourceFiles
  /\ DOMAIN recorded = ResourceFiles /\ DOMAIN status = ResourceFiles
  /\ \A r \in ResourceFiles :
       objects[r] \in Specs(r) \cup {Absent} /\ resources[r] \in Specs(r) \cup {Absent}

\* The course of sync: nothing is told before the end of startup; reloads are on unless a
\* batch is open; the parameters are the ConfigMap's unless the end of the batch will see to it.
Course ==
  /\ pc \in {"idle", "synced", "listeners", "update", "apply", "isolate", "finish"}
  /\ ~startupComplete => /\ pc \in {"idle", "synced"} /\ ~isNginxReady
                         /\ \A r \in ResourceFiles : status[r] = Absent
  /\ startupComplete => isReloadsEnabled \/ batchSyncEnabled
  /\ (batchSyncEnabled => isNginxReady) /\ (updateAllConfigsOnBatch => batchSyncEnabled)
  /\ batchSyncEnabled => pc \in {"idle", "synced", "listeners"}
  /\ isNginxReady \/ pc \in {"update", "apply", "isolate", "finish"}
       => cfgParams = configMap \/ updateAllConfigsOnBatch
  /\ batchSyncEnabled /\ pc = "idle" => queue # {}
  /\ pc = "update" => update = NoUpdate
  /\ manager.batchMode \/ pc = "isolate" => isRollbackManager
  /\ pc = "isolate" => ~manager.batchMode /\ update.todo = {}
  /\ \/ pc = "apply" /\ (~isRollbackManager \/ manager.batchMode)
     \/ pc = "isolate"
     => update.consecutiveFailures = 0 /\ update.resourceErrors = {}
  /\ pc = "apply" => update.todo \subseteq Tasks /\ (update.todo # {} => ~sharedInputFailure)
  /\ pc = "listeners" => /\ update.todo # {}
                         /\ update.todo \cup update.updatedResources \subseteq Tasks

\* Between updates a resource that was told that it is applied has its file, and NGINX runs it,
\* or will at the end of the batch.
Answered ==
  pc \in {"idle", "synced", "listeners"} =>
    \A r \in Tasks \ unloaded :
      /\ status[r] = "applied"
      /\ pc = "listeners" => r \notin update.todo \cup update.updatedResources
      => Written(r) /\ (batchSyncEnabled \/ Runs(manager, File(r)))

\* During an update the resources that were handled without an error have their file.
Handled ==
  /\ pc = "listeners" /\ ~update.updateErr => \A r \in update.updatedResources : Written(r)
  /\ pc = "apply" /\ ~sharedInputFailure =>
       \A r \in Tasks \ (update.todo \cup update.resourceErrors) : Written(r)
  /\ pc = "isolate" => \A r \in Tasks : File(r) \notin manager.batchExcluded => Written(r)
  /\ pc = "finish" /\ ~update.updateErr /\ ~sharedInputFailure =>
       /\ manager.loaded = manager.files
       /\ \A r \in Tasks \ update.resourceErrors : Written(r)

\* Without config safety the reload that follows every write leaves no file unread.
PlainLoaded ==
  /\ ~isRollbackManager /\ cfgParams \notin Unparsable /\ Accepts(manager.files)
  /\ \/ pc \in {"idle", "synced"} /\ ~batchSyncEnabled
     \/ pc = "finish"
  => manager.loaded = manager.files

AppliedInv == Shape /\ Course /\ Answered /\ Handled /\ PlainLoaded

\* First picks one of the resources it is given.
LEMMA FirstIn ==
  ASSUME NEW S, S \subseteq ResourceFiles, S # {}
  PROVE  First(S) \in S
<1> DEFINE T == {i \in DOMAIN ResourceOrder : ResourceOrder[i] \in S}
           R == {ss \in Nat \X Nat : ss[1] < ss[2]}
<1>1. T \subseteq Nat /\ T # {}
  BY ResourcesAssumption, SMTT(20)
<1>2. IsWellFoundedOn(R, Nat)
  BY NatLessThanWellFounded DEF OpToRel
<1>3. PICK m \in T : \A n \in T : <<n, m>> \notin R
  <2> HIDE DEF R, T
  <2> QED BY <1>1, <1>2, WFMin
<1>4. \A n \in T : m <= n
  <2>1. ASSUME NEW n \in T PROVE m <= n
    <3>1. m \in Nat /\ n \in Nat /\ <<n, m>> \notin R
      BY <1>1, <1>3
    <3>2. ~(n < m)
      BY <3>1
    <3> HIDE DEF T, R
    <3> QED BY <3>1, <3>2, SMTT(20)
  <2> QED BY <2>1
<1>5. (CHOOSE i \in T : \A j \in T : i <= j) \in T
  BY <1>4
<1> QED BY <1>5 DEF First

\* What a write leaves alone: the file x stays as it is, and is run if it was.
Spares(m, n, x) ==
  /\ x \in DOMAIN m.files => x \in DOMAIN n.files /\ n.files[x] = m.files[x]
  /\ Runs(m, x) => Runs(n, x)

\* What it never touches: the phase of the manager.
SamePhase(m, n) ==
  /\ Fields(n)
  /\ n.batchMode = m.batchMode

\* The write of one file.
Leaves(m, n, p) == SamePhase(m, n) /\ \A x : x # p => Spares(m, n, x)
Holds(n, p, c) == p \in DOMAIN n.files /\ n.files[p] = c

\* A reload spares every file, and makes NGINX run all of them if it accepts them.
LEMMA ReloadSpares ==
  ASSUME NEW m, Fields(m)
  PROVE  LET n == Reload(m)
         IN /\ SamePhase(m, n) /\ n.files = m.files
            /\ \A x : Spares(m, n, x)
            /\ Accepts(m.files) => n.loaded = m.files
<1> DEFINE n == Reload(m)
<1>1. /\ n.files = m.files /\ SamePhase(m, n)
      /\ n.loaded = IF Accepts(m.files) THEN m.files ELSE m.loaded
  BY SMTT(20) DEF Reload, Fields, SamePhase
<1> HIDE DEF n
<1>2. \A x : Spares(m, n, x)
  BY <1>1 DEF Spares, Runs
<1> QED BY <1>1, <1>2 DEF n

\* New files: what is written and what is spared depends on the tree only.
LEMMA FilesSpare ==
  ASSUME NEW m, Fields(m), NEW tree
  PROVE  LET n == WithFiles(m, tree)
         IN /\ SamePhase(m, n) /\ n.files = tree
            /\ \A x : (x \in DOMAIN m.files => x \in DOMAIN tree /\ tree[x] = m.files[x])
                        => Spares(m, n, x)
<1> DEFINE n == WithFiles(m, tree)
<1>1. n.files = tree /\ n.loaded = m.loaded /\ SamePhase(m, n)
  BY SMTT(20) DEF WithFiles, Fields, SamePhase
<1> HIDE DEF n
<1> QED BY <1>1 DEF Spares, Runs, n

\* A tree with one file written keeps the others.
LEMMA WriteSpares ==
  ASSUME NEW m, Fields(m), NEW p, NEW c
  PROVE  /\ Leaves(m, WithFiles(m, written(m.files, p, c)), p)
         /\ Holds(WithFiles(m, written(m.files, p, c)), p, c)
<1> DEFINE new == written(m.files, p, c)
<1>1. p \in DOMAIN new /\ new[p] = c
  BY SMTT(20) DEF written
<1>2. \A x : x # p => (x \in DOMAIN m.files => x \in DOMAIN new /\ new[x] = m.files[x])
  BY SMTT(20) DEF written
<1> HIDE DEF new
<1> QED BY <1>1, <1>2, FilesSpare DEF new, Leaves, Holds

\* DeleteConfig spares all other files.
LEMMA DeleteSpares ==
  ASSUME NEW m, Fields(m), NEW p
  PROVE  Leaves(m, DeleteConfig(m, p), p)
<1> DEFINE old == removed(m.files, {p})
<1>1. \A x : x # p => (x \in DOMAIN m.files => x \in DOMAIN old /\ old[x] = m.files[x])
  BY SMTT(20) DEF removed
<1>2. DeleteConfig(m, p) = WithFiles(m, old)
  BY DEF DeleteConfig
<1> HIDE DEF old
<1> QED BY <1>1, <1>2, FilesSpare DEF Leaves

\* A write with rollback spares all other files, and succeeds only with the content there.
LEMMA RollbackSpares ==
  ASSUME NEW m, Fields(m), NEW p, NEW c
  PROVE  LET o == createConfigWithRollback(m, p, c)
         IN /\ Leaves(m, o.manager, p)
            /\ o.ok => Holds(o.manager, p, c)
<1> DEFINE new == written(m.files, p, c)
           old == removed(m.files, {p})
           o == createConfigWithRollback(m, p, c)
           same == p \in DOMAIN m.files /\ m.files[p] = c
           hasBackup == p \in DOMAIN m.files /\ Accepts(m.files)
<1>1. Leaves(m, m, p)
  BY DEF Leaves, SamePhase, Spares
<1>2. CASE same
  BY <1>1, <1>2 DEF createConfigWithRollback, Outcome, Holds
<1>3. Leaves(m, WithFiles(m, new), p) /\ Holds(WithFiles(m, new), p, c)
  BY WriteSpares
<1>4. Leaves(m, WithFiles(m, old), p)
  BY DeleteSpares DEF DeleteConfig
<1>5. Leaves(m, Reload(m), p)
  BY ReloadSpares DEF Leaves
<1>6. CASE ~same
  <2>1. \/ o = Outcome(WithFiles(m, new), TRUE) \/ o = Outcome(Reload(m), FALSE)
        \/ o = Outcome(WithFiles(m, new), FALSE) \/ o = Outcome(WithFiles(m, old), FALSE)
    BY <1>6 DEF createConfigWithRollback
  <2> HIDE DEF o, new, old
  <2> QED BY <1>3, <1>4, <1>5, <2>1, SMTT(20) DEF Outcome, o
<1> QED BY <1>2, <1>6

\* CreateConfig of either manager spares all other files; without a test it succeeds.
LEMMA CreateSpares ==
  ASSUME NEW m, Fields(m), NEW p, NEW c
  PROVE  LET o == Create(m, p, c)
         IN /\ Leaves(m, o.manager, p)
            /\ o.ok => Holds(o.manager, p, c)
            /\ ~isRollbackManager \/ m.batchMode => o.ok
<1> DEFINE new == written(m.files, p, c)
           o == Create(m, p, c)
<1>2. CASE ~isRollbackManager
  <2>1. o.manager = WithFiles(m, new) /\ o.ok
    BY <1>2 DEF Create, Outcome
  <2> QED BY <2>1, WriteSpares
<1>3. CASE isRollbackManager /\ m.batchMode
  <2> DEFINE n == [m EXCEPT !.files = new, !.batchFiles = m.batchFiles \cup {p}]
  <2>1. o.manager = n /\ o.ok
    BY <1>3 DEF Create, CreateConfig, batchWriteConfig, Outcome
  <2>2. n.files = new /\ n.loaded = m.loaded /\ SamePhase(m, n)
    BY SMTT(20) DEF Fields, SamePhase
  <2>3. /\ p \in DOMAIN new /\ new[p] = c
        /\ \A x : x # p => (x \in DOMAIN m.files => x \in DOMAIN new /\ new[x] = m.files[x])
    BY SMTT(20) DEF written
  <2> HIDE DEF n, o, new
  <2>4. \A x : x # p => Spares(m, n, x)
    BY <2>2, <2>3 DEF Spares, Runs
  <2> QED BY <2>1, <2>2, <2>3, <2>4 DEF o, Leaves, Holds
<1>4. CASE isRollbackManager /\ ~m.batchMode
  <2>1. o = createConfigWithRollback(m, p, c)
    BY <1>4 DEF Create, CreateConfig
  <2> QED BY <1>4, <2>1, RollbackSpares, SMTT(20)
<1> QED BY <1>2, <1>3, <1>4

\* One write after another.
LEMMA SparesTwice ==
  ASSUME NEW m1, NEW m2, NEW m3, NEW x
  PROVE  /\ SamePhase(m1, m2) /\ SamePhase(m2, m3) => SamePhase(m1, m3)
         /\ Spares(m1, m2, x) /\ Spares(m2, m3, x) => Spares(m1, m3, x)
BY DEF SamePhase, Spares

\* A write of the default server, which is left alone if an Ingress has the empty host.
Completes(m, w, rec) ==
  /\ SamePhase(m, w.manager) /\ w.recorded = rec
  /\ \A x : x # DefaultServer \/ hasActiveEmptyHostIngress(rec) => Spares(m, w.manager, x)
  /\ ~isRollbackManager \/ m.batchMode => w.ok

\* The default server is written only if no Ingress has the empty host.
LEMMA SyncDefaultSpares ==
  ASSUME NEW m, Fields(m), NEW rec, NEW params
  PROVE  LET o == syncDefaultServerConfig(m, rec, params)
         IN /\ SamePhase(m, o.manager)
            /\ \A x : x # DefaultServer \/ hasActiveEmptyHostIngress(rec) => Spares(m, o.manager, x)
            /\ ~isRollbackManager \/ m.batchMode => o.ok
<1> DEFINE o == syncDefaultServerConfig(m, rec, params)
           c == Rendered(DefaultSpec, params, 0)
<1>1. SamePhase(m, m) /\ \A x : Spares(m, m, x)
  BY DEF SamePhase, Spares
<1>2. CASE hasActiveEmptyHostIngress(rec)
  BY <1>1, <1>2 DEF syncDefaultServerConfig, Outcome
<1>3. CASE ~hasActiveEmptyHostIngress(rec)
  <2>1. o = Create(m, DefaultServer, c)
    BY <1>3 DEF syncDefaultServerConfig
  <2> HIDE DEF o, c
  <2>2. Leaves(m, o.manager, DefaultServer) /\ (~isRollbackManager \/ m.batchMode => o.ok)
    BY <2>1, CreateSpares, SMTT(20)
  <2> QED BY <1>3, <2>2 DEF Leaves, o
<1> QED BY <1>2, <1>3

\* So it is after a write of a resource.
LEMMA DefaultSpares ==
  ASSUME NEW m, Fields(m), NEW rec, NEW params, NEW r
  PROVE  Completes(m, withDefaultServer(m, rec, params, r), rec)
<1> DEFINE default == syncDefaultServerConfig(m, rec, params)
           w == withDefaultServer(m, rec, params, r)
<1>1. SamePhase(m, m) /\ \A x : Spares(m, m, x)
  BY DEF SamePhase, Spares
<1>2. /\ SamePhase(m, default.manager)
      /\ \A x : x # DefaultServer \/ hasActiveEmptyHostIngress(rec) => Spares(m, default.manager, x)
      /\ ~isRollbackManager \/ m.batchMode => default.ok
  BY SyncDefaultSpares
<1>3. w = IF r \in Ingresses THEN Wrote(default.manager, rec, default.ok) ELSE Wrote(m, rec, TRUE)
  BY DEF withDefaultServer
<1> HIDE DEF default, w
<1> QED BY <1>1, <1>2, <1>3, SMTT(20) DEF Wrote, w, Completes

\* The write of a resource q: the others' files are spared, and if it succeeds the file of
\* the resource has the content c.
Puts(m, w, rec, q, spec, c) ==
  LET p == FileName(q, spec)
      new == [rec EXCEPT ![q] = spec]
  IN /\ SamePhase(m, w.manager) /\ w.recorded \in {rec, new}
     /\ \A x : x \notin {p, q} /\ (x # DefaultServer \/ hasActiveEmptyHostIngress(new))
                 => Spares(m, w.manager, x)
     /\ w.ok => w.recorded = new /\ Holds(w.manager, p, c)
     /\ ~isRollbackManager \/ m.batchMode => w.ok

\* addOrUpdate renders the file from the spec, the parameters and the port.
LEMMA AddOrUpdateSpares ==
  ASSUME NEW m, Fields(m), NEW rec, NEW params, NEW gc, NEW q \in ResourceFiles, q \in DOMAIN rec,
         NEW spec, spec \in EmptyHostSpecs => q \in Ingresses
  PROVE  Puts(m, addOrUpdate(m, rec, params, gc, q, spec), rec, q, spec,
              Rendered(spec, params, Port(gc, q)))
<1> DEFINE p == FileName(q, spec)
           c == Rendered(spec, params, Port(gc, q))
           file == Create(m, p, c)
           moved == p # q /\ rec[q] \notin EmptyHostSpecs \cup {Absent}
           m1 == IF moved THEN DeleteConfig(file.manager, q) ELSE file.manager
           new == [rec EXCEPT ![q] = spec]
           w == addOrUpdate(m, rec, params, gc, q, spec)
<1>1. w = IF file.ok THEN withDefaultServer(m1, new, params, q) ELSE Wrote(file.manager, rec, FALSE)
  BY DEF addOrUpdate
<1>2. (p = DefaultServer /\ spec \in EmptyHostSpecs) \/ p = q
  BY DEF FileName
<1>3. spec \in EmptyHostSpecs => hasActiveEmptyHostIngress(new)
  BY SMTT(20) DEF hasActiveEmptyHostIngress
<1>4. q # DefaultServer
  BY PathsAssumption
<1> HIDE DEF p, c, new, w
<1>5. /\ Leaves(m, file.manager, p) /\ (file.ok => Holds(file.manager, p, c))
      /\ ~isRollbackManager \/ m.batchMode => file.ok
  BY CreateSpares
<1> HIDE DEF file
<1>6. /\ SamePhase(m, m1) /\ (file.ok => Holds(m1, p, c))
      /\ \A x : x \notin {p, q} => Spares(m, m1, x)
  <2>1. CASE moved
    <3>1. Fields(file.manager)
      BY <1>5 DEF Leaves, SamePhase
    <3>2. Leaves(file.manager, m1, q)
      BY <2>1, <3>1, DeleteSpares
    <3>3. file.ok => Holds(m1, p, c)
      BY <1>5, <2>1, <3>2 DEF Leaves, Spares, Holds
    <3> HIDE DEF m1
    <3> QED BY <1>5, <3>2, <3>3, SparesTwice DEF Leaves
  <2>2. CASE ~moved
    BY <1>5, <2>2 DEF Leaves
  <2> QED BY <2>1, <2>2
<1> HIDE DEF m1, moved
<1>7. CASE ~file.ok
  <2>1. w.manager = file.manager /\ w.recorded = rec /\ w.ok = FALSE
    BY <1>1, <1>7 DEF Wrote
  <2> QED BY <1>5, <1>7, <2>1 DEF Leaves, w, p, Puts
<1>8. CASE file.ok
  <2>1. w = withDefaultServer(m1, new, params, q) /\ Fields(m1)
    BY <1>1, <1>6, <1>8 DEF SamePhase
  <2>2. Completes(m1, w, new)
    BY <2>1, DefaultSpares
  <2>3. m1.batchMode = m.batchMode
    BY <1>6 DEF SamePhase
  <2>4. Holds(w.manager, p, c)
    BY <1>2, <1>3, <1>4, <1>6, <1>8, <2>2 DEF Spares, Holds, Completes
  <2>5. \A x : x \notin {p, q} /\ (x # DefaultServer \/ hasActiveEmptyHostIngress(new))
                 => Spares(m, w.manager, x)
    BY <1>6, <2>2, SparesTwice DEF Completes
  <2>6. SamePhase(m, w.manager)
    BY <1>6, <2>2, SparesTwice DEF Completes
  <2> QED BY <2>2, <2>3, <2>4, <2>5, <2>6 DEF w, p, c, new, Completes, Puts
<1> QED BY <1>7, <1>8

\* Its deletion.
Drops(m, w, rec, q) ==
  LET new == [rec EXCEPT ![q] = Absent]
  IN /\ SamePhase(m, w.manager) /\ w.recorded = new
     /\ \A x : x # q /\ (x # DefaultServer \/ hasActiveEmptyHostIngress(new))
                 => Spares(m, w.manager, x)
     /\ ~isRollbackManager \/ m.batchMode => w.ok

\* delete spares the files of the others, too.
LEMMA DeletionSpares ==
  ASSUME NEW m, Fields(m), NEW rec, NEW params, NEW q \in ResourceFiles
  PROVE  Drops(m, delete(m, rec, params, q), rec, q)
<1> DEFINE m1 == IF rec[q] \in EmptyHostSpecs THEN m ELSE DeleteConfig(m, q)
           new == [rec EXCEPT ![q] = Absent]
           w == delete(m, rec, params, q)
<1>1. w = withDefaultServer(m1, new, params, q)
  BY DEF delete
<1>2. SamePhase(m, m1) /\ \A x : x # q => Spares(m, m1, x)
  <2>1. SamePhase(m, m) /\ \A x : Spares(m, m, x)
    BY DEF SamePhase, Spares
  <2> QED BY <2>1, DeleteSpares DEF Leaves
<1> HIDE DEF m1, new, w
<1>3. Fields(m1) /\ m1.batchMode = m.batchMode
  BY <1>2 DEF SamePhase
<1>4. Completes(m1, w, new)
  BY <1>1, <1>3, DefaultSpares
<1>5. /\ SamePhase(m, w.manager)
      /\ \A x : x # q /\ (x # DefaultServer \/ hasActiveEmptyHostIngress(new))
                  => Spares(m, w.manager, x)
  BY <1>2, <1>4, SparesTwice DEF Completes
<1> QED BY <1>3, <1>4, <1>5 DEF w, new, Completes, Drops

\* The reload after a write: it spares everything, and what it reports is that it was done.
LEMMA ReloadedSpares ==
  ASSUME NEW w, Fields(w.manager), NEW enabled
  PROVE  LET v == reloaded(w, enabled)
         IN /\ SamePhase(w.manager, v.manager) /\ v.recorded = w.recorded
            /\ v.manager.files = w.manager.files
            /\ \A x : Spares(w.manager, v.manager, x)
            /\ v.ok => w.ok
            /\ enabled /\ w.ok /\ Accepts(w.manager.files) => v.manager.loaded = w.manager.files
            /\ enabled /\ v.ok => Accepts(w.manager.files)
<1> DEFINE v == reloaded(w, enabled)
<1>1. CASE w.ok /\ enabled
  <2>1. /\ v.manager = Reload(w.manager) /\ v.recorded = w.recorded
        /\ v.ok = Accepts(w.manager.files)
    BY <1>1 DEF reloaded, Wrote
  <2> HIDE DEF v
  <2> QED BY <1>1, <2>1, ReloadSpares DEF v
<1>2. CASE ~(w.ok /\ enabled)
  <2>1. v = w
    BY <1>2 DEF reloaded
  <2> HIDE DEF v
  <2>2. SamePhase(w.manager, w.manager) /\ \A x : Spares(w.manager, w.manager, x)
    BY DEF SamePhase, Spares
  <2> QED BY <1>2, <2>1, <2>2 DEF v
<1> QED BY <1>1, <1>2

\* The write of a resource, or its deletion, is none of the file of another one that is
\* recorded: with the empty host it has the default server for itself.
LEMMA FilesApart ==
  ASSUME OneEmptyHost, Shape, NEW q \in ResourceFiles, NEW r \in Tasks, r # q,
         recorded[r] = resources[r]
  PROVE  /\ File(r) # q
         /\ \A v : File(r) # DefaultServer \/ hasActiveEmptyHostIngress([recorded EXCEPT ![q] = v])
         /\ \A spec \in Specs(q) : File(r) # FileName(q, spec)
<1>1. r \in ResourceFiles /\ resources[r] \in Specs(r)
  BY DEF Tasks, Existing, Shape
<1>2. r # DefaultServer /\ q # DefaultServer
  BY <1>1, PathsAssumption
<1>3. CASE resources[r] \notin EmptyHostSpecs
  BY <1>2, <1>3 DEF File, FileName
<1>4. CASE resources[r] \in EmptyHostSpecs
  <2>1. r \in Ingresses
    BY <1>1, <1>4, SpecsAssumption
  <2>2. \A v : [recorded EXCEPT ![q] = v][r] = recorded[r]
    BY <1>1, SMTT(20) DEF Shape
  <2>3. \A v : hasActiveEmptyHostIngress([recorded EXCEPT ![q] = v])
    BY <1>4, <2>1, <2>2 DEF hasActiveEmptyHostIngress
  <2>4. \A spec \in Specs(q) : spec \notin EmptyHostSpecs
    BY <1>1, <1>4 DEF OneEmptyHost
  <2> QED BY <1>2, <1>4, <2>3, <2>4 DEF File, FileName
<1> QED BY <1>3, <1>4

\* What a write leaves alone stays written and run.
LEMMA StaysWritten ==
  ASSUME NEW r, Written(r), Spares(manager, manager', File(r)), recorded'[r] = recorded[r],
         resources'[r] = resources[r], cfgParams' = cfgParams,
         Port(globalConfiguration', r) = Port(globalConfiguration, r)
  PROVE  Written(r)' /\ (Runs(manager, File(r)) => Runs(manager, File(r))')
<1>1. File(r)' = File(r)
  BY DEF File
<1>2. Written(r)'
  BY <1>1 DEF Written, Spares
<1>3. Runs(manager, File(r)) => Runs(manager', File(r)')
  BY <1>1 DEF Spares
<1> QED BY <1>2, <1>3 DEF Runs

\* A step between two syncs that writes nothing.
LEMMA NothingWritten ==
  ASSUME Answered, PlainLoaded, pc \in {"idle", "synced"}, pc' \in {"idle", "synced"},
         UNCHANGED <<isRollbackManager, recorded, cfgParams, globalConfiguration, status, unloaded,
                     manager>>,
         \A r \in ResourceFiles : resources'[r] = resources[r],
         batchSyncEnabled => batchSyncEnabled'
  PROVE  Answered' /\ Handled' /\ PlainLoaded'
<1>1. \A r \in ResourceFiles : File(r)' = File(r) /\ (Written(r) => Written(r)')
  BY DEF File, Written
<1>2. Tasks' = Tasks /\ Tasks \subseteq ResourceFiles
  BY DEF Tasks, Existing
<1>3. Answered'
  BY <1>1, <1>2 DEF Answered, Runs
<1>4. Handled'
  BY DEF Handled
<1>5. PlainLoaded'
  BY DEF PlainLoaded
<1> QED BY <1>3, <1>4, <1>5

\* The controller starts with the files that NGINX runs, and has told nothing.
LEMMA AppliedInit == Init => AppliedInv
<1> SUFFICES ASSUME Init PROVE AppliedInv
  OBVIOUS
<1>1. PICK c \in Clusters, bootstrap \in ConfigMaps \ Unparsable :
        /\ objects = c.objects
        /\ manager = [EnableBatchMode(Rendered(MainSpec, bootstrap, 0),
                                      Rendered(DefaultSpec, bootstrap, 0))
                      EXCEPT !.batchMode = isRollbackManager]
        /\ resources = [r \in ResourceFiles |-> Absent]
        /\ recorded = [r \in ResourceFiles |-> Absent]
        /\ status = [r \in ResourceFiles |-> Absent]
        /\ startupComplete = FALSE /\ isNginxReady = FALSE
        /\ batchSyncEnabled = FALSE /\ updateAllConfigsOnBatch = FALSE
        /\ pc = "idle" /\ update = NoUpdate
  BY DEF Init
<1> USE <1>1
<1>2. Fields(manager) /\ manager.loaded = manager.files /\ manager.batchMode = isRollbackManager
  BY SMTT(20) DEF Fields, EnableBatchMode
<1>3. Shape
  BY <1>2, ClustersAssumption DEF Shape
<1>4. Course
  BY <1>2 DEF Course
<1>5. Tasks = {}
  BY DEF Tasks, Existing
<1>6. Answered /\ Handled /\ PlainLoaded
  BY <1>2, <1>5 DEF Answered, Handled, PlainLoaded
<1> QED BY <1>3, <1>4, <1>6 DEF AppliedInv

\* The users change their objects, and what the worker has done stays.
LEMMA UsersApplied == AppliedInv /\ Users => AppliedInv'
<1> SUFFICES ASSUME AppliedInv, Users PROVE AppliedInv'
  OBVIOUS
<1>1. PICK key : Changed(key)
  BY DEF Users, ChangeResource, ChangeConfigMap, ChangeGlobalConfiguration
<1>2. /\ UNCHANGED <<isRollbackManager, resources, globalConfiguration, startupComplete, configMap,
                     isNginxReady, batchSyncEnabled, updateAllConfigsOnBatch, isReloadsEnabled,
                     cfgParams, recorded, pc, update, status, unloaded, manager>>
      /\ queue \subseteq queue'
  BY <1>1 DEF Changed, configuration, readiness, batching, reports
<1>3. DOMAIN objects' = ResourceFiles /\ \A r \in ResourceFiles : objects'[r] \in Specs(r) \cup {Absent}
  <2>1. CASE UNCHANGED objects
    BY <2>1 DEF AppliedInv, Shape
  <2>2. CASE \E r \in ResourceFiles : ChangeResource(r)
    BY <2>2, SMTT(20) DEF ChangeResource, AppliedInv, Shape
  <2> QED BY <2>1, <2>2 DEF Users, ChangeConfigMap, ChangeGlobalConfiguration
<1>4. Tasks' = Tasks /\ (\A r : File(r)' = File(r) /\ (Written(r) => Written(r)'))
      /\ (sharedInputFailure' <=> sharedInputFailure)
  BY <1>2 DEF Tasks, Existing, File, Written, sharedInputFailure
<1>5. Shape'
  BY <1>2, <1>3 DEF AppliedInv, Shape, Fields
<1>6. Course'
  BY <1>2, <1>4 DEF AppliedInv, Course
<1>7. Answered' /\ Handled' /\ PlainLoaded'
  BY <1>2, <1>4 DEF AppliedInv, Answered, Handled, PlainLoaded, Runs
<1> QED BY <1>5, <1>6, <1>7 DEF AppliedInv

\* The head of sync: reloads go off only when a batch begins, and only when the pod is ready.
LEMMA DequeueApplied ==
  ASSUME NEW key, Course, Dequeue(key)
  PROVE  /\ pc = "idle"
         /\ batchSyncEnabled => batchSyncEnabled'
         /\ batchSyncEnabled' => isNginxReady
         /\ startupComplete => isReloadsEnabled' \/ batchSyncEnabled'
BY DEF Dequeue, Course

\* The course of sync after a step from the head of sync to its end.
LEMMA SyncedCourse ==
  ASSUME Course, pc' = "synced", batchSyncEnabled' => isNginxReady,
         batchSyncEnabled => batchSyncEnabled',
         startupComplete => isReloadsEnabled' \/ batchSyncEnabled',
         UNCHANGED <<isRollbackManager, startupComplete, isNginxReady>>,
         manager'.batchMode => isRollbackManager,
         ~startupComplete => \A r \in ResourceFiles : status'[r] = Absent,
         updateAllConfigsOnBatch' => batchSyncEnabled',
         isNginxReady => cfgParams' = configMap' \/ updateAllConfigsOnBatch'
  PROVE  Course'
BY DEF Course

\* A resource is synced.  If NGINX is told, the resource is told the outcome.
LEMMA SyncResourceApplied ==
  ASSUME OneEmptyHost, AppliedInv, NEW q \in ResourceFiles, SyncResource(q)
  PROVE  AppliedInv'
<1>1. /\ UNCHANGED <<isRollbackManager, objects, globalConfiguration, startupComplete, configMap,
                     isNginxReady, updateAllConfigsOnBatch, cfgParams, update>>
      /\ Dequeue(q) /\ pc' = "synced" /\ resources' = [resources EXCEPT ![q] = objects[q]]
  BY DEF SyncResource, cluster, readiness
<1> USE <1>1 DEF AppliedInv
<1>2. /\ pc = "idle"
      /\ batchSyncEnabled => batchSyncEnabled'
      /\ batchSyncEnabled' => isNginxReady
      /\ startupComplete => isReloadsEnabled' \/ batchSyncEnabled'
  BY DequeueApplied
<1>3. /\ DOMAIN resources' = ResourceFiles
      /\ \A r \in ResourceFiles : resources'[r] = IF r = q THEN objects[q] ELSE resources[r]
  BY SMTT(20) DEF Shape
<1>4. \A r \in ResourceFiles : resources'[r] \in Specs(r) \cup {Absent}
  BY <1>3 DEF Shape
<1>5. updateAllConfigsOnBatch' => batchSyncEnabled'
  BY <1>2 DEF Course
<1>6. isNginxReady => cfgParams' = configMap' \/ updateAllConfigsOnBatch'
  BY DEF Course
<1>7. Handled'
  BY DEF Handled
<1>8. CASE ~(startupComplete /\ objects[q] # resources[q])
  <2>1. UNCHANGED <<manager, recorded, status, unloaded>>
    BY <1>8 DEF SyncResource, reports
  <2>2. Shape'
    BY <1>3, <1>4, <2>1 DEF Shape, Fields
  <2>3. Course'
    BY <1>2, <1>5, <1>6, <2>1, SyncedCourse DEF Course
  <2>4. CASE ~startupComplete
    <3>1. \A r \in ResourceFiles : status'[r] # "applied"
      BY <2>1, <2>4, SpecsAssumption DEF Course
    <3>2. Answered'
      BY <3>1 DEF Answered, Tasks
    <3>3. PlainLoaded'
      BY <1>2, <2>1 DEF PlainLoaded
    <3> QED BY <1>7, <2>2, <2>3, <3>2, <3>3
  <2>5. CASE startupComplete
    <3>1. \A r \in ResourceFiles : resources'[r] = resources[r]
      BY <1>3, <1>8, <2>5
    <3> QED BY <1>2, <1>7, <2>1, <2>2, <2>3, <3>1, NothingWritten
  <2> QED BY <2>4, <2>5
<1>9. CASE startupComplete /\ objects[q] # resources[q]
  <2> DEFINE gone == objects[q] = Absent
             write == IF gone
                      THEN delete(manager, recorded, cfgParams, q)
                      ELSE addOrUpdate(manager, recorded, cfgParams, globalConfiguration, q, objects[q])
             w == reloaded(write, isReloadsEnabled')
  <2>1. /\ manager' = w.manager /\ recorded' = w.recorded
        /\ status' = [status EXCEPT ![q] = IF gone THEN Absent ELSE Told(w.ok)]
        /\ unloaded' = unloaded \ {q}
    BY <1>9 DEF SyncResource
  <2>2. objects[q] \in Specs(q) \cup {Absent} /\ q \in DOMAIN recorded /\ Fields(manager)
    BY DEF Shape
  <2>3. objects[q] \in EmptyHostSpecs => q \in Ingresses
    BY <2>2, SpecsAssumption
  <2>4. /\ SamePhase(manager, write.manager)
        /\ write.recorded \in {recorded, [recorded EXCEPT ![q] = objects[q]]}
        /\ \A x : /\ x # q /\ (gone \/ x # FileName(q, objects[q]))
                  /\ x # DefaultServer \/ hasActiveEmptyHostIngress([recorded EXCEPT ![q] = objects[q]])
                  => Spares(manager, write.manager, x)
        /\ write.ok /\ ~gone =>
             /\ write.recorded = [recorded EXCEPT ![q] = objects[q]]
             /\ Holds(write.manager, FileName(q, objects[q]),
                      Rendered(objects[q], cfgParams, Port(globalConfiguration, q)))
        /\ ~isRollbackManager => write.ok
    <3>1. CASE gone
      <4>1. Drops(manager, write, recorded, q)
        BY <2>2, <3>1, DeletionSpares
      <4> HIDE DEF write
      <4> QED BY <3>1, <4>1 DEF Drops
    <3>2. CASE ~gone
      <4>1. Puts(manager, write, recorded, q, objects[q],
                 Rendered(objects[q], cfgParams, Port(globalConfiguration, q)))
        BY <2>2, <2>3, <3>2, AddOrUpdateSpares
      <4> HIDE DEF write
      <4> QED BY <3>2, <4>1 DEF Puts
    <3> QED BY <3>1, <3>2
  <2> HIDE DEF write
  <2>5. Fields(write.manager)
    BY <2>4 DEF SamePhase
  <2>6. /\ SamePhase(write.manager, w.manager) /\ w.recorded = write.recorded
        /\ w.manager.files = write.manager.files
        /\ \A x : Spares(write.manager, w.manager, x)
        /\ w.ok => write.ok
        /\ isReloadsEnabled' /\ write.ok /\ Accepts(write.manager.files)
             => w.manager.loaded = write.manager.files
        /\ isReloadsEnabled' /\ w.ok => Accepts(write.manager.files)
    BY <2>5, ReloadedSpares
  <2> HIDE DEF w
  <2>7. Fields(manager') /\ manager'.batchMode = manager.batchMode
    BY <2>1, <2>4, <2>6 DEF SamePhase
  <2>8. /\ DOMAIN recorded' = ResourceFiles
        /\ \A r \in ResourceFiles : r # q => recorded'[r] = recorded[r]
    BY <2>1, <2>4, <2>6, SMTT(20) DEF Shape
  <2>9. /\ DOMAIN status' = ResourceFiles
        /\ \A r \in ResourceFiles : r # q => status'[r] = status[r]
        /\ status'[q] = IF gone THEN Absent ELSE Told(w.ok)
    BY <2>1, SMTT(20) DEF Shape
  <2>10. Shape'
    BY <1>3, <1>4, <2>7, <2>8, <2>9 DEF Shape
  <2>11. Course'
    BY <1>2, <1>5, <1>6, <1>9, <2>7, SyncedCourse DEF Course
  <2>12. PlainLoaded'
    BY <1>2, <1>9, <2>1, <2>4, <2>6 DEF PlainLoaded
  <2>13. ASSUME NEW r \in Tasks', r \notin unloaded', status'[r] = "applied"
         PROVE  Written(r)' /\ (batchSyncEnabled' \/ Runs(manager, File(r))')
    <3>1. r \in ResourceFiles /\ resources'[r] # Absent
      BY <2>13 DEF Tasks, Existing
    <3>2. CASE r = q
      <4>1. ~gone /\ w.ok /\ write.ok
        BY <1>3, <2>6, <2>9, <2>13, <3>1, <3>2 DEF Told
      <4>2. resources'[q] = objects[q] /\ recorded'[q] = objects[q]
        BY <1>3, <2>1, <2>2, <2>4, <2>6, <4>1, SMTT(20)
      <4>3. File(r)' = FileName(q, objects[q])
        BY <3>2, <4>2 DEF File
      <4>4. Holds(manager', FileName(q, objects[q]),
                  Rendered(objects[q], cfgParams, Port(globalConfiguration, q)))
        BY <2>1, <2>4, <2>6, <4>1 DEF Holds
      <4>5. Written(r)'
        BY <3>2, <4>2, <4>3, <4>4 DEF Written, Holds
      <4>6. isReloadsEnabled' => manager'.loaded = manager'.files
        BY <2>1, <2>6, <4>1
      <4> QED BY <1>2, <1>9, <4>5, <4>6 DEF Runs, Written
    <3>3. CASE r # q
      <4>1. r \in Tasks /\ r \notin unloaded /\ status[r] = "applied" /\ resources'[r] = resources[r]
        BY <1>3, <2>1, <2>9, <2>13, <3>1, <3>3 DEF Tasks, Existing
      <4>2. Written(r) /\ (batchSyncEnabled \/ Runs(manager, File(r)))
        BY <1>2, <4>1 DEF Answered
      <4>3. recorded[r] = resources[r]
        BY <4>2 DEF Written
      <4>4. /\ File(r) # q
            /\ \A v : File(r) # DefaultServer \/ hasActiveEmptyHostIngress([recorded EXCEPT ![q] = v])
            /\ \A spec \in Specs(q) : File(r) # FileName(q, spec)
        BY <3>3, <4>1, <4>3, FilesApart
      <4>5. Spares(manager, write.manager, File(r))
        BY <2>2, <2>4, <4>4
      <4>6. Spares(manager, manager', File(r))
        BY <2>1, <2>6, <4>5, SparesTwice
      <4> QED BY <1>2, <2>8, <3>1, <3>3, <4>1, <4>2, <4>6, StaysWritten
    <3> QED BY <3>2, <3>3
  <2>14. Answered'
    BY <2>13 DEF Answered
  <2> QED BY <1>7, <2>10, <2>11, <2>12, <2>14
<1> QED BY <1>8, <1>9

\* An update begins: startup is over, no batch is open, and the parameters are the ConfigMap's.
LEMMA UpdateStarts ==
  ASSUME AppliedInv, pc' = "update", update' = NoUpdate, cfgParams' = configMap', startupComplete',
         ~batchSyncEnabled', ~updateAllConfigsOnBatch', isReloadsEnabled',
         UNCHANGED <<isRollbackManager, objects, resources, recorded, status, manager>>
  PROVE  AppliedInv'
<1>1. Shape'
  BY DEF AppliedInv, Shape, Fields
<1>2. Course'
  BY DEF AppliedInv, Course
<1>3. Answered' /\ Handled' /\ PlainLoaded'
  BY DEF Answered, Handled, PlainLoaded
<1> QED BY <1>1, <1>2, <1>3 DEF AppliedInv

\* The ConfigMap is synced: at once, at the end of the batch, or at the end of startup.
LEMMA SyncConfigMapApplied ==
  ASSUME AppliedInv, SyncConfigMap
  PROVE  AppliedInv'
<1>1. /\ UNCHANGED <<isRollbackManager, objects, resources, globalConfiguration, startupComplete,
                     isNginxReady, recorded, status, unloaded, manager>>
      /\ Dequeue(ConfigMapKey) /\ configMap' = configMapObject
      /\ updateAllConfigsOnBatch' = (updateAllConfigsOnBatch \/ batchSyncEnabled')
  BY DEF SyncConfigMap, cluster, configuration, readiness, reports
<1> USE <1>1
<1>2. /\ pc = "idle"
      /\ batchSyncEnabled => batchSyncEnabled'
      /\ batchSyncEnabled' => isNginxReady
      /\ startupComplete => isReloadsEnabled' \/ batchSyncEnabled'
  BY DequeueApplied DEF AppliedInv
<1>3. updateAllConfigsOnBatch' <=> batchSyncEnabled'
  BY <1>2 DEF AppliedInv, Course
<1>4. CASE isNginxReady /\ ~batchSyncEnabled'
  <2>1. pc' = "update" /\ update' = NoUpdate /\ cfgParams' = configMap'
    BY <1>4 DEF SyncConfigMap, updateAllConfigs
  <2>2. startupComplete
    BY <1>4 DEF AppliedInv, Course
  <2> QED BY <1>2, <1>3, <1>4, <2>1, <2>2, UpdateStarts
<1>5. CASE ~(isNginxReady /\ ~batchSyncEnabled')
  <2>1. pc' = "synced" /\ UNCHANGED <<cfgParams, update>>
    BY <1>5 DEF SyncConfigMap
  <2>2. Shape'
    BY <2>1 DEF AppliedInv, Shape, Fields
  <2>3. Course'
    BY <1>2, <1>3, <1>5, <2>1, SyncedCourse DEF AppliedInv, Course
  <2>4. Answered' /\ Handled' /\ PlainLoaded'
    BY <1>2, <2>1, NothingWritten DEF AppliedInv
  <2> QED BY <2>2, <2>3, <2>4 DEF AppliedInv
<1> QED BY <1>4, <1>5

\* The GlobalConfiguration is synced: the files of the TransportServers whose listener moves are
\* out of date, and are written next.
LEMMA SyncGlobalConfigurationApplied ==
  ASSUME AppliedInv, SyncGlobalConfiguration
  PROVE  AppliedInv'
<1> DEFINE moved == {r \in Tasks \cap TransportServers :
                       globalConfigurationObject[r] # globalConfiguration[r]}
<1>1. /\ UNCHANGED <<isRollbackManager, objects, resources, startupComplete, configMap, isNginxReady,
                     updateAllConfigsOnBatch, cfgParams, recorded, status, unloaded, manager>>
      /\ Dequeue(GlobalConfigurationKey) /\ globalConfiguration' = globalConfigurationObject
      /\ IF startupComplete /\ moved # {}
         THEN pc' = "listeners" /\ update' = [NoUpdate EXCEPT !.todo = moved]
         ELSE pc' = "synced" /\ UNCHANGED update
  BY DEF SyncGlobalConfiguration, cluster, readiness, reports
<1> USE <1>1
<1>2. /\ pc = "idle"
      /\ batchSyncEnabled => batchSyncEnabled'
      /\ batchSyncEnabled' => isNginxReady
      /\ startupComplete => isReloadsEnabled' \/ batchSyncEnabled'
  BY DequeueApplied DEF AppliedInv
<1>3. Tasks' = Tasks /\ \A r : File(r)' = File(r)
  BY DEF Tasks, Existing, File
<1>4. \A r \in Tasks \ moved : Port(globalConfiguration', r) = Port(globalConfiguration, r)
  BY DEF Port
<1>5. \A r \in Tasks \ moved : Written(r) => Written(r)'
  BY <1>3, <1>4 DEF Written
<1>6. CASE startupComplete /\ moved # {}
  <2>1. pc' = "listeners" /\ update' = [NoUpdate EXCEPT !.todo = moved]
    BY <1>6
  <2>2. /\ DOMAIN update' = DOMAIN NoUpdate
        /\ update'.todo = moved /\ update'.updatedResources = {}
    BY <2>1, SMTT(20) DEF NoUpdate
  <2>3. moved \subseteq Tasks
    OBVIOUS
  <2> HIDE DEF moved
  <2>4. Shape'
    BY <2>2 DEF AppliedInv, Shape, Fields
  <2>5. Course'
    BY <1>2, <1>3, <1>6, <2>1, <2>2, <2>3 DEF AppliedInv, Course
  <2>6. Answered'
    BY <1>2, <1>3, <1>5, <2>1, <2>2 DEF AppliedInv, Answered, Runs
  <2>7. Handled' /\ PlainLoaded'
    BY <2>1, <2>2 DEF Handled, PlainLoaded
  <2> QED BY <2>4, <2>5, <2>6, <2>7 DEF AppliedInv
<1>7. CASE ~(startupComplete /\ moved # {})
  <2>1. pc' = "synced" /\ UNCHANGED update
    BY <1>7
  <2>2. Shape'
    BY <2>1 DEF AppliedInv, Shape, Fields
  <2>3. Course'
    BY <1>2, <2>1, SyncedCourse DEF AppliedInv, Course
  <2>4. PlainLoaded' /\ Handled'
    BY <1>2, <2>1 DEF AppliedInv, PlainLoaded, Handled
  <2>5. CASE startupComplete
    <3>1. moved = {}
      BY <1>7, <2>5
    <3> HIDE DEF moved
    <3>2. Answered'
      BY <1>2, <1>3, <1>5, <2>1, <3>1 DEF AppliedInv, Answered, Runs
    <3> QED BY <2>2, <2>3, <2>4, <3>2 DEF AppliedInv
  <2>6. CASE ~startupComplete
    <3>1. \A r \in ResourceFiles : status'[r] # "applied"
      BY <2>6, SpecsAssumption DEF AppliedInv, Course
    <3>2. Answered'
      BY <3>1 DEF Answered, Tasks
    <3> QED BY <2>2, <2>3, <2>4, <3>2 DEF AppliedInv
  <2> QED BY <2>5, <2>6
<1> QED BY <1>6, <1>7

\* The end of startup.
LEMMA CompleteStartupApplied ==
  ASSUME AppliedInv, CompleteStartup
  PROVE  AppliedInv'
<1>1. /\ UNCHANGED <<isRollbackManager, objects, resources, configMap, batchSyncEnabled,
                     updateAllConfigsOnBatch, recorded, status, manager>>
      /\ ~isNginxReady /\ startupComplete' = TRUE /\ isReloadsEnabled' = TRUE
      /\ pc' = "update" /\ update' = NoUpdate /\ cfgParams' = configMap
  BY DEF CompleteStartup, updateAllConfigs, cluster, reports
<1>2. ~batchSyncEnabled /\ ~updateAllConfigsOnBatch
  BY <1>1 DEF AppliedInv, Course
<1> QED BY <1>1, <1>2, UpdateStarts

\* The end of a batch: an update, or one reload.  If NGINX refuses it, the resources whose files
\* it would have read are noted.
LEMMA EndBatchSyncApplied ==
  ASSUME AppliedInv, EndBatchSync
  PROVE  AppliedInv'
<1>1. /\ UNCHANGED <<isRollbackManager, objects, resources, globalConfiguration, startupComplete,
                     configMap, isNginxReady, recorded, status>>
      /\ pc = "synced" /\ batchSyncEnabled
      /\ ~batchSyncEnabled' /\ isReloadsEnabled' /\ ~updateAllConfigsOnBatch'
  BY DEF EndBatchSync, cluster, configuration, readiness
<1> USE <1>1
<1>2. startupComplete /\ isNginxReady
  BY DEF AppliedInv, Course
<1>3. CASE updateAllConfigsOnBatch
  <2>1. pc' = "update" /\ update' = NoUpdate /\ cfgParams' = configMap /\ UNCHANGED manager
    BY <1>3 DEF EndBatchSync, updateAllConfigs
  <2> QED BY <1>2, <2>1, UpdateStarts
<1>4. CASE ~updateAllConfigsOnBatch
  <2>1. /\ manager' = Reload(manager) /\ pc' = "idle" /\ UNCHANGED <<cfgParams, update>>
        /\ unloaded' = IF Accepts(manager.files) THEN unloaded ELSE unloaded \cup Outdated
    BY <1>4 DEF EndBatchSync
  <2> USE <2>1
  <2>2. /\ SamePhase(manager, manager') /\ manager'.files = manager.files
        /\ \A x : Spares(manager, manager', x)
        /\ Accepts(manager.files) => manager'.loaded = manager.files
    BY ReloadSpares DEF AppliedInv, Shape
  <2>3. Tasks' = Tasks /\ \A r : File(r)' = File(r)
    BY DEF Tasks, Existing, File
  <2>4. Shape'
    BY <2>2 DEF AppliedInv, Shape, SamePhase
  <2>5. Course'
    BY <1>2, <1>4, <2>2 DEF AppliedInv, Course, SamePhase
  <2>6. Handled' /\ PlainLoaded'
    BY <2>2 DEF Handled, PlainLoaded
  <2>7. ASSUME NEW r \in Tasks, r \notin unloaded', status[r] = "applied"
        PROVE  Written(r)' /\ Runs(manager, File(r))'
    <3>1. Written(r)
      BY <2>7 DEF AppliedInv, Answered
    <3>2. Written(r)'
      BY <2>2, <2>3, <3>1 DEF Written
    <3>3. CASE Accepts(manager.files)
      BY <2>2, <3>2, <3>3 DEF Runs, Written
    <3>4. CASE ~Accepts(manager.files)
      <4>1. r \notin Outdated
        BY <2>7, <3>4
      <4>2. Runs(manager, File(r))
        BY <2>7, <4>1 DEF Outdated, Runs, File
      <4>3. Runs(manager', File(r)')
        BY <2>2, <2>3, <4>2 DEF Spares
      <4> QED BY <3>2, <4>3 DEF Runs
    <3> QED BY <3>2, <3>3, <3>4
  <2>8. Answered'
    BY <2>3, <2>7 DEF Answered
  <2> QED BY <2>4, <2>5, <2>6, <2>8 DEF AppliedInv
<1> QED BY <1>3, <1>4

\* The end of a sync.
LEMMA EndSyncApplied ==
  ASSUME AppliedInv, EndSync
  PROVE  AppliedInv'
<1>1. /\ UNCHANGED <<isRollbackManager, objects, queue, resources, globalConfiguration,
                     startupComplete, configMap, isNginxReady, batchSyncEnabled,
                     updateAllConfigsOnBatch, isReloadsEnabled, cfgParams, recorded, update, status,
                     unloaded, manager>>
      /\ pc = "synced" /\ pc' = "idle"
      /\ Len_syncQueue > 0 \/ ~batchSyncEnabled
  BY DEF EndSync, cluster, configuration, readiness, batching, reports
<1> USE <1>1
<1>2. Len_syncQueue > 0 => queue # {}
  <2>1. Cardinality({}) = 0
    BY FS_EmptySet
  <2>2. queue = {} => queue \ {task} = {}
    OBVIOUS
  <2>3. queue = {} => Len_syncQueue = 0
    BY <2>1, <2>2 DEF Len_syncQueue
  <2>4. ~(0 > 0)
    BY SMTT(20)
  <2> QED BY <2>3, <2>4
<1>3. Shape'
  BY DEF AppliedInv, Shape, Fields
<1>4. Course'
  BY <1>2 DEF AppliedInv, Course
<1>5. Answered' /\ Handled' /\ PlainLoaded'
  BY NothingWritten DEF AppliedInv
<1> QED BY <1>3, <1>4, <1>5 DEF AppliedInv

\* An existing resource is written again: the files that are written stay, and if there is no
\* error its own file is written, too.
LEMMA TaskSpares ==
  ASSUME OneEmptyHost, Shape, NEW q \in Tasks
  PROVE  LET w == addOrUpdate(manager, recorded, cfgParams, globalConfiguration, q, resources[q])
         IN /\ SamePhase(manager, w.manager) /\ DOMAIN w.recorded = ResourceFiles
            /\ \A r \in ResourceFiles : r # q => w.recorded[r] = recorded[r]
            /\ w.ok => /\ w.recorded[q] = resources[q]
                       /\ Holds(w.manager, File(q),
                                Rendered(resources[q], cfgParams, Port(globalConfiguration, q)))
            /\ \A r \in Tasks : r # q /\ Written(r) => Spares(manager, w.manager, File(r))
            /\ ~isRollbackManager \/ manager.batchMode => w.ok
<1> DEFINE w == addOrUpdate(manager, recorded, cfgParams, globalConfiguration, q, resources[q])
           c == Rendered(resources[q], cfgParams, Port(globalConfiguration, q))
<1>1. q \in ResourceFiles /\ resources[q] \in Specs(q) /\ q \in DOMAIN recorded /\ Fields(manager)
  BY DEF Tasks, Existing, Shape
<1>2. resources[q] \in EmptyHostSpecs => q \in Ingresses
  BY <1>1, SpecsAssumption
<1>3. Puts(manager, w, recorded, q, resources[q], c)
  BY <1>1, <1>2, AddOrUpdateSpares
<1> HIDE DEF w, c
<1>4. /\ DOMAIN w.recorded = ResourceFiles
      /\ \A r \in ResourceFiles : r # q => w.recorded[r] = recorded[r]
      /\ w.ok => w.recorded[q] = resources[q]
  BY <1>1, <1>3, SMTT(20) DEF Puts, Shape
<1>5. ASSUME NEW r \in Tasks, r # q, Written(r) PROVE Spares(manager, w.manager, File(r))
  <2>1. recorded[r] = resources[r]
    BY <1>5 DEF Written
  <2>2. /\ File(r) # q
        /\ \A v : File(r) # DefaultServer \/ hasActiveEmptyHostIngress([recorded EXCEPT ![q] = v])
        /\ \A spec \in Specs(q) : File(r) # FileName(q, spec)
    BY <1>1, <1>5, <2>1, FilesApart
  <2> QED BY <1>1, <1>3, <2>2 DEF Puts
<1>6. w.ok => Holds(w.manager, File(q), c)
  BY <1>3 DEF Puts, File
<1>7. SamePhase(manager, w.manager) /\ (~isRollbackManager \/ manager.batchMode => w.ok)
  BY <1>3 DEF Puts
<1> QED BY <1>4, <1>5, <1>6, <1>7 DEF w, c

\* The step that does so, and may reload.
LEMMA TaskWritten ==
  ASSUME OneEmptyHost, Shape, NEW q \in Tasks, NEW w,
         w = addOrUpdate(manager, recorded, cfgParams, globalConfiguration, q, resources[q]),
         recorded' = w.recorded, UNCHANGED <<resources, cfgParams, globalConfiguration>>,
         manager'.files = w.manager.files, \A x : Spares(w.manager, manager', x)
  PROVE  /\ \A r \in Tasks : /\ r # q /\ Written(r)
                             => Written(r)' /\ (Runs(manager, File(r)) => Runs(manager, File(r))')
         /\ w.ok => Written(q)'
         /\ DOMAIN recorded' = ResourceFiles
         /\ SamePhase(manager, w.manager)
         /\ ~isRollbackManager \/ manager.batchMode => w.ok
<1>1. /\ SamePhase(manager, w.manager) /\ DOMAIN w.recorded = ResourceFiles
      /\ \A r \in ResourceFiles : r # q => w.recorded[r] = recorded[r]
      /\ w.ok => /\ w.recorded[q] = resources[q]
                 /\ Holds(w.manager, File(q),
                          Rendered(resources[q], cfgParams, Port(globalConfiguration, q)))
      /\ \A r \in Tasks : r # q /\ Written(r) => Spares(manager, w.manager, File(r))
      /\ ~isRollbackManager \/ manager.batchMode => w.ok
  BY TaskSpares
<1>2. ASSUME NEW r \in Tasks, r # q, Written(r)
      PROVE  Written(r)' /\ (Runs(manager, File(r)) => Runs(manager, File(r))')
  <2>1. Spares(manager, manager', File(r))
    BY <1>1, <1>2, SparesTwice
  <2>2. r \in ResourceFiles
    BY DEF Tasks
  <2> QED BY <1>1, <1>2, <2>1, <2>2, StaysWritten
<1>3. File(q)' = File(q)
  BY DEF File
<1>4. w.ok => Written(q)'
  BY <1>1, <1>3 DEF Written, Holds
<1> QED BY <1>1, <1>2, <1>4

\* The TransportServers whose listener moved are written, reloaded, and told the same.
LEMMA UpdateTransportServersApplied ==
  ASSUME OneEmptyHost, AppliedInv, UpdateTransportServers
  PROVE  AppliedInv'
<1> DEFINE q == First(update.todo)
           w == addOrUpdate(manager, recorded, cfgParams, globalConfiguration, q, resources[q])
           ok == ~update.updateErr /\ w.ok
           updated == update.updatedResources \cup {q}
           last == reloaded(Wrote(w.manager, w.recorded, TRUE), isReloadsEnabled)
<1>1. /\ pc = "listeners" /\ recorded' = w.recorded
      /\ UNCHANGED <<isRollbackManager, objects, queue, resources, globalConfiguration,
                     startupComplete, configMap, isNginxReady, batchSyncEnabled,
                     updateAllConfigsOnBatch, isReloadsEnabled, cfgParams>>
      /\ IF update.todo # {q}
         THEN /\ manager' = w.manager
              /\ update' = [update EXCEPT !.todo = @ \ {q}, !.updateErr = ~ok,
                                          !.updatedResources = updated]
              /\ pc' = pc /\ status' = status /\ unloaded' = unloaded
         ELSE /\ manager' = last.manager
              /\ status' = [r \in ResourceFiles |-> IF r \in updated THEN Told(ok /\ last.ok)
                                                    ELSE status[r]]
              /\ unloaded' = unloaded \ updated
              /\ update' = NoUpdate /\ pc' = "synced"
  BY DEF UpdateTransportServers, cluster, configuration, readiness, batching, reports
<1>2. update.todo # {} /\ update.todo \cup update.updatedResources \subseteq Tasks /\ startupComplete
  BY <1>1 DEF AppliedInv, Course
<1>3. q \in update.todo /\ q \in Tasks
  <2>1. update.todo \subseteq ResourceFiles
    BY <1>2 DEF Tasks
  <2> QED BY <1>2, <2>1, FirstIn
<1>4. PICK Q : Q = q
  OBVIOUS
<1>5. PICK W : W = w
  OBVIOUS
<1>6. Shape /\ Fields(manager) /\ DOMAIN update = DOMAIN NoUpdate
  BY DEF AppliedInv, Shape
<1>7. SamePhase(manager, W.manager)
  BY <1>3, <1>5, <1>6, TaskSpares
<1>8. Fields(W.manager)
  BY <1>7 DEF SamePhase
<1>9. Tasks' = Tasks /\ \A r : File(r)' = File(r)
  BY <1>1 DEF Tasks, Existing, File
<1>10. CASE update.todo # {q}
  <2>1. /\ manager' = W.manager /\ pc' = "listeners" /\ status' = status /\ unloaded' = unloaded
        /\ update' = [update EXCEPT !.todo = @ \ {Q}, !.updateErr = ~ok,
                                    !.updatedResources = updated]
    BY <1>1, <1>4, <1>5, <1>10
  <2>2. /\ update'.todo = update.todo \ {Q}
        /\ update'.updatedResources = update.updatedResources \cup {Q}
        /\ update'.updateErr = ~(~update.updateErr /\ W.ok) /\ DOMAIN update' = DOMAIN update
    BY <1>4, <1>5, <1>6, <2>1, SMTT(20) DEF NoUpdate
  <2>3. \A x : Spares(W.manager, manager', x)
    BY <2>1 DEF Spares
  <2>4. /\ \A r \in Tasks : /\ r # Q /\ Written(r)
                            => Written(r)' /\ (Runs(manager, File(r)) => Runs(manager, File(r))')
        /\ W.ok => Written(Q)'
        /\ DOMAIN recorded' = ResourceFiles
    <3> HIDE DEF w, q
    <3> QED BY <1>1, <1>3, <1>4, <1>5, <1>6, <2>1, <2>3, TaskWritten DEF w
  <2>5. Q \in update.todo /\ update.todo \ {Q} # {}
    BY <1>3, <1>4, <1>10
  <2> HIDE DEF q, w, ok, updated, last
  <2>6. Shape'
    BY <1>1, <1>6, <1>8, <2>1, <2>2, <2>4 DEF Shape
  <2>7. Course'
    BY <1>1, <1>2, <1>7, <1>9, <2>1, <2>2, <2>5 DEF AppliedInv, Course, SamePhase
  <2>8. Answered'
    <3> SUFFICES ASSUME NEW r \in Tasks, r \notin unloaded, status[r] = "applied",
                        r \notin update.todo, r \notin update.updatedResources
                 PROVE  Written(r)' /\ (batchSyncEnabled \/ Runs(manager, File(r))')
      BY <1>1, <1>9, <2>1, <2>2, <2>5 DEF Answered
    <3>1. Written(r) /\ (batchSyncEnabled \/ Runs(manager, File(r)))
      BY <1>1 DEF AppliedInv, Answered
    <3> QED BY <2>4, <2>5, <3>1
  <2>9. Handled'
    <3> SUFFICES ASSUME ~update.updateErr, W.ok, NEW r \in update.updatedResources \cup {Q}
                 PROVE  Written(r)'
      BY <2>1, <2>2 DEF Handled
    <3>1. CASE r = Q
      BY <2>4, <3>1
    <3>2. CASE r # Q
      <4>1. r \in update.updatedResources /\ Written(r) /\ r \in Tasks
        BY <1>1, <1>2, <3>2 DEF AppliedInv, Handled
      <4> QED BY <2>4, <3>2, <4>1
    <3> QED BY <3>1, <3>2
  <2>10. PlainLoaded'
    BY <2>1 DEF PlainLoaded
  <2> QED BY <2>6, <2>7, <2>8, <2>9, <2>10 DEF AppliedInv
<1>11. CASE update.todo = {q}
  <2> DEFINE W1 == Wrote(W.manager, W.recorded, TRUE)
             L == reloaded(W1, isReloadsEnabled)
  <2>1. /\ manager' = L.manager /\ pc' = "synced" /\ update' = NoUpdate
        /\ status' = [r \in ResourceFiles |-> IF r \in updated THEN Told(ok /\ L.ok) ELSE status[r]]
        /\ unloaded' = unloaded \ updated
    BY <1>1, <1>5, <1>11
  <2>2. updated = update.todo \cup update.updatedResources /\ updated \subseteq Tasks
    BY <1>2, <1>11
  <2>3. W1.manager = W.manager /\ W1.recorded = W.recorded /\ W1.ok = TRUE
    BY DEF Wrote
  <2> HIDE DEF W1
  <2>4. /\ SamePhase(W1.manager, L.manager) /\ L.manager.files = W1.manager.files
        /\ \A x : Spares(W1.manager, L.manager, x)
        /\ isReloadsEnabled /\ W1.ok /\ Accepts(W1.manager.files)
             => L.manager.loaded = W1.manager.files
        /\ isReloadsEnabled /\ L.ok => Accepts(W1.manager.files)
    BY <1>8, <2>3, ReloadedSpares
  <2> HIDE DEF L
  <2>5. /\ \A r \in Tasks : /\ r # Q /\ Written(r)
                            => Written(r)' /\ (Runs(manager, File(r)) => Runs(manager, File(r))')
        /\ W.ok => Written(Q)'
        /\ DOMAIN recorded' = ResourceFiles
    <3> HIDE DEF w, q
    <3> QED BY <1>1, <1>3, <1>4, <1>5, <1>6, <2>1, <2>3, <2>4, TaskWritten DEF w
  <2>6. ok => W.ok /\ ~update.updateErr
    BY <1>5
  <2>7. Q \in updated /\ \A r \in updated : r # Q => r \in update.updatedResources
    BY <1>4
  <2> HIDE DEF q, w, ok, updated, last
  <2>8. Fields(manager') /\ manager'.batchMode = manager.batchMode
    BY <1>7, <2>1, <2>3, <2>4 DEF SamePhase
  <2>9. Shape'
    BY <1>1, <1>6, <2>1, <2>5, <2>8 DEF Shape
  <2>10. Course'
    BY <1>1, <1>2, <2>1, <2>8, SyncedCourse DEF AppliedInv, Course
  <2>11. Handled'
    BY <2>1 DEF Handled
  <2>12. isReloadsEnabled /\ Accepts(manager'.files) => manager'.loaded = manager'.files
    BY <2>1, <2>3, <2>4
  <2>13. PlainLoaded'
    BY <1>1, <1>2, <2>12 DEF AppliedInv, Course, PlainLoaded
  <2>14. ASSUME NEW r \in Tasks, r \notin unloaded', status'[r] = "applied"
         PROVE  Written(r)' /\ (batchSyncEnabled \/ Runs(manager, File(r))')
    <3>1. r \in ResourceFiles
      BY DEF Tasks
    <3>2. CASE r \in updated
      <4>1. ok /\ L.ok
        BY <2>1, <2>14, <3>1, <3>2 DEF Told
      <4>2. Written(r)'
        <5>1. CASE r = Q
          BY <2>5, <2>6, <4>1, <5>1
        <5>2. CASE r # Q
          <6>1. Written(r)
            BY <1>1, <2>6, <2>7, <3>2, <4>1, <5>2 DEF AppliedInv, Handled
          <6> QED BY <2>5, <5>2, <6>1
        <5> QED BY <5>1, <5>2
      <4>3. isReloadsEnabled => manager'.loaded = manager'.files
        BY <2>1, <2>3, <2>4, <4>1
      <4> QED BY <1>2, <4>2, <4>3 DEF AppliedInv, Course, Runs, Written
    <3>3. CASE r \notin updated
      <4>1. r \notin unloaded /\ status[r] = "applied"
        BY <2>1, <2>14, <3>1, <3>3
      <4>2. Written(r) /\ (batchSyncEnabled \/ Runs(manager, File(r)))
        BY <1>1, <2>2, <3>3, <4>1 DEF AppliedInv, Answered
      <4> QED BY <2>5, <2>7, <3>3, <4>2
    <3> QED BY <3>2, <3>3
  <2>15. Answered'
    BY <1>1, <1>9, <2>14 DEF Answered
  <2> QED BY <2>9, <2>10, <2>11, <2>13, <2>15 DEF AppliedInv
<1> QED BY <1>10, <1>11

\* What UpdateConfig leaves alone.
LEMMA UpdatingLeaves ==
  Updating => UNCHANGED <<isRollbackManager, objects, queue, resources, globalConfiguration,
                          startupComplete, configMap, isNginxReady, batchSyncEnabled,
                          updateAllConfigsOnBatch, isReloadsEnabled, cfgParams, status, unloaded>>
BY DEF Updating, cluster, configuration, readiness, batching, reports

\* The course of an update.
LEMMA UpdateCourse ==
  ASSUME Shape, Course, Updating, pc \in {"update", "apply", "isolate"},
         pc' \in {"apply", "isolate", "finish"},
         Fields(manager'), DOMAIN update' = DOMAIN NoUpdate, DOMAIN recorded' = ResourceFiles,
         manager'.batchMode \/ pc' = "isolate" => isRollbackManager,
         pc' = "isolate" => ~manager'.batchMode /\ update'.todo = {},
         \/ pc' = "apply" /\ (~isRollbackManager \/ manager'.batchMode)
         \/ pc' = "isolate"
         => update'.consecutiveFailures = 0 /\ update'.resourceErrors = {},
         pc' = "apply" => /\ update'.todo \subseteq Tasks
                          /\ update'.todo # {} => ~sharedInputFailure'
  PROVE  Shape' /\ Course' /\ Answered'
<1>1. UNCHANGED <<isRollbackManager, objects, queue, resources, globalConfiguration,
                  startupComplete, configMap, isNginxReady, batchSyncEnabled,
                  updateAllConfigsOnBatch, isReloadsEnabled, cfgParams, status, unloaded>>
  BY UpdatingLeaves
<1>2. Tasks' = Tasks
  BY <1>1 DEF Tasks, Existing
<1>3. Shape'
  BY <1>1 DEF Shape
<1>4. Course'
  BY <1>1, <1>2 DEF Course
<1>5. Answered'
  BY DEF Answered
<1> QED BY <1>3, <1>4, <1>5

\* A template that does not parse ends the update at once.
LEMMA ParseTemplatesApplied ==
  ASSUME AppliedInv, ParseTemplates
  PROVE  AppliedInv'
<1>1. /\ pc = "update" /\ cfgParams \in Unparsable /\ pc' = "finish" /\ Updating
      /\ update' = [update EXCEPT !.updateErr = TRUE] /\ UNCHANGED <<recorded, manager>>
  BY DEF ParseTemplates
<1>2. update'.updateErr = TRUE /\ DOMAIN update' = DOMAIN NoUpdate
  BY <1>1, SMTT(20) DEF AppliedInv, Course, NoUpdate
<1>3. Fields(manager') /\ DOMAIN recorded' = ResourceFiles
  BY <1>1 DEF AppliedInv, Shape, Fields
<1>4. Shape' /\ Course' /\ Answered'
  BY <1>1, <1>2, <1>3, UpdateCourse DEF AppliedInv, Course
<1>5. Handled' /\ PlainLoaded'
  BY <1>1, <1>2, UpdatingLeaves DEF Handled, PlainLoaded
<1> QED BY <1>4, <1>5 DEF AppliedInv

\* nginx.conf may be refused, the manager stays in its phase.
LEMMA CreateMainSpares ==
  ASSUME NEW m, Fields(m), NEW c
  PROVE  SamePhase(m, CreateMain(m, c).manager)
<1>1. SamePhase(m, WithFiles(m, written(m.files, MainConf, c)))
  BY WriteSpares DEF Leaves
<1>2. SamePhase(m, createConfigWithRollback(m, MainConf, c).manager)
  BY RollbackSpares DEF Leaves
<1>3. CreateMain(m, c).manager \in {WithFiles(m, written(m.files, MainConf, c)),
                                    createConfigWithRollback(m, MainConf, c).manager}
  BY DEF CreateMain, CreateMainConfig, Outcome
<1> QED BY <1>1, <1>2, <1>3

\* The update begins, with all resources to do.
LEMMA WriteMainConfigApplied ==
  ASSUME AppliedInv, WriteMainConfig
  PROVE  AppliedInv'
<1>1. PICK main \in {CreateMain(manager, Rendered(MainSpec, cfgParams, 0))} :
      \E default \in {syncDefaultServerConfig(main.manager, recorded, cfgParams)} :
        /\ manager' = default.manager
        /\ update' = [update EXCEPT
             !.updateErr = ~default.ok, !.todo = Tasks,
             !.enableEarlyExit = isRollbackManager /\ ~manager.batchMode]
        /\ pc' = IF default.ok THEN "apply" ELSE "finish"
  BY DEF WriteMainConfig
<1>2. PICK default \in {syncDefaultServerConfig(main.manager, recorded, cfgParams)} :
        /\ manager' = default.manager
        /\ update' = [update EXCEPT
             !.updateErr = ~default.ok, !.todo = Tasks,
             !.enableEarlyExit = isRollbackManager /\ ~manager.batchMode]
        /\ pc' = IF default.ok THEN "apply" ELSE "finish"
  BY <1>1
<1>3. pc = "update" /\ UNCHANGED recorded /\ Updating
  BY DEF WriteMainConfig
<1>4. update = NoUpdate /\ Fields(manager) /\ DOMAIN recorded' = ResourceFiles
  BY <1>3 DEF AppliedInv, Course, Shape
<1>5. /\ DOMAIN update' = DOMAIN NoUpdate /\ update'.todo = Tasks /\ update'.updateErr = ~default.ok
      /\ update'.consecutiveFailures = 0 /\ update'.resourceErrors = {}
  BY <1>2, <1>4, SMTT(20) DEF NoUpdate
<1>6. ~sharedInputFailure'
  BY <1>5, SMTT(20) DEF sharedInputFailure, sharedInputFailureThreshold
<1>7. SamePhase(manager, main.manager)
  BY <1>1, <1>4, CreateMainSpares
<1>8. Fields(main.manager)
  BY <1>7 DEF SamePhase
<1>9. /\ SamePhase(main.manager, default.manager)
      /\ ~isRollbackManager \/ main.manager.batchMode => default.ok
  BY <1>2, <1>8, SyncDefaultSpares
<1>10. Fields(manager') /\ manager'.batchMode = manager.batchMode /\ (~isRollbackManager => default.ok)
  BY <1>2, <1>7, <1>9 DEF SamePhase
<1>11. Shape' /\ Course' /\ Answered'
  BY <1>2, <1>3, <1>4, <1>5, <1>6, <1>10, UpdateCourse DEF AppliedInv, Course
<1>12. Tasks' = Tasks /\ UNCHANGED isRollbackManager
  BY <1>3, UpdatingLeaves DEF Tasks, Existing
<1>13. Handled'
  BY <1>2, <1>5, <1>12 DEF Handled
<1>14. PlainLoaded'
  BY <1>2, <1>10, <1>12 DEF PlainLoaded
<1> QED BY <1>11, <1>13, <1>14 DEF AppliedInv

\* One resource of the update is written.
LEMMA ApplyTaskApplied ==
  ASSUME OneEmptyHost, AppliedInv, ApplyTask
  PROVE  AppliedInv'
<1>1. PICK q \in {First(update.todo)} :
      \E w \in {addOrUpdate(manager, recorded, cfgParams, globalConfiguration, q, resources[q])} :
        LET failures == IF w.ok THEN 0
                        ELSE IF update.enableEarlyExit THEN update.consecutiveFailures + 1
                        ELSE update.consecutiveFailures
        IN /\ manager' = w.manager /\ recorded' = w.recorded
           /\ update' = [update EXCEPT
                !.resourceErrors = IF w.ok THEN @ ELSE @ \cup {q},
                !.consecutiveFailures = failures,
                !.todo = IF failures >= sharedInputFailureThreshold THEN {} ELSE @ \ {q}]
  BY DEF ApplyTask
<1>2. PICK w \in {addOrUpdate(manager, recorded, cfgParams, globalConfiguration, q, resources[q])} :
        LET failures == IF w.ok THEN 0
                        ELSE IF update.enableEarlyExit THEN update.consecutiveFailures + 1
                        ELSE update.consecutiveFailures
        IN /\ manager' = w.manager /\ recorded' = w.recorded
           /\ update' = [update EXCEPT
                !.resourceErrors = IF w.ok THEN @ ELSE @ \cup {q},
                !.consecutiveFailures = failures,
                !.todo = IF failures >= sharedInputFailureThreshold THEN {} ELSE @ \ {q}]
  BY <1>1
<1>3. pc = "apply" /\ update.todo # {} /\ pc' = "apply" /\ Updating
  BY DEF ApplyTask
<1>4. update.todo \subseteq Tasks /\ ~sharedInputFailure /\ Shape /\ DOMAIN update = DOMAIN NoUpdate
  BY <1>3 DEF AppliedInv, Course, Shape
<1>5. q \in update.todo /\ q \in Tasks
  <2>1. update.todo \subseteq ResourceFiles
    BY <1>4 DEF Tasks
  <2> QED BY <1>1, <1>3, <1>4, <2>1, FirstIn
<1>6. /\ DOMAIN update' = DOMAIN NoUpdate
      /\ update'.resourceErrors = IF w.ok THEN update.resourceErrors ELSE update.resourceErrors \cup {q}
      /\ w.ok => update'.consecutiveFailures = 0
      /\ update'.todo = IF update'.consecutiveFailures >= sharedInputFailureThreshold THEN {}
                        ELSE update.todo \ {q}
  BY <1>2, <1>4, SMTT(20) DEF NoUpdate
<1>7. sharedInputFailure' <=> update'.consecutiveFailures >= sharedInputFailureThreshold
  BY DEF sharedInputFailure, sharedInputFailureThreshold
<1>8. update'.todo = IF sharedInputFailure' THEN {} ELSE update.todo \ {q}
  BY <1>6, <1>7
<1>9. UNCHANGED <<isRollbackManager, resources, cfgParams, globalConfiguration>>
  BY <1>3, UpdatingLeaves
<1>10. /\ \A r \in Tasks : /\ r # q /\ Written(r)
                           => Written(r)' /\ (Runs(manager, File(r)) => Runs(manager, File(r))')
       /\ w.ok => Written(q)'
       /\ DOMAIN recorded' = ResourceFiles
       /\ SamePhase(manager, w.manager)
       /\ ~isRollbackManager \/ manager.batchMode => w.ok
  <2>1. \A x : Spares(w.manager, manager', x)
    BY <1>2 DEF Spares
  <2>2. w = addOrUpdate(manager, recorded, cfgParams, globalConfiguration, q, resources[q])
    BY <1>2
  <2>3. manager'.files = w.manager.files /\ recorded' = w.recorded
    BY <1>2
  <2> QED BY <1>4, <1>5, <1>9, <2>1, <2>2, <2>3, TaskWritten
<1>11. Fields(manager') /\ manager'.batchMode = manager.batchMode
  BY <1>2, <1>10 DEF SamePhase
<1>12. ~isRollbackManager \/ manager'.batchMode
         => update'.consecutiveFailures = 0 /\ update'.resourceErrors = {}
  BY <1>3, <1>6, <1>10, <1>11 DEF AppliedInv, Course
<1>13. update'.todo \subseteq Tasks /\ (update'.todo # {} => ~sharedInputFailure')
  BY <1>4, <1>8
<1>14. Shape' /\ Course' /\ Answered'
  BY <1>3, <1>6, <1>10, <1>11, <1>12, <1>13, UpdateCourse DEF AppliedInv, Course
<1>15. Tasks' = Tasks
  BY <1>9 DEF Tasks, Existing
<1>16. ASSUME ~sharedInputFailure', NEW r \in Tasks, r \notin update'.todo,
              r \notin update'.resourceErrors
       PROVE  Written(r)'
  <2>1. CASE r = q
    BY <1>6, <1>10, <1>16, <2>1
  <2>2. CASE r # q
    <3>1. r \notin update.todo /\ r \notin update.resourceErrors
      BY <1>6, <1>8, <1>16, <2>2
    <3>2. Written(r)
      BY <1>3, <1>4, <3>1 DEF AppliedInv, Handled
    <3> QED BY <1>10, <2>2, <3>2
  <2> QED BY <2>1, <2>2
<1>17. Handled' /\ PlainLoaded'
  BY <1>3, <1>15, <1>16 DEF Handled, PlainLoaded
<1> QED BY <1>14, <1>17 DEF AppliedInv

\* The batch is written, and every resource has its file.
LEMMA StartIsolationApplied ==
  ASSUME AppliedInv, StartIsolation
  PROVE  AppliedInv'
<1>1. /\ pc = "apply" /\ update.todo = {} /\ manager.batchMode /\ pc' = "isolate" /\ Updating
      /\ manager' = CompleteBatch(manager) /\ UNCHANGED <<recorded, update>>
  BY DEF StartIsolation
<1>2. /\ update.consecutiveFailures = 0 /\ update.resourceErrors = {} /\ isRollbackManager
      /\ Fields(manager) /\ DOMAIN recorded' = ResourceFiles /\ DOMAIN update' = DOMAIN NoUpdate
  BY <1>1 DEF AppliedInv, Course, Shape
<1>3. Fields(manager') /\ manager'.batchMode = FALSE /\ manager'.files = manager.files
  BY <1>1, <1>2, SMTT(20) DEF CompleteBatch, Fields
<1>4. Shape' /\ Course' /\ Answered'
  BY <1>1, <1>2, <1>3, UpdateCourse DEF AppliedInv
<1>5. ~sharedInputFailure
  BY <1>2, SMTT(20) DEF sharedInputFailure, sharedInputFailureThreshold
<1>6. \A r \in Tasks : Written(r)
  BY <1>1, <1>2, <1>5 DEF AppliedInv, Handled
<1>7. UNCHANGED <<resources, cfgParams, globalConfiguration>>
  BY <1>1, UpdatingLeaves
<1>8. Tasks' = Tasks /\ \A r : File(r)' = File(r) /\ (Written(r) => Written(r)')
  BY <1>1, <1>3, <1>7 DEF Tasks, Existing, File, Written
<1>9. Handled' /\ PlainLoaded'
  BY <1>1, <1>6, <1>8 DEF Handled, PlainLoaded
<1> QED BY <1>4, <1>9 DEF AppliedInv

\* One iteration of the isolation: a file that is not excluded stays, unless isolation gives up.
LEMMA IsolationSpares ==
  ASSUME NEW m, Fields(m), NEW o \in isolateBadConfigs(m)
  PROVE  LET n == o.manager
         IN /\ SamePhase(m, n)
            /\ o.ok => /\ m.batchExcluded \subseteq n.batchExcluded
                       /\ \A x : x \notin n.batchExcluded /\ x \in DOMAIN m.files
                                   => x \in DOMAIN n.files /\ n.files[x] = m.files[x]
            /\ ~o.ok => ~n.isolating
<1> DEFINE excluded == parsePathFromError(m) \cup (IF m.batchFiles = {} THEN {} ELSE searched(m))
           done == [m EXCEPT !.batchFiles = {}, !.isolating = FALSE]
           n == o.manager
<1>1. \/ o = Outcome(done, TRUE)
      \/ \E p \in excluded : o = Outcome(excludeConfig(m, p), TRUE)
      \/ \E stuck : o = Outcome(removeAllBatchFiles(m, stuck), FALSE)
  <2> HIDE DEF excluded, done
  <2> QED BY DEF isolateBadConfigs, excluded, done
<1>2. CASE o = Outcome(done, TRUE)
  <2>1. n = done /\ o.ok = TRUE
    BY <1>2 DEF Outcome
  <2>2. done.files = m.files /\ done.batchExcluded = m.batchExcluded /\ SamePhase(m, done)
    BY SMTT(20) DEF Fields, SamePhase
  <2> HIDE DEF done
  <2> QED BY <2>1, <2>2
<1>3. CASE \E stuck : o = Outcome(removeAllBatchFiles(m, stuck), FALSE)
  <2>0. PICK stuck : o = Outcome(removeAllBatchFiles(m, stuck), FALSE)
    BY <1>3
  <2>1. n = removeAllBatchFiles(m, stuck) /\ o.ok = FALSE
    BY <2>0 DEF Outcome
  <2>2. SamePhase(m, removeAllBatchFiles(m, stuck)) /\ removeAllBatchFiles(m, stuck).isolating = FALSE
    BY SMTT(20) DEF removeAllBatchFiles, Fields, SamePhase
  <2> QED BY <2>1, <2>2
<1>4. ASSUME NEW p \in excluded, o = Outcome(excludeConfig(m, p), TRUE)
      PROVE  /\ SamePhase(m, n) /\ o.ok /\ m.batchExcluded \subseteq n.batchExcluded
             /\ \A x : x \notin n.batchExcluded /\ x \in DOMAIN m.files
                         => x \in DOMAIN n.files /\ n.files[x] = m.files[x]
  <2>1. n = excludeConfig(m, p) /\ o.ok = TRUE
    BY <1>4 DEF Outcome
  <2> DEFINE new == written(m.files, p, m.preBatchDefaultServer)
             old == removed(m.files, {p})
  <2>2. \A x : x # p /\ x \in DOMAIN m.files => /\ x \in DOMAIN new /\ new[x] = m.files[x]
                                                /\ x \in DOMAIN old /\ old[x] = m.files[x]
    BY SMTT(20) DEF written, removed
  <2>3. SamePhase(m, n) /\ n.batchExcluded = m.batchExcluded \cup {p}
    <3> HIDE DEF n
    <3> QED BY <2>1, SMTT(20) DEF excludeConfig, Fields, SamePhase
  <2>4. n.files = new \/ n.files = old
    <3> HIDE DEF n, new, old
    <3> QED BY <2>1, SMTT(20) DEF excludeConfig, Fields, new, old
  <2> HIDE DEF n, new, old
  <2> QED BY <2>1, <2>2, <2>3, <2>4
<1> QED BY <1>1, <1>2, <1>3, <1>4

\* After the isolation the resources without an error are the ones whose file is not excluded;
\* when it gives up, all of them have one, or are written again.
LEMMA IsolateApplied ==
  ASSUME AppliedInv, Isolate
  PROVE  AppliedInv'
<1>1. PICK o \in isolateBadConfigs(manager) :
        LET m == o.manager
            excluded == UNION {owners(p) : p \in m.batchExcluded}
        IN /\ manager' = m
           /\ IF m.isolating
              THEN UNCHANGED <<pc, update, effectiveBatchExclusionCount>>
              ELSE IF o.ok
              THEN /\ update' = [update EXCEPT !.resourceErrors = excluded]
                   /\ pc' = "apply"
              ELSE IF ~Accepts(m.files)
              THEN /\ update' = [update EXCEPT !.resourceErrors = Tasks, !.updateErr = TRUE]
                   /\ pc' = "finish"
              ELSE /\ update' = [update EXCEPT !.resourceErrors = {}, !.todo = Tasks]
                   /\ pc' = "apply"
  BY DEF Isolate
<1> DEFINE m == o.manager
           excluded == UNION {owners(p) : p \in m.batchExcluded}
<1>2. pc = "isolate" /\ UNCHANGED recorded /\ Updating
  BY DEF Isolate
<1>3. /\ isRollbackManager /\ ~manager.batchMode /\ update.todo = {}
      /\ update.consecutiveFailures = 0 /\ update.resourceErrors = {}
      /\ Fields(manager) /\ DOMAIN recorded' = ResourceFiles /\ DOMAIN update = DOMAIN NoUpdate
  BY <1>2 DEF AppliedInv, Course, Shape
<1>4. /\ SamePhase(manager, m)
      /\ o.ok => /\ manager.batchExcluded \subseteq m.batchExcluded
                 /\ \A x : x \notin m.batchExcluded /\ x \in DOMAIN manager.files
                             => x \in DOMAIN m.files /\ m.files[x] = manager.files[x]
      /\ ~o.ok => ~m.isolating
  BY <1>3, IsolationSpares
<1>5. UNCHANGED <<isRollbackManager, resources, cfgParams, globalConfiguration>>
  BY <1>2, UpdatingLeaves
<1>6. Tasks' = Tasks /\ \A r : File(r)' = File(r)
  BY <1>5 DEF Tasks, Existing, File
<1>7. manager' = m
  BY <1>1
<1> HIDE DEF m
<1>8. Fields(manager') /\ ~manager'.batchMode
  BY <1>3, <1>4, <1>7 DEF SamePhase
<1>9. ASSUME o.ok, NEW r \in Tasks, File(r) \notin m.batchExcluded PROVE Written(r)'
  <2>1. Written(r)
    BY <1>2, <1>4, <1>9 DEF AppliedInv, Handled
  <2> QED BY <1>2, <1>4, <1>5, <1>6, <1>7, <1>9, <2>1 DEF Written
<1>10. ~(0 >= sharedInputFailureThreshold)
  BY SMTT(20) DEF sharedInputFailureThreshold
<1>11. PlainLoaded'
  BY <1>3, <1>5 DEF PlainLoaded
<1>12. CASE m.isolating
  <2>1. UNCHANGED <<pc, update>> /\ o.ok
    BY <1>1, <1>4, <1>12 DEF m
  <2>2. Shape' /\ Course' /\ Answered'
    BY <1>2, <1>3, <1>8, <2>1, UpdateCourse DEF AppliedInv
  <2>3. Handled'
    BY <1>2, <1>6, <1>7, <1>9, <2>1 DEF Handled
  <2> QED BY <1>11, <2>2, <2>3 DEF AppliedInv
<1>13. CASE ~m.isolating /\ o.ok
  <2>1. update' = [update EXCEPT !.resourceErrors = excluded] /\ pc' = "apply"
    BY <1>1, <1>13 DEF m
  <2>2. \A r \in Tasks : r \notin excluded => File(r) \notin m.batchExcluded
    BY SMTT(20) DEF owners, File
  <2> HIDE DEF excluded
  <2>3. /\ DOMAIN update' = DOMAIN NoUpdate /\ update'.todo = {} /\ update'.resourceErrors = excluded
    BY <1>3, <2>1, SMTT(20) DEF NoUpdate
  <2>4. Shape' /\ Course' /\ Answered'
    BY <1>2, <1>3, <1>8, <2>1, <2>3, UpdateCourse DEF AppliedInv
  <2>5. Handled'
    BY <1>6, <1>9, <1>13, <2>1, <2>2, <2>3 DEF Handled
  <2> QED BY <1>11, <2>4, <2>5 DEF AppliedInv
<1>14. CASE ~m.isolating /\ ~o.ok /\ ~Accepts(m.files)
  <2>1. update' = [update EXCEPT !.resourceErrors = Tasks, !.updateErr = TRUE] /\ pc' = "finish"
    BY <1>1, <1>14 DEF m
  <2>2. DOMAIN update' = DOMAIN NoUpdate /\ update'.updateErr = TRUE
    BY <1>3, <2>1, SMTT(20) DEF NoUpdate
  <2>3. Shape' /\ Course' /\ Answered'
    BY <1>2, <1>3, <1>8, <2>1, <2>2, UpdateCourse DEF AppliedInv
  <2>4. Handled'
    BY <2>1, <2>2 DEF Handled
  <2> QED BY <1>11, <2>3, <2>4 DEF AppliedInv
<1>15. CASE ~m.isolating /\ ~o.ok /\ Accepts(m.files)
  <2>1. update' = [update EXCEPT !.resourceErrors = {}, !.todo = Tasks] /\ pc' = "apply"
    BY <1>1, <1>15 DEF m
  <2>2. DOMAIN update' = DOMAIN NoUpdate /\ update'.todo = Tasks /\ update'.consecutiveFailures = 0
    BY <1>3, <2>1, SMTT(20) DEF NoUpdate
  <2>3. ~sharedInputFailure'
    BY <1>10, <2>2 DEF sharedInputFailure, sharedInputFailureThreshold
  <2>4. Shape' /\ Course' /\ Answered'
    BY <1>2, <1>3, <1>8, <2>1, <2>2, <2>3, UpdateCourse DEF AppliedInv
  <2>5. Handled'
    BY <1>6, <2>1, <2>2 DEF Handled
  <2> QED BY <1>11, <2>4, <2>5 DEF AppliedInv
<1> QED BY <1>12, <1>13, <1>14, <1>15

\* The reload at the end of the update makes NGINX run what was written, or is an error of all.
LEMMA ReloadAllApplied ==
  ASSUME AppliedInv, ReloadAll
  PROVE  AppliedInv'
<1>1. /\ pc = "apply" /\ update.todo = {} /\ ~manager.batchMode /\ pc' = "finish" /\ Updating
      /\ UNCHANGED recorded
      /\ IF sharedInputFailure
         THEN UNCHANGED <<manager, update>>
         ELSE /\ manager' = Reload(manager)
              /\ update' = [update EXCEPT !.updateErr = ~Accepts(manager.files)]
  BY DEF ReloadAll
<1>2. Fields(manager) /\ DOMAIN recorded' = ResourceFiles /\ DOMAIN update = DOMAIN NoUpdate
  BY <1>1 DEF AppliedInv, Shape
<1>3. UNCHANGED <<isRollbackManager, resources, cfgParams, globalConfiguration>>
  BY <1>1, UpdatingLeaves
<1>4. CASE sharedInputFailure
  <2>1. UNCHANGED <<manager, update>>
    BY <1>1, <1>4
  <2>2. Shape' /\ Course' /\ Answered'
    BY <1>1, <1>2, <2>1, UpdateCourse DEF AppliedInv, Fields
  <2>3. sharedInputFailure'
    BY <1>4, <2>1 DEF sharedInputFailure, sharedInputFailureThreshold
  <2>4. isRollbackManager
    <3>1. ~(0 >= sharedInputFailureThreshold)
      BY SMTT(20) DEF sharedInputFailureThreshold
    <3> QED BY <1>1, <1>4, <3>1 DEF AppliedInv, Course, sharedInputFailure
  <2>5. Handled' /\ PlainLoaded'
    BY <1>1, <1>3, <2>3, <2>4 DEF Handled, PlainLoaded
  <2> QED BY <2>2, <2>5 DEF AppliedInv
<1>5. CASE ~sharedInputFailure
  <2>1. /\ manager' = Reload(manager)
        /\ update' = [update EXCEPT !.updateErr = ~Accepts(manager.files)]
    BY <1>1, <1>5
  <2>2. /\ DOMAIN update' = DOMAIN NoUpdate /\ update'.updateErr = ~Accepts(manager.files)
        /\ update'.resourceErrors = update.resourceErrors
    BY <1>2, <2>1, SMTT(20) DEF NoUpdate
  <2>3. /\ SamePhase(manager, manager') /\ manager'.files = manager.files
        /\ Accepts(manager.files) => manager'.loaded = manager.files
    BY <1>2, <2>1, ReloadSpares
  <2>4. Fields(manager') /\ ~manager'.batchMode
    BY <1>1, <2>3 DEF SamePhase
  <2>5. Shape' /\ Course' /\ Answered'
    BY <1>1, <1>2, <2>2, <2>4, UpdateCourse DEF AppliedInv
  <2>6. Tasks' = Tasks /\ \A r : File(r)' = File(r) /\ (Written(r) => Written(r)')
    BY <1>1, <1>3, <2>3 DEF Tasks, Existing, File, Written
  <2>7. \A r \in Tasks \ update.resourceErrors : Written(r)
    BY <1>1, <1>5 DEF AppliedInv, Handled
  <2>8. Handled'
    BY <1>1, <2>2, <2>3, <2>6, <2>7 DEF Handled
  <2>9. PlainLoaded'
    BY <2>3 DEF PlainLoaded
  <2> QED BY <2>5, <2>8, <2>9 DEF AppliedInv
<1> QED BY <1>4, <1>5

\* The resources are told.
LEMMA FinishUpdateApplied ==
  ASSUME AppliedInv, FinishUpdate
  PROVE  AppliedInv'
<1>1. /\ UNCHANGED <<isRollbackManager, objects, queue, resources, globalConfiguration,
                     startupComplete, configMap, batchSyncEnabled, updateAllConfigsOnBatch,
                     isReloadsEnabled, cfgParams, recorded, manager>>
      /\ pc = "finish" /\ pc' = "idle" /\ update' = NoUpdate
      /\ status' = [r \in ResourceFiles |->
                      IF r \in Tasks THEN Told(~updateError(r)) ELSE status[r]]
      /\ unloaded' = IF sharedInputFailure THEN Tasks \ update.resourceErrors ELSE {}
  BY DEF FinishUpdate, cluster, configuration, batching
<1> USE <1>1
<1>2. /\ startupComplete /\ isReloadsEnabled /\ ~batchSyncEnabled /\ ~updateAllConfigsOnBatch
      /\ cfgParams = configMap
  BY DEF AppliedInv, Course
<1>3. Tasks' = Tasks /\ \A r : File(r)' = File(r) /\ (Written(r) => Written(r)')
  BY DEF Tasks, Existing, File, Written
<1>4. Shape'
  BY DEF AppliedInv, Shape, Fields
<1>5. Course'
  BY <1>2 DEF AppliedInv, Course
<1>6. Handled' /\ PlainLoaded'
  BY <1>2 DEF AppliedInv, Handled, PlainLoaded
<1>7. ASSUME NEW r \in Tasks, r \notin unloaded', status'[r] = "applied"
      PROVE  Written(r)' /\ Runs(manager, File(r))'
  <2>1. ~update.updateErr /\ r \notin update.resourceErrors
    BY <1>7 DEF Tasks, Told, updateError
  <2>2. ~sharedInputFailure
    BY <1>7, <2>1
  <2>3. manager.loaded = manager.files /\ Written(r)
    BY <2>1, <2>2 DEF AppliedInv, Handled
  <2> QED BY <1>3, <2>3 DEF Runs, Written
<1>8. Answered'
  BY <1>3, <1>7 DEF Answered
<1> QED BY <1>4, <1>5, <1>6, <1>8 DEF AppliedInv

\* AppliedInv is inductive.
LEMMA AppliedStep ==
  ASSUME OneEmptyHost, AppliedInv, [Next]_safetyVars
  PROVE  AppliedInv'
<1>1. CASE UNCHANGED safetyVars
  <2>1. UNCHANGED <<isRollbackManager, objects, queue, resources, globalConfiguration,
                    startupComplete, configMap, isNginxReady, batchSyncEnabled,
                    updateAllConfigsOnBatch, isReloadsEnabled, cfgParams, recorded, pc, update,
                    status, unloaded, manager>>
    BY <1>1 DEF safetyVars, cluster, configuration, readiness, batching, reports
  <2>2. Tasks' = Tasks /\ (\A r : File(r)' = File(r) /\ (Written(r) => Written(r)'))
        /\ (sharedInputFailure' <=> sharedInputFailure)
    BY <2>1 DEF Tasks, Existing, File, Written, sharedInputFailure
  <2>3. Shape' /\ Course'
    BY <2>1, <2>2 DEF AppliedInv, Shape, Fields, Course
  <2>4. Answered' /\ Handled' /\ PlainLoaded'
    BY <2>1, <2>2 DEF AppliedInv, Answered, Handled, PlainLoaded, Runs
  <2> QED BY <2>3, <2>4 DEF AppliedInv
<1>2. CASE Users
  BY <1>2, UsersApplied
<1>3. CASE Worker
  BY <1>3, SyncResourceApplied, SyncConfigMapApplied, SyncGlobalConfigurationApplied,
     UpdateTransportServersApplied, CompleteStartupApplied, EndBatchSyncApplied, EndSyncApplied,
     ParseTemplatesApplied, WriteMainConfigApplied, ApplyTaskApplied, StartIsolationApplied,
     IsolateApplied, ReloadAllApplied, FinishUpdateApplied
     DEF Worker
<1> QED BY <1>1, <1>2, <1>3 DEF Next

\* "the resource has been validated and accepted and is working as expected", for any number of
\* resources, any ConfigMaps, templates and listeners, any verdicts of NGINX and removals that
\* fail, under both managers: a resource that is told so, but for the two reports that `unloaded`
\* notes, is run by NGINX with what was synced last.
THEOREM AppliedResourcesAreLoaded ==
  ASSUME OneEmptyHost
  PROVE  Spec => []AppliedIsLoaded
<1>1. AppliedInv /\ [Next]_safetyVars => AppliedInv'
  BY AppliedStep
<1>2. AppliedInv => AppliedIsLoaded
  <2> SUFFICES ASSUME AppliedInv, Quiet, isNginxReady
               PROVE  /\ \A r \in Tasks \ unloaded :
                           status[r] = "applied" =>
                             /\ File(r) \in DOMAIN manager.loaded
                             /\ manager.loaded[File(r)] = Rendered(resources[r], configMap,
                                                             Port(globalConfiguration, r))
                      /\ ~isRollbackManager /\ configMap \notin Unparsable
                           /\ Accepts(manager.files) => manager.loaded = manager.files
    BY DEF AppliedIsLoaded, File
  <2>1. pc = "idle" /\ ~batchSyncEnabled /\ cfgParams = configMap
    BY DEF AppliedInv, Course, Quiet
  <2>2. ASSUME NEW r \in Tasks \ unloaded, status[r] = "applied"
        PROVE  /\ File(r) \in DOMAIN manager.loaded
               /\ manager.loaded[File(r)] = Rendered(resources[r], configMap,
                                                     Port(globalConfiguration, r))
    <3>1. Written(r) /\ Runs(manager, File(r))
      BY <2>1, <2>2 DEF AppliedInv, Answered
    <3> QED BY <2>1, <3>1 DEF Written, Runs
  <2>3. ~isRollbackManager /\ configMap \notin Unparsable /\ Accepts(manager.files)
          => manager.loaded = manager.files
    BY <2>1 DEF AppliedInv, PlainLoaded
  <2> QED BY <2>2, <2>3
<1> QED BY <1>1, <1>2, AppliedInit, PTL DEF Spec

=============================================================================
