--------------------------- MODULE RollbackManager ---------------------------
(***************************************************************************)
(* ConfigRollbackManager (internal/nginx/rollback_manager.go): the config    *)
(* files on disk, the ones NGINX runs with, and the writes that `nginx -t`   *)
(* guards when -enable-config-safety is set.  After startup every write is   *)
(* tested and rolled back; at startup all files are written first, tested    *)
(* once, and the bad ones isolated.                                          *)
(*                                                                           *)
(* A tree of files is a function from paths to contents.  NGINX is external: *)
(* Accepts(tree) is the verdict of `nginx -t`, and Errors(tree) the paths    *)
(* its message may name when it refuses the tree (NoPath: none).  The        *)
(* operations are functions of the manager's state, because the Configurator *)
(* makes several calls in one step; see ConfigSafety.                        *)
(***************************************************************************)
EXTENDS Naturals, FiniteSets, Sequences, Functions

CONSTANTS
  MainConf,       \* nginx.conf
  DefaultServer,  \* conf.d/_default-server.conf
  ResourceFiles,  \* the files of the Ingresses, VirtualServers and TransportServers
  Contents,       \* what a file can hold
  NoPath,         \* no path in the message, or no snapshot
  Accepts(_),     \* `nginx -t` passes
  Errors(_),      \* the paths the message of a failing `nginx -t` may name
  DiskFaults,     \* whether removing a file, or putting a backup back, may fail
  MaxStuck        \* bound: the files that stay when the whole batch is removed

Paths == {MainConf, DefaultServer} \cup ResourceFiles
protectedFromDeletion == {MainConf, DefaultServer}
Trees == UNION {[S -> Contents] : S \in SUBSET Paths}

\* NIC's config files are self-contained: taking one away does not break the rest.
ASSUME SelfContained ==
  \A tree \in Trees : \A S \in SUBSET ResourceFiles :
    Accepts(tree) => Accepts([p \in DOMAIN tree \ S |-> tree[p]])

ASSUME PathsAssumption ==
  /\ MainConf # DefaultServer
  /\ {MainConf, DefaultServer} \cap ResourceFiles = {}
  /\ NoPath \notin Paths /\ NoPath \notin Contents
  /\ MaxStuck \in Nat
  /\ \A tree \in Trees : Accepts(tree) \in BOOLEAN

VARIABLE manager

-----------------------------------------------------------------------------
(* Files.                                                                    *)

written(tree, p, c) == [q \in DOMAIN tree \cup {p} |-> IF q = p THEN c ELSE tree[q]]
removed(tree, S) == [q \in DOMAIN tree \ S |-> tree[q]]

WithFiles(m, tree) == [m EXCEPT !.files = tree]

\* The outcome of an operation: the new state of the manager, and no error.
Outcome(m, ok) == [manager |-> m, ok |-> ok]

\* `nginx -s reload` makes NGINX read the files; it keeps the old configuration when
\* it cannot.  configVersion only matters as zero or not.
Reload(m) ==
  [m EXCEPT !.configVersion = 1,
            !.loaded = IF Accepts(m.files) THEN m.files ELSE m.loaded]

-----------------------------------------------------------------------------
(* Writes.                                                                   *)

\* The write without a backup: what fails is deleted.
createConfigWithRollback_bug(m, p, c) ==
  LET new == written(m.files, p, c)
  IN IF Accepts(new)
     THEN Outcome(WithFiles(m, new), TRUE)
     ELSE Outcome(WithFiles(m, IF p \in protectedFromDeletion
                               THEN new
                               ELSE removed(m.files, {p})), FALSE)

\* A file is backed up only if the tree it is part of works.  Restoring the backup
\* restores that tree, which the code tests again and loads.
createConfigWithRollback(m, p, c) ==
  LET hasBackup == p \in DOMAIN m.files /\ Accepts(m.files)
      new == written(m.files, p, c)
  IN IF p \in DOMAIN m.files /\ m.files[p] = c
     THEN Outcome(m, Accepts(m.files))
     ELSE IF Accepts(new)
     THEN Outcome(WithFiles(m, new), TRUE)
     ELSE IF hasBackup
     THEN Outcome(Reload(m), FALSE)
     ELSE IF p \in protectedFromDeletion
     THEN Outcome(WithFiles(m, new), FALSE)
     ELSE Outcome(WithFiles(m, removed(m.files, {p})), FALSE)

\* The rollback that fails: the backup cannot be written, or NGINX refuses the files with the
\* backup as well (its verdict may change between two tests, with a host name that does not
\* resolve any more).  Nothing is loaded.  A protected file is left with what was written last:
\* the new content, the backup, or the part of the backup that was written.
failedRollbacks(m, p, c) ==
  IF p \in DOMAIN m.files /\ m.files[p] # c /\ Accepts(m.files) /\ ~Accepts(written(m.files, p, c))
  THEN {[m EXCEPT !.files = IF p \in protectedFromDeletion
                            THEN written(m.files, p, left)
                            ELSE removed(m.files, {p}),
                  !.diskFault = TRUE] : left \in Contents}
  ELSE {}

batchWriteConfig(m, p, c) ==
  Outcome([m EXCEPT !.files = written(m.files, p, c), !.batchFiles = m.batchFiles \cup {p}],
          TRUE)

\* CreateConfig and CreateStreamConfig.
CreateConfig(m, p, c) ==
  IF m.batchMode
  THEN batchWriteConfig(m, p, c)
  ELSE createConfigWithRollback(m, p, c)

CreateMainConfig(m, c) ==
  IF m.configVersion = 0
  THEN Outcome(WithFiles(m, written(m.files, MainConf, c)), TRUE)
  ELSE createConfigWithRollback(m, MainConf, c)

DeleteConfig(m, p) == WithFiles(m, removed(m.files, {p}))

-----------------------------------------------------------------------------
(* The startup batch.                                                        *)

\* The manager after main.go has written nginx.conf and _default-server.conf,
\* started NGINX with them, and Run has called EnableBatchMode.
EnableBatchMode(main, default) ==
  LET tree == written(written([p \in {} |-> NoPath], MainConf, main), DefaultServer, default)
  IN [files |-> tree, loaded |-> tree, configVersion |-> 0, batchMode |-> TRUE,
      isolating |-> FALSE, batchFiles |-> {}, batchExcluded |-> {},
      preBatchDefaultServer |-> default, diskFault |-> FALSE]

\* The search that enables the other half again before it goes down.
binarySearchBadConfig_bug(m, candidates) ==
  LET search[lo \in 1..Len(candidates), hi \in 1..Len(candidates)] ==
        LET mid == lo + (hi - lo + 1) \div 2 - 1
            secondHalf == {candidates[i] : i \in (mid + 1)..hi}
        IN IF lo >= hi THEN candidates[hi]
           ELSE IF ~Accepts(removed(m.files, secondHalf)) THEN search[lo, mid]
           ELSE search[mid + 1, hi]
  IN search[1, Len(candidates)]

\* Bisection of the candidates: the files outside the part that is searched stay
\* disabled all the way down.
binarySearchBadConfig(m, candidates) ==
  LET Part(lo, hi) == {candidates[i] : i \in lo..hi}
      all == Part(1, Len(candidates))
      search[lo \in 1..Len(candidates), hi \in 1..Len(candidates)] ==
        LET mid == lo + (hi - lo + 1) \div 2 - 1
        IN IF lo >= hi THEN candidates[hi]
           ELSE IF ~Accepts(removed(m.files, all \ Part(lo, mid))) THEN search[lo, mid]
           ELSE search[mid + 1, hi]
  IN search[1, Len(candidates)]

\* Tier 1: the message names a file of the batch.
parsePathFromError(m) == Errors(m.files) \cap m.batchFiles

\* candidatePaths: the files of the batch, in any order (of a Go map).
candidatePaths == [S \in SUBSET Paths |-> Injection(1..Cardinality(S), S)]

\* Tier 2: it names none, and the files are searched.
searched(m) ==
  IF Errors(m.files) \subseteq m.batchFiles
  THEN {}
  ELSE m.batchFiles \cap
         {binarySearchBadConfig(m, candidates) : candidates \in candidatePaths[m.batchFiles]}

excludeConfig(m, p) ==
  LET restores == p = DefaultServer /\ m.preBatchDefaultServer # NoPath
  IN [m EXCEPT !.files = IF restores
                         THEN written(m.files, p, m.preBatchDefaultServer)
                         ELSE removed(m.files, {p}),
               !.preBatchDefaultServer = IF restores THEN NoPath ELSE m.preBatchDefaultServer,
               !.batchExcluded = m.batchExcluded \cup {p},
               !.batchFiles = m.batchFiles \ {p}]

\* A file that cannot be removed stays, and is not tracked any more.
removeAllBatchFiles(m, stuck) ==
  [m EXCEPT !.files = removed(m.files, m.batchFiles \ stuck), !.batchFiles = {},
            !.isolating = FALSE, !.diskFault = @ \/ stuck # {}]

\* CompleteBatch leaves batch mode and enters isolateBadConfigs, whose first test is
\* a test of the same tree.
CompleteBatch(m) == [m EXCEPT !.batchMode = FALSE, !.isolating = TRUE]

\* The loop that expects to find a culprit, and does not fall back to removing all
\* files.
isolateBadConfigs_bug(m) ==
  LET excluded == parsePathFromError(m) \cup
                  (IF m.batchFiles = {} THEN {} ELSE searched(m))
  IN IF Accepts(m.files)
     THEN {Outcome([m EXCEPT !.batchFiles = {}, !.isolating = FALSE], TRUE)}
     ELSE {Outcome(excludeConfig(m, p), TRUE) : p \in excluded}

\* One iteration of isolateBadConfigs: where CompleteBatch gets to.  An outcome that
\* is still isolating is the next iteration; after a file that could not be excluded all
\* the others are removed too, as far as they can.
isolateBadConfigs(m) ==
  LET excluded == parsePathFromError(m) \cup
                  (IF m.batchFiles = {} THEN {} ELSE searched(m))
      done == [m EXCEPT !.batchFiles = {}, !.isolating = FALSE]
  IN IF Accepts(m.files)
     THEN {Outcome(done, TRUE)}
     ELSE {Outcome(excludeConfig(m, p), TRUE) : p \in excluded}
          \cup (IF m.batchFiles = {} \/ (DiskFaults /\ excluded # {})
                THEN {Outcome(removeAllBatchFiles(m, stuck), FALSE) :
                        stuck \in {S \in SUBSET m.batchFiles : Cardinality(S) <= MaxStuck}}
                ELSE {})

-----------------------------------------------------------------------------
(* The manager with any client: the calls in any order, but for the startup    *)
(* batch, which is completed once.                                            *)

ManagerInit ==
  \E main, default \in Contents :
    /\ manager = EnableBatchMode(main, default)
    /\ Accepts(manager.files)

CallCreateMainConfig ==
  /\ ~manager.isolating
  /\ \E c \in Contents : manager' = CreateMainConfig(manager, c).manager

CallCreateConfig ==
  /\ ~manager.isolating
  /\ \E p \in ResourceFiles \cup {DefaultServer}, c \in Contents :
       manager' = CreateConfig(manager, p, c).manager

\* Either of them, when the rollback fails.  Bound: one failure.
RollbackFails ==
  /\ DiskFaults /\ ~manager.diskFault /\ ~manager.isolating
  /\ \E p \in Paths, c \in Contents :
       /\ IF p = MainConf THEN manager.configVersion # 0 ELSE ~manager.batchMode
       /\ \E m \in failedRollbacks(manager, p, c) : manager' = m

CallDeleteConfig ==
  /\ ~manager.isolating
  /\ \E p \in ResourceFiles : manager' = DeleteConfig(manager, p)

CallReload ==
  /\ ~manager.isolating
  /\ manager' = Reload(manager)

CallCompleteBatch ==
  /\ manager.batchMode
  /\ manager' = CompleteBatch(manager)

IsolateBadConfigs ==
  /\ manager.isolating
  /\ \E o \in isolateBadConfigs(manager) : manager' = o.manager

ManagerNext ==
  \/ CallCreateMainConfig \/ CallCreateConfig \/ RollbackFails \/ CallDeleteConfig \/ CallReload
  \/ CallCompleteBatch \/ IsolateBadConfigs

ManagerSpec == ManagerInit /\ [][ManagerNext]_manager
FairManagerSpec == ManagerSpec /\ WF_manager(IsolateBadConfigs)

-----------------------------------------------------------------------------
(* Properties.                                                               *)

Manager ==
  [files : Trees, loaded : Trees, configVersion : {0, 1},
   batchMode : BOOLEAN, isolating : BOOLEAN,
   batchFiles : SUBSET (ResourceFiles \cup {DefaultServer}),
   batchExcluded : SUBSET (ResourceFiles \cup {DefaultServer}),
   preBatchDefaultServer : Contents \cup {NoPath},
   diskFault : BOOLEAN]

\* The files are known files with known contents, and nginx.conf is never part of
\* the batch.
ManagerTypeOK == manager \in Manager

\* Startup is over, the default server is there, and NGINX accepts the files.
\* (Without it a bad default server has no backup and is never deleted.)
Working(m) ==
  /\ ~m.batchMode /\ ~m.isolating /\ m.configVersion # 0
  /\ DefaultServer \in DOMAIN m.files
  /\ Accepts(m.files)

\* A failed rollback of p costs no more than p: the other files stay, NGINX runs on with what it
\* has loaded, and unless p is one of the protected files the rest of the files works.
CostsOnly(p) ==
  /\ removed(manager'.files, {p}) = removed(manager.files, {p})
  /\ manager'.loaded = manager.loaded
  /\ p \in ResourceFiles => Accepts(manager'.files)

\* "This protects against a single bad resource taking down the entire NGINX
\* instance": once the files work no call makes them fail, whatever it writes, and
\* none but DeleteConfig takes a file away; a write whose rollback fails costs only the file.
WorkingTreeKept ==
  [][Working(manager) =>
       \/ /\ Accepts(manager'.files)
          /\ DOMAIN manager.files \subseteq DOMAIN manager'.files \/ CallDeleteConfig
       \/ /\ manager'.diskFault /\ ~manager.diskFault
          /\ \E p \in Paths : CostsOnly(p)]_manager

\* What isolation may take a file for: there are files of the batch that work, and
\* do not work with this one.
foundation(m) == removed(m.files, m.batchFiles)
Culprit(m, p) ==
  \E S \in SUBSET m.batchFiles :
    /\ Accepts(removed(m.files, S \cup {p}))
    /\ ~Accepts(removed(m.files, S \ {p}))

\* Isolation excludes only files that are at fault, in both tiers, as long as the
\* files that are not part of the batch work by themselves.  "keeping port 80/443 responsive
\* to unmatched hosts": excluding the config of an empty-host Ingress leaves a default server
\* behind.  (When isolation gives up, all files of the batch go.)
OnlyCulpritsExcluded ==
  [][Accepts(foundation(manager)) =>
       /\ \A p \in manager'.batchExcluded \ manager.batchExcluded : Culprit(manager, p)
       /\ manager.isolating /\ manager'.isolating => DefaultServer \in DOMAIN manager'.files]_manager

\* isolateBadConfigs terminates: each iteration shrinks the set of candidates.
IsolationTerminates == manager.isolating ~> ~manager.isolating

=============================================================================
