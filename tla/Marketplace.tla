------------------------------ MODULE Marketplace ------------------------------
(***************************************************************************)
(* The two pipelines that rebuild the bot in place and their files:        *)
(* installing, upgrading, removing and rolling back plugins                *)
(* (marketplace/install.go, manifest.go) and the automatic update          *)
(* (adminpanel/update.go, marketplace/replay.go), with the exchange of the *)
(* running binary and the restart of the process.                          *)
(*                                                                         *)
(* Of a plugin only its version is modelled, 0 where it is absent: in its  *)
(* persistent directory, in the copy <id>.old beside it, in the source     *)
(* tree, in a binary and in the manifest of installed plugins.             *)
(***************************************************************************)
EXTENDS Naturals, FiniteSets, Sequences

CONSTANTS Plugins,
          MaxVersion,   \* versions a plugin may be installed in: 1..MaxVersion
          MaxOps,       \* bound: operations of a batch
          Environments, \* what may happen: see MarketplaceAssumption
          MaxTasks,     \* bound: pipelines started
          MaxReboots    \* bound: restarts from elsewhere

Tasks    == {"market", "update"}
Versions == 0..MaxVersion
Contents == [Plugins -> Versions]
Empty    == [p \in Plugins |-> 0]
Names    == {"exe", "old", "new", "built", "manifest", "manifest.bak"}
PCs == {"idle", "fetch", "backup", "persist", "source", "remove", "undo", "generate",
        "pull", "list", "replay", "build", "copy", "discard", "retire", "place",
        "record", "drop", "strike", "restore", "restart"}

\* An environment names the plugins the operator deals with, the steps that may fail and
\* what else may happen: rollbacks, a pipeline that is started while the other one runs
\* (together), restarts from elsewhere, hooks of plugins that do not return (hangs).
MarketplaceAssumption ==
  /\ Environments \subseteq
       SUBSET (Plugins \cup PCs \cup {"rollbacks", "together", "reboots", "hangs"})
  /\ {MaxOps, MaxTasks, MaxReboots} \subseteq Nat /\ MaxVersion \in Nat

ASSUME MarketplaceAssumption

VARIABLES
  env,      \* the environment, the same throughout a behaviour
  dirs,     \* plugin directories: persist, backup (<id>.old) and src
  registry, \* plugins the generated code of the source tree registers
  files,    \* the files that exist, each with the plugins in it
  listed,   \* the manifest as the process holds it in memory
  held,     \* history: the plugins as the batches that went through have left them
  pc,       \* the step of each pipeline
  job,      \* the task of the marketplace
  left,     \* entries of the plugin directory the update has still to replay
  hung,     \* tasks that wait for a hook of a plugin that does not return
  begun, reboots

vars == <<env, dirs, registry, files, listed, held, pc, job, left, hung, begun, reboots>>

NoJob == [kind |-> "none", ops |-> <<>>, at |-> 0, had |-> {}, undo |-> {}]

Init ==
  /\ env \in Environments
  /\ dirs = [persist |-> Empty, backup |-> Empty, src |-> Empty]
  /\ registry = {}
  /\ files = [exe |-> Empty] /\ listed = Empty /\ held = Empty
  /\ pc = [t \in Tasks |-> "idle"]
  /\ job = NoJob /\ left = {} /\ hung = {}
  /\ begun = 0 /\ reboots = 0
-------------------------------------------------------------------------------
Has(n)          == n \in DOMAIN files
With(f, n, c)   == [x \in DOMAIN f \cup {n} |-> IF x = n THEN c ELSE f[x]]
Put(n, c)       == With(files, n, c)
Without(n)      == [x \in DOMAIN files \ {n} |-> files[x]]
Rename(a, b)    == With(Without(a), b, files[a])
OnFile          == IF Has("manifest") THEN files["manifest"] ELSE Empty
InSource        == {p \in Plugins : dirs.src[p] # 0}
Goto(t, l)      == pc' = [pc EXCEPT ![t] = l]
MayFail(t)      == pc[t] \in env
Doing           == job.ops[job.at]            \* the operation under way
Upcoming        == job.ops[job.at + 1]
PutDir(d, p, v) == dirs' = [dirs EXCEPT ![d][p] = v]

\* The directories with plugin p in these versions.
Having(p, persist, backup, src) ==
  [persist |-> [dirs.persist EXCEPT ![p] = persist],
   backup  |-> [dirs.backup EXCEPT ![p] = backup],
   src     |-> [dirs.src EXCEPT ![p] = src]]

\* Where the batch goes on after k operations.
After(k) ==
  IF k = Len(job.ops) THEN "generate"
  ELSE IF job.ops[k + 1].v > 0 THEN "backup" ELSE "remove"

\* A step fails: a batch undoes its first k operations, other tasks just end.
FailAfter(t, k) ==
  IF t = "market" /\ k > 0
    THEN Goto(t, "undo") /\ job' = [job EXCEPT !.at = k, !.undo = 1..k]
    ELSE Goto(t, "idle") /\ job' = IF t = "market" THEN NoJob ELSE job

Fail(t) == FailAfter(t, IF t = "market" THEN job.at ELSE 0)

\* A task is accepted unless one of its kind runs or waits for the restart.
Begin(t, l) ==
  /\ pc[t] = "idle" /\ begun < MaxTasks
  /\ "together" \in env \/ \A u \in Tasks : pc[u] = "idle"
  /\ Goto(t, l) /\ begun' = begun + 1
  /\ UNCHANGED <<dirs, registry, files, listed, held, reboots, hung>>
-------------------------------------------------------------------------------
(* The marketplace: runBatch.                                              *)

\* buildOps: installs come first, no plugin is named twice; v = 0 is a removal.
Batches ==
  {b \in UNION {[1..n -> [id : Plugins, v : Versions]] : n \in 1..MaxOps} :
     \A i, j \in DOMAIN b : i < j => b[i].id # b[j].id /\ (b[i].v = 0 => b[j].v = 0)}

\* Batch, Install, Uninstall: only what is installed can be removed.
StartBatch(b) ==
  /\ \A i \in DOMAIN b : b[i].id \in env /\ (b[i].v = 0 => listed[b[i].id] # 0)
  /\ Begin("market", "fetch")
  /\ job' = [NoJob EXCEPT !.kind = "batch", !.ops = b]
  /\ UNCHANGED left

\* Environment, download and verification of all plugins, before anything is written.
Fetch ==
  /\ pc["market"] = "fetch"
  /\ \/ Goto("market", After(0)) /\ UNCHANGED job
     \/ MayFail("market") /\ Fail("market")
  /\ UNCHANGED <<dirs, registry, files, listed, held, left, begun, reboots, hung>>

\* An upgrade moves the old version aside.
Backup ==
  /\ pc["market"] = "backup"
  /\ LET p == Upcoming.id
         old == dirs.persist[p] IN
     \/ /\ old = 0 /\ UNCHANGED dirs
        /\ job' = [job EXCEPT !.at = @ + 1] /\ Goto("market", "persist")
     \/ /\ old # 0
        /\ dirs' = Having(p, 0, old, dirs.src[p])
        /\ job' = [job EXCEPT !.at = @ + 1, !.had = @ \cup {p}] /\ Goto("market", "persist")
     \/ /\ old # 0 /\ MayFail("market")
        /\ PutDir("backup", p, 0) /\ Fail("market")
  /\ UNCHANGED <<registry, files, listed, held, left, begun, reboots, hung>>

\* replaceDir: the old directory goes, the new one is copied; a copy that fails may
\* have left nothing of use or everything.
ReplaceDir(from, d, to) ==
  /\ pc["market"] = from
  /\ LET o == Doing IN
     \/ PutDir(d, o.id, o.v) /\ Goto("market", to) /\ UNCHANGED job
     \/ \E v \in {0, o.v} : MayFail("market") /\ PutDir(d, o.id, v) /\ Fail("market")
  /\ UNCHANGED <<registry, files, listed, held, left, begun, reboots, hung>>

WritePersistent == ReplaceDir("persist", "persist", "source")
WriteSource     == ReplaceDir("source", "src", After(job.at))

\* A removal first takes the plugin out of the source tree only.
RemoveSource ==
  /\ pc["market"] = "remove"
  /\ LET p == Upcoming.id IN
     \/ /\ PutDir("src", p, 0) /\ Goto("market", After(job.at + 1))
        /\ job' = [job EXCEPT !.at = @ + 1]
     \/ \E v \in {0, dirs.src[p]} :
          MayFail("market") /\ PutDir("src", p, v) /\ FailAfter("market", job.at + 1)
  /\ UNCHANGED <<registry, files, listed, held, left, begun, reboots, hung>>

\* Mutant: a removal is not undone in the source tree.
RevertWritesOnly(o) ==
  IF o.v = 0 THEN dirs
  ELSE LET v == IF o.id \in job.had THEN dirs.backup[o.id] ELSE 0
       IN Having(o.id, v, IF o.id \in job.had THEN 0 ELSE dirs.backup[o.id], v)

\* rollback of one operation: the old version comes back, a new plugin disappears, a
\* removed one is copied back from its persistent directory.
Revert(o) ==
  IF o.v = 0 THEN [dirs EXCEPT !.src[o.id] = dirs.persist[o.id]]
  ELSE LET v == IF o.id \in job.had THEN dirs.backup[o.id] ELSE 0
       IN Having(o.id, v, IF o.id \in job.had THEN 0 ELSE dirs.backup[o.id], v)

\* The written plugins are reverted from the last to the first, then the removed ones.
Later(i, j) == IF (job.ops[i].v > 0) = (job.ops[j].v > 0) THEN i > j ELSE job.ops[i].v > 0

\* What is left if one of its calls fails; that is logged and the next one reverted.
Halfway(o) ==
  LET p == o.id
      u == Revert(o) IN
  {[u EXCEPT !.src[p] = 0]}
    \cup (IF o.v = 0 THEN {}
          ELSE IF p \in job.had THEN {Having(p, 0, dirs.backup[p], 0)}
          ELSE {Having(p, v, dirs.backup[p], w) : v \in {0, dirs.persist[p]},
                                                 w \in {0, dirs.src[p]}})

Undo ==
  /\ pc["market"] = "undo"
  /\ \E i \in job.undo :
       /\ \A j \in job.undo \ {i} : Later(i, j)
       /\ \/ dirs' = Revert(job.ops[i])
          \/ MayFail("market") /\ dirs' \in Halfway(job.ops[i])
       /\ job' = [job EXCEPT !.undo = @ \ {i}]
  /\ UNCHANGED <<registry, files, listed, held, pc, left, begun, reboots, hung>>

\* The registration code is generated again, unless the time is over.
Undone ==
  /\ pc["market"] = "undo" /\ job.undo = {}
  /\ registry' = InSource \/ UNCHANGED registry
  /\ Goto("market", "idle") /\ job' = NoJob
  /\ UNCHANGED <<dirs, files, listed, held, left, begun, reboots, hung>>

\* plugingen registers what lies in the source tree.
Generate ==
  /\ pc["market"] = "generate"
  /\ \/ registry' = InSource /\ Goto("market", "build") /\ UNCHANGED job
     \/ MayFail("market") /\ Fail("market") /\ UNCHANGED registry
  /\ UNCHANGED <<dirs, files, listed, held, left, begun, reboots, hung>>

\* manifestStore.save moves the file to manifest.bak and writes it anew.  A failure is
\* logged: nothing was done, or the file is gone, or one that cannot be read, which is the
\* same; the list in memory has been changed in place or not.
MovedAway ==
  IF Has("manifest") THEN Rename("manifest", "manifest.bak") ELSE Without("manifest.bak")

Save(list, edited) ==
  \/ files' = With(MovedAway, "manifest", list) /\ listed' = list
  \/ /\ MayFail("market")
     /\ files' \in {files, MovedAway} /\ listed' \in edited

\* After the swap, for the operations one after the other (job.at counts them again):
\* a written plugin enters the manifest and its backup goes, if it can be deleted.
Record ==
  /\ pc["market"] = "record" /\ job.at < Len(job.ops) /\ Upcoming.v > 0
  /\ LET p    == Upcoming.id
         list == [listed EXCEPT ![p] = Upcoming.v] IN
     /\ Save(list, {IF listed[p] # 0 THEN list ELSE listed})
     /\ held' = [held EXCEPT ![p] = Upcoming.v]
     /\ \/ PutDir("backup", p, 0)
        \/ "drop" \in env /\ UNCHANGED dirs
  /\ job' = [job EXCEPT !.at = @ + 1]
  /\ UNCHANGED <<registry, pc, left, begun, reboots, hung>>

\* A removed plugin has had its unload hook; its persistent copy goes ...
Removing == pc["market"] = "record" /\ job.at < Len(job.ops) /\ Upcoming.v = 0

DropCopy ==
  /\ Removing /\ "market" \notin hung
  /\ \/ PutDir("persist", Upcoming.id, 0)
     \/ "drop" \in env /\ UNCHANGED dirs
  /\ Goto("market", "strike")
  /\ UNCHANGED <<registry, files, listed, held, job, left, begun, reboots, hung>>

\* ... and then its line of the manifest.
Strike ==
  /\ pc["market"] = "strike"
  /\ LET list == [listed EXCEPT ![Upcoming.id] = 0] IN Save(list, {list, listed})
  /\ held' = [held EXCEPT ![Upcoming.id] = 0]
  /\ job' = [job EXCEPT !.at = @ + 1] /\ Goto("market", "record")
  /\ UNCHANGED <<dirs, registry, left, begun, reboots, hung>>

Recorded ==
  /\ pc["market"] = "record" /\ job.at = Len(job.ops)
  /\ Goto("market", "restart")
  /\ UNCHANGED <<dirs, registry, files, listed, held, job, left, begun, reboots, hung>>

\* Rollback: the old binary is put back by the same swap.
StartRollback ==
  /\ "rollbacks" \in env /\ Begin("market", "copy")
  /\ job' = [NoJob EXCEPT !.kind = "rollback"] /\ UNCHANGED left

\* restoreBackup; without a backup the manifest stays, and a failure is logged.
Restore ==
  /\ pc["market"] = "restore"
  /\ \/ IF Has("manifest.bak")
          THEN /\ files' = Put("manifest", files["manifest.bak"])
               /\ listed' = files["manifest.bak"]
          ELSE UNCHANGED <<files, listed>>
     \/ MayFail("market") /\ files' \in {files, Without("manifest")} /\ UNCHANGED listed
  /\ Goto("market", "restart")
  /\ UNCHANGED <<dirs, registry, held, job, left, begun, reboots, hung>>
-------------------------------------------------------------------------------
(* The update: runUpdate and ApplyInstalled.                               *)

StartUpdate == Begin("update", "pull") /\ UNCHANGED <<job, left>>

\* git reset --hard: the registration code is the committed one, without plugins;
\* custom/plugins is ignored by git and stays.
Pull ==
  /\ pc["update"] = "pull"
  /\ \/ registry' = {} /\ Goto("update", "list")
     \/ MayFail("update") /\ Goto("update", "idle") /\ UNCHANGED registry
  /\ UNCHANGED <<dirs, files, listed, held, job, left, begun, reboots, hung>>

\* The directory is read: an entry <id>.old names the plugin <id> as well; if it cannot be
\* read, nothing is replayed.
List ==
  /\ pc["update"] = "list"
  /\ \/ left' = {p \in Plugins : dirs.persist[p] # 0 \/ dirs.backup[p] # 0}
     \/ MayFail("update") /\ left' = {}
  /\ Goto("update", "replay")
  /\ UNCHANGED <<dirs, registry, files, listed, held, job, begun, reboots, hung>>

\* Every entry replaces the plugin in the source tree by pluginDir/<id>, whether that
\* can be copied or not.
Replay ==
  /\ pc["update"] = "replay"
  /\ \E p \in left :
       /\ left' = left \ {p}
       /\ \E v \in {dirs.persist[p]} \cup (IF MayFail("update") THEN {0} ELSE {}) :
            PutDir("src", p, v)
  /\ UNCHANGED <<registry, files, listed, held, pc, job, begun, reboots, hung>>

\* Mutant: the registration code is not generated again.
RegisterNothing ==
  /\ pc["update"] = "replay" /\ left = {} /\ Goto("update", "build")
  /\ UNCHANGED <<dirs, registry, files, listed, held, job, left, begun, reboots, hung>>

\* plugingen runs again; only its failure ends the update.
Register ==
  /\ pc["update"] = "replay" /\ left = {}
  /\ \/ registry' = InSource /\ Goto("update", "build")
     \/ MayFail("update") /\ Goto("update", "idle") /\ UNCHANGED registry
  /\ UNCHANGED <<dirs, files, listed, held, job, left, begun, reboots, hung>>
-------------------------------------------------------------------------------
(* Both: dependencies, build, exchange of the binary, restart.             *)

\* Mutant: the build waits for the plugins it misses.
BuildOrWait(t) ==
  /\ pc[t] = "build" /\ registry \subseteq InSource
  /\ files' = Put("built", [p \in Plugins |-> IF p \in registry THEN dirs.src[p] ELSE 0])
  /\ Goto(t, "copy")
  /\ UNCHANGED <<job, dirs, registry, listed, held, left, begun, reboots, hung>>

\* The build fails at the latest on a registered plugin that is not there.
Build(t) ==
  /\ pc[t] = "build"
  /\ \/ /\ registry \subseteq InSource
        /\ files' = Put("built", [p \in Plugins |-> IF p \in registry THEN dirs.src[p] ELSE 0])
        /\ Goto(t, "copy") /\ UNCHANGED job
     \/ /\ MayFail(t) \/ ~(registry \subseteq InSource)
        /\ Fail(t) /\ UNCHANGED files
  /\ UNCHANGED <<dirs, registry, listed, held, left, begun, reboots, hung>>

\* The new binary is copied to <exe>.new; a rollback copies <exe>.old.
Source(t) == IF t = "market" /\ job.kind = "rollback" THEN "old" ELSE "built"

Copy(t) ==
  /\ pc[t] = "copy"
  /\ \/ /\ Has(Source(t)) /\ files' = Put("new", files[Source(t)])
        /\ Goto(t, "discard") /\ UNCHANGED job
     \/ /\ MayFail(t) \/ ~Has(Source(t))
        /\ Fail(t) /\ UNCHANGED files
  /\ UNCHANGED <<dirs, registry, listed, held, left, begun, reboots, hung>>

\* os.Remove(backup).
Discard(t) ==
  /\ pc[t] = "discard" /\ files' = Without("old") /\ Goto(t, "retire")
  /\ UNCHANGED <<dirs, registry, listed, held, job, left, begun, reboots, hung>>

\* The running binary becomes <exe>.old.
Retire(t) ==
  /\ pc[t] = "retire"
  /\ \/ /\ Has("exe") /\ files' = Rename("exe", "old")
        /\ Goto(t, "place") /\ UNCHANGED job
     \/ /\ MayFail(t) \/ ~Has("exe")
        /\ files' = Without("new") /\ Fail(t)
  /\ UNCHANGED <<dirs, registry, listed, held, left, begun, reboots, hung>>

Swapped(t) ==
  IF t = "update" THEN Goto(t, "restart") /\ UNCHANGED job
  ELSE /\ Goto(t, IF job.kind = "rollback" THEN "restore" ELSE "record")
       /\ job' = [job EXCEPT !.at = 0]

\* <exe>.new takes its place, or the old one is put back.
Place(t) ==
  /\ pc[t] = "place"
  /\ \/ Has("new") /\ files' = Rename("new", "exe") /\ Swapped(t)
     \/ /\ MayFail(t) \/ ~Has("new")
        /\ files' = IF Has("old") THEN Rename("old", "exe") ELSE files
        /\ Fail(t)
  /\ UNCHANGED <<dirs, registry, listed, held, left, begun, reboots, hung>>

\* The process is replaced, whatever it was doing ends, and the manifest is read again.
Reset == /\ pc' = [t \in Tasks |-> "idle"] /\ job' = NoJob /\ left' = {} /\ hung' = {}
         /\ listed' = OnFile

\* The unload hook of a removed plugin, or one of the sweep before the restart, gets a
\* context with a deadline and is waited for without one.
Hang(t) ==
  /\ "hangs" \in env /\ t \notin hung
  /\ pc[t] = "restart" \/ (t = "market" /\ Removing)
  /\ hung' = hung \cup {t}
  /\ UNCHANGED <<dirs, registry, files, listed, held, pc, job, left, begun, reboots>>

\* After the task: without the binary the restart fails and the process stays.
Restart(t) ==
  /\ pc[t] = "restart" /\ t \notin hung
  /\ \/ Has("exe") /\ Reset
     \/ /\ MayFail(t) \/ ~Has("exe")
        /\ Goto(t, "idle") /\ job' = (IF t = "market" THEN NoJob ELSE job)
        /\ UNCHANGED <<listed, left, hung>>
  /\ UNCHANGED <<dirs, registry, files, held, begun, reboots>>

\* /reboot or the button of the panel.
Reboot ==
  /\ "reboots" \in env /\ reboots < MaxReboots /\ Has("exe")
  /\ Reset /\ reboots' = reboots + 1
  /\ UNCHANGED <<dirs, registry, files, held, begun>>

Market == \/ Fetch \/ Backup \/ WritePersistent \/ WriteSource \/ RemoveSource
          \/ Undo \/ Undone \/ Generate \/ Record \/ DropCopy \/ Strike \/ Recorded
          \/ Restore
Update == Pull \/ List \/ Replay \/ Register
Both(t) == Build(t) \/ Copy(t) \/ Discard(t) \/ Retire(t) \/ Place(t) \/ Restart(t)

Operator == (\E b \in Batches : StartBatch(b)) \/ StartRollback \/ StartUpdate

Next == /\ UNCHANGED env
        /\ Operator \/ Market \/ Update \/ (\E t \in Tasks : Both(t) \/ Hang(t)) \/ Reboot

Spec == Init /\ [][Next]_vars

\* The goroutines of the tasks go on: every command ends with the task's context.  The
\* hooks of plugins are code of others: nothing is assumed of them.
FairSpec ==
  /\ Spec
  /\ WF_vars(UNCHANGED env /\ (Market \/ Both("market")))
  /\ WF_vars(UNCHANGED env /\ (Update \/ Both("update")))
-------------------------------------------------------------------------------
Jobs == [kind : {"none", "batch", "rollback"}, ops : Batches \cup {<<>>}, at : Nat,
         had : SUBSET Plugins, undo : SUBSET Nat]

TypeOK ==
  /\ env \in Environments
  /\ dirs \in [persist : Contents, backup : Contents, src : Contents]
  /\ registry \subseteq Plugins /\ left \subseteq Plugins
  /\ DOMAIN files \subseteq Names /\ \A n \in DOMAIN files : files[n] \in Contents
  /\ listed \in Contents /\ held \in Contents /\ hung \subseteq Tasks
  /\ pc \in [Tasks -> PCs]
  /\ job \in Jobs
  /\ job.at <= Len(job.ops) /\ job.undo \subseteq DOMAIN job.ops
  /\ begun \in 0..MaxTasks /\ reboots \in 0..MaxReboots

Quiet == \A t \in Tasks : pc[t] = "idle"

\* The operator uses one pipeline at a time and does not roll back, nothing restarts the
\* process meanwhile, what a failed batch wrote can be taken back, and the directories of
\* plugins can be deleted and, by an update, copied.
Orderly == env \cap {"together", "rollbacks", "reboots", "undo", "drop", "replay"} = {}

\* Whenever no task runs, the binary that starts next, the persistent directories and the
\* source tree hold the plugins the batches that went through have left, and no backup is
\* left over: a batch that fails anywhere is undone as a whole.
BuiltAsHeld ==
  files["exe"] = held /\ dirs = [persist |-> held, backup |-> Empty, src |-> held]

\* And if the manifest could always be written, it names them, in memory and on disk.
ListedAsHeld == listed = held /\ OnFile = held

\* The binary is missing only between the two renames, and then the old one is kept.
BinaryOnDisk ==
  Has("exe") \/ (Has("old") /\ \E t \in Tasks : pc[t] = "place")

\* install.go: a batch that fails at any step is undone as a whole and one that succeeds is
\* complete, but for the manifest, whose writing may fail unnoticed; and whatever fails or
\* restarts, as long as one pipeline runs at a time the binary is missing only between the
\* two renames of the exchange.
BatchesAreWhole ==
  /\ TypeOK
  /\ Orderly /\ Quiet => BuiltAsHeld /\ (env \cap {"record", "strike"} = {} => ListedAsHeld)
  /\ "together" \notin env => BinaryOnDisk

\* The last copy of a plugin is deleted only after the binary has been built without
\* it: until then a removal can be undone.
DropsNoLastCopy ==
  \A p \in Plugins :
    dirs.persist[p] # 0 /\ dirs'.persist[p] = 0 /\ dirs'.backup[p] = 0
      => Has("exe") /\ files["exe"][p] = 0

\* Claim of update.go and replay.go: installed plugins do not get lost in an update.
ReplacesWithPlugins ==
  pc["update"] = "place" /\ pc'["update"] = "restart" =>
    \A p \in Plugins : held[p] # 0 => files'["exe"][p] # 0

UpdateKeepsPlugins == [][ReplacesWithPlugins]_vars

\* install.go: the last copy of a plugin is deleted only after the binary has been built
\* without it; replay.go: an update builds a binary with every installed plugin, also after
\* batches and updates that failed.
PluginsAreKept == [][Orderly => DropsNoLastCopy /\ ReplacesWithPlugins]_vars

\* Claim of install.go: a rollback restores the binary of before the last operation
\* and the manifest that belongs to it.
RollbackRestores == Quiet => files["exe"] = listed

\* Every task ends, by itself or with the process, whatever fails and meets, unless a
\* plugin's hook holds it up for good.
TasksEnd == \A t \in Tasks : pc[t] # "idle" ~> pc[t] = "idle" \/ t \in hung

\* Claim of unload.go: a hook has a time-out, so no task waits for one for ever.
HooksAreTimed == \A t \in Tasks : pc[t] # "idle" ~> pc[t] = "idle"

\* Claim of manifest.go: the manifest is the list of what is installed; so it tells that of
\* the binary, at least until the process is restarted.
ManifestTells == Quiet => listed = files["exe"]

\* Claim of the web panel guide: the old binary is put back if the exchange fails; so
\* there is a binary, whatever pipelines run.
BinaryIsNeverLost == BinaryOnDisk
================================================================================
