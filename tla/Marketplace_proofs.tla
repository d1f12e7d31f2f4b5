--------------------------- MODULE Marketplace_proofs ---------------------------
(***************************************************************************)
(* Theorems about Marketplace, for any plugins, versions, batches, bounds   *)
(* and environments.                                                        *)
(***************************************************************************)
EXTENDS Marketplace, SequenceTheorems, TLAPS

\* The shape of a batch.
LEMMA BatchesAreLists ==
  ASSUME NEW b \in Batches \cup {<<>>}
  PROVE  /\ Len(b) \in Nat /\ DOMAIN b = 1..Len(b)
         /\ \A i \in 1..Len(b) : b[i] \in [id : Plugins, v : Versions]
         /\ \A i, j \in 1..Len(b) :
              i < j => b[i].id # b[j].id /\ (b[i].v = 0 => b[j].v = 0)
<1>1. CASE b = <<>>
  BY <1>1
<1>2. CASE b \in Batches
  <2>1. PICK n \in 1..MaxOps : b \in [1..n -> [id : Plugins, v : Versions]]
    BY <1>2 DEF Batches
  <2>2. n \in Nat
    BY <2>1, MarketplaceAssumption DEF MarketplaceAssumption
  <2>3. b \in Seq([id : Plugins, v : Versions])
    BY <2>1, <2>2, SeqDef
  <2>4. DOMAIN b = 1..n /\ DOMAIN b = 1..Len(b) /\ Len(b) \in Nat
    BY <2>1, <2>3
  <2> QED
    BY <1>2, <2>1, <2>3, <2>4 DEF Batches
<1> QED
  BY <1>1, <1>2

LEMMA ZeroIsAVersion == 0 \in Versions /\ Empty \in Contents
BY MarketplaceAssumption DEF MarketplaceAssumption, Versions, Empty, Contents

\* Where the marketplace is in its batch.
AtIsRight ==
  /\ pc["market"] \in {"backup", "remove", "strike"} => job.at < Len(job.ops)
  /\ pc["market"] \in {"persist", "source"} => job.at > 0
  /\ pc["market"] = "fetch" => job.ops \in Batches /\ job.at = 0

Control == TypeOK /\ AtIsRight

\* The parts of the types that are about the tasks, and those that are about what they move.
JobTypes ==
  /\ job \in Jobs
  /\ job.at <= Len(job.ops) /\ job.undo \subseteq DOMAIN job.ops
  /\ pc \in [Tasks -> PCs]
  /\ AtIsRight

DataTypes ==
  /\ dirs \in [persist : Contents, backup : Contents, src : Contents]
  /\ registry \subseteq Plugins /\ left \subseteq Plugins
  /\ DOMAIN files \subseteq Names /\ \A n \in DOMAIN files : files[n] \in Contents
  /\ listed \in Contents /\ held \in Contents /\ hung \subseteq Tasks
  /\ begun \in 0..MaxTasks /\ reboots \in 0..MaxReboots

LEMMA ControlParts == Control <=> env \in Environments /\ JobTypes /\ DataTypes
BY DEF Control, TypeOK, JobTypes, DataTypes

\* What leaves the job and the steps alone, or moves the update only.
LEMMA JobStays ==
  ASSUME JobTypes, job' = job,
         pc' = pc \/ \E l \in PCs : pc' = [pc EXCEPT !["update"] = l]
  PROVE  JobTypes'
BY DEF JobTypes, AtIsRight, Tasks, PCs

LEMMA JobFails ==
  ASSUME JobTypes, NEW t \in Tasks, NEW k \in 0..Len(job.ops), FailAfter(t, k)
  PROVE  JobTypes'
<1>0. Len(job.ops) \in Nat /\ DOMAIN job.ops = 1..Len(job.ops)
  BY BatchesAreLists DEF JobTypes
<1>1. CASE t = "market" /\ k > 0
  <2>1. 1..k \subseteq DOMAIN job.ops /\ 1..k \in SUBSET Nat /\ k \in Nat
    BY <1>0
  <2>2. pc' = [pc EXCEPT !["market"] = "undo"] /\ job' = [job EXCEPT !.at = k, !.undo = 1..k]
    BY <1>1 DEF FailAfter, Goto
  <2>3. /\ job' \in Jobs
        /\ job'.ops = job.ops /\ job'.at = k /\ job'.undo = 1..k
    BY <2>1, <2>2 DEF JobTypes, Jobs
  <2>4. pc' \in [Tasks -> PCs] /\ pc'["market"] = "undo"
    BY <2>2 DEF JobTypes, Tasks, PCs
  <2>5. AtIsRight'
    BY <2>4 DEF AtIsRight
  <2> QED
    BY <1>0, <2>1, <2>3, <2>4, <2>5 DEF JobTypes
<1>2. CASE ~(t = "market" /\ k > 0)
  <2>1. pc' = [pc EXCEPT ![t] = "idle"] /\ job' = IF t = "market" THEN NoJob ELSE job
    BY <1>2 DEF FailAfter, Goto
  <2>2. CASE t = "market"
    BY <2>1, <2>2 DEF JobTypes, AtIsRight, Tasks, PCs, NoJob, Jobs
  <2>3. CASE t = "update"
    BY <2>1, <2>3, JobStays DEF PCs
  <2> QED
    BY <2>2, <2>3 DEF Tasks
<1> QED
  BY <1>1, <1>2

\* The step after k operations is there.
LEMMA AfterIsRight ==
  ASSUME JobTypes, NEW k \in 0..Len(job.ops)
  PROVE  /\ After(k) \in {"generate", "backup", "remove"}
         /\ After(k) = "generate" <=> k = Len(job.ops)
         /\ After(k) = "backup" => k < Len(job.ops) /\ job.ops[k + 1].v > 0
         /\ After(k) = "remove" => k < Len(job.ops) /\ ~(job.ops[k + 1].v > 0)
<1>1. Len(job.ops) \in Nat
  BY BatchesAreLists DEF JobTypes
<1> QED
  BY <1>1 DEF After

LEMMA JobMoves ==
  ASSUME JobTypes, NEW l \in PCs \ {"fetch"}, pc' = [pc EXCEPT !["market"] = l],
         job' \in Jobs,
         job'.ops = job.ops, job'.undo \subseteq job.undo, job'.at <= Len(job.ops),
         l \in {"backup", "remove", "strike"} => job'.at < Len(job.ops),
         l \in {"persist", "source"} => job'.at > 0
  PROVE  JobTypes'
<1>1. pc' \in [Tasks -> PCs] /\ pc'["market"] = l
  BY DEF JobTypes, Tasks
<1>2. AtIsRight'
  BY <1>1 DEF AtIsRight
<1> QED
  BY <1>1, <1>2 DEF JobTypes

\* Counting one operation more.
LEMMA JobCounts ==
  ASSUME JobTypes, NEW l \in PCs \ {"fetch"}, pc' = [pc EXCEPT !["market"] = l],
         job' = [job EXCEPT !.at = job.at + 1], job.at < Len(job.ops),
         l \notin {"backup", "remove", "strike"} \/ job.at + 1 < Len(job.ops)
  PROVE  JobTypes'
<1>1. Len(job.ops) \in Nat /\ job.at \in Nat
  BY BatchesAreLists DEF JobTypes, Jobs
<1>2. /\ job' \in Jobs
      /\ job'.ops = job.ops /\ job'.undo = job.undo /\ job'.at = job.at + 1
  BY <1>1 DEF JobTypes, Jobs
<1>3. /\ job'.undo \subseteq job.undo /\ job'.at <= Len(job.ops)
      /\ l \in {"backup", "remove", "strike"} => job'.at < Len(job.ops)
      /\ l \in {"persist", "source"} => job'.at > 0
  BY <1>1, <1>2
<1> QED
  BY <1>2, <1>3, JobMoves

LEMMA JobTypesStep ==
  ASSUME JobTypes, [Next]_vars PROVE JobTypes'
<1>0. /\ Len(job.ops) \in Nat /\ job.at \in Nat /\ job.at \in 0..Len(job.ops)
      /\ \A i \in 1..Len(job.ops) : job.ops[i].id \in Plugins
      /\ DOMAIN job.ops = 1..Len(job.ops)
  BY BatchesAreLists DEF JobTypes, Jobs
<1>1. ASSUME NEW b \in Batches, StartBatch(b) PROVE JobTypes'
  <2>1. /\ pc' = [pc EXCEPT !["market"] = "fetch"]
        /\ job' = [NoJob EXCEPT !.kind = "batch", !.ops = b]
    BY <1>1 DEF StartBatch, Begin, Goto
  <2>2. /\ job' \in Jobs
        /\ job'.ops = b /\ job'.at = 0 /\ job'.undo = {}
    BY <2>1 DEF NoJob, Jobs
  <2>3. pc' \in [Tasks -> PCs] /\ pc'["market"] = "fetch"
    BY <2>1 DEF JobTypes, Tasks, PCs
  <2>4. Len(b) \in Nat
    BY BatchesAreLists
  <2>5. AtIsRight'
    BY <2>2, <2>3 DEF AtIsRight
  <2> QED
    BY <2>2, <2>3, <2>4, <2>5 DEF JobTypes
<1>2. ASSUME NEW l \in {"copy", "idle"}, NEW kind \in {"none", "rollback"},
             pc' = [pc EXCEPT !["market"] = l],
             job' = [NoJob EXCEPT !.kind = kind]
      PROVE  JobTypes'
  <2>1. /\ job' \in Jobs
        /\ job'.ops = <<>> /\ job'.at = 0 /\ job'.undo = {}
    BY <1>2 DEF NoJob, Jobs
  <2>2. pc' \in [Tasks -> PCs] /\ pc'["market"] = l
    BY <1>2 DEF JobTypes, Tasks, PCs
  <2>3. AtIsRight'
    BY <2>2 DEF AtIsRight
  <2> QED
    BY <2>1, <2>2, <2>3 DEF JobTypes
<1>3. ASSUME pc' = [t \in Tasks |-> "idle"], job' = NoJob PROVE JobTypes'
  <2>1. /\ job' \in Jobs
        /\ job'.ops = <<>> /\ job'.at = 0 /\ job'.undo = {}
    BY <1>3 DEF NoJob, Jobs
  <2>2. pc' \in [Tasks -> PCs] /\ pc'["market"] = "idle"
    BY <1>3 DEF Tasks, PCs
  <2>3. AtIsRight'
    BY <2>2 DEF AtIsRight
  <2> QED
    BY <2>1, <2>2, <2>3 DEF JobTypes
<1>4. ASSUME NEW l \in PCs \ {"fetch", "backup", "remove", "strike", "persist", "source"},
             pc' = [pc EXCEPT !["market"] = l], job' = job
      PROVE  JobTypes'
  BY <1>0, <1>4, JobMoves DEF JobTypes
<1>5. CASE StartRollback
  <2>1. pc' = [pc EXCEPT !["market"] = "copy"] /\ job' = [NoJob EXCEPT !.kind = "rollback"]
    BY <1>5 DEF StartRollback, Begin, Goto
  <2> QED
    BY <1>2, <2>1
<1>6. CASE StartUpdate
  BY <1>6, JobStays DEF StartUpdate, Begin, Goto, PCs
<1>7. CASE Fetch
  <2>1. CASE Goto("market", After(0)) /\ UNCHANGED job
    <3>1. /\ After(0) \in PCs \ {"fetch", "persist", "source", "strike"}
          /\ After(0) \in {"backup", "remove"} => job.at < Len(job.ops)
      BY <1>0, <1>7, AfterIsRight DEF PCs, Fetch, JobTypes, AtIsRight
    <3> QED
      BY <1>0, <2>1, <3>1, JobMoves DEF JobTypes, Goto
  <2>2. CASE FailAfter("market", job.at)
    BY <1>0, <2>2, JobFails DEF Tasks
  <2> QED
    BY <1>7, <2>1, <2>2 DEF Fetch, Fail
<1>8. CASE Backup
  <2>0. job.at < Len(job.ops) /\ Upcoming.id \in Plugins
    BY <1>0, <1>8 DEF Backup, Upcoming, JobTypes, AtIsRight
  <2>1. CASE job' = [job EXCEPT !.at = @ + 1] /\ Goto("market", "persist")
    BY <2>0, <2>1, JobCounts DEF Goto, PCs
  <2>2. CASE /\ job' = [job EXCEPT !.at = @ + 1, !.had = @ \cup {Upcoming.id}]
             /\ Goto("market", "persist")
    <3>1. /\ job' \in Jobs
          /\ job'.ops = job.ops /\ job'.at = job.at + 1 /\ job'.undo = job.undo
      <4>1. job.had \cup {Upcoming.id} \in SUBSET Plugins /\ job.at + 1 \in Nat
        BY <1>0, <2>0 DEF JobTypes, Jobs
      <4> QED
        BY <2>2, <4>1 DEF JobTypes, Jobs
    <3>2. pc' = [pc EXCEPT !["market"] = "persist"] /\ "persist" \in PCs \ {"fetch"}
      BY <2>2 DEF Goto, PCs
    <3>3. /\ job'.undo \subseteq job.undo /\ job'.at <= Len(job.ops)
          /\ "persist" \in {"backup", "remove", "strike"} => job'.at < Len(job.ops)
          /\ "persist" \in {"persist", "source"} => job'.at > 0
      BY <1>0, <2>0, <3>1
    <3> QED
      BY <3>1, <3>2, <3>3, JobMoves
  <2>3. CASE Fail("market")
    BY <1>0, <2>3, JobFails DEF Tasks, Fail
  <2> QED
    BY <1>8, <2>1, <2>2, <2>3 DEF Backup
<1>9. CASE WritePersistent
  <2>1. CASE Goto("market", "source") /\ UNCHANGED job
    <3>1. job.at > 0
      BY <1>9 DEF WritePersistent, ReplaceDir, JobTypes, AtIsRight
    <3> QED
      BY <1>0, <2>1, <3>1, JobMoves DEF JobTypes, Goto, PCs
  <2>2. CASE Fail("market")
    BY <1>0, <2>2, JobFails DEF Tasks, Fail
  <2> QED
    BY <1>9, <2>1, <2>2 DEF WritePersistent, ReplaceDir
<1>10. CASE WriteSource
  <2>1. CASE Goto("market", After(job.at)) /\ UNCHANGED job
    <3>1. /\ After(job.at) \in PCs \ {"fetch", "persist", "source", "strike"}
          /\ After(job.at) \in {"backup", "remove"} => job.at < Len(job.ops)
      BY <1>0, AfterIsRight DEF PCs
    <3> QED
      BY <1>0, <2>1, <3>1, JobMoves DEF JobTypes, Goto
  <2>2. CASE Fail("market")
    BY <1>0, <2>2, JobFails DEF Tasks, Fail
  <2> QED
    BY <1>10, <2>1, <2>2 DEF WriteSource, ReplaceDir
<1>11. CASE RemoveSource
  <2>0. job.at < Len(job.ops) /\ job.at + 1 \in 0..Len(job.ops)
    BY <1>0, <1>11 DEF RemoveSource, JobTypes, AtIsRight
  <2>1. CASE Goto("market", After(job.at + 1)) /\ job' = [job EXCEPT !.at = @ + 1]
    <3>1. /\ After(job.at + 1) \in PCs \ {"fetch", "persist", "source", "strike"}
          /\ After(job.at + 1) \in {"backup", "remove"} => job.at + 1 < Len(job.ops)
      BY <1>0, <2>0, AfterIsRight DEF PCs
    <3> QED
      BY <2>0, <2>1, <3>1, JobCounts DEF Goto
  <2>2. CASE FailAfter("market", job.at + 1)
    BY <2>0, <2>2, JobFails DEF Tasks
  <2> QED
    BY <1>11, <2>1, <2>2 DEF RemoveSource
<1>12. CASE Undo
  <2>1. PICK i \in job.undo : job' = [job EXCEPT !.undo = @ \ {i}]
    BY <1>12 DEF Undo
  <2>2. /\ job' \in Jobs
        /\ job'.ops = job.ops /\ job'.at = job.at /\ job'.undo \subseteq job.undo
    BY <2>1 DEF JobTypes, Jobs
  <2>3. pc' = [pc EXCEPT !["market"] = "undo"]
    BY <1>12 DEF Undo, JobTypes, Tasks
  <2>4. /\ "undo" \in PCs \ {"fetch"} /\ job'.at <= Len(job.ops)
        /\ "undo" \in {"backup", "remove", "strike"} => job'.at < Len(job.ops)
        /\ "undo" \in {"persist", "source"} => job'.at > 0
    BY <2>2 DEF PCs, JobTypes
  <2> QED
    BY <2>2, <2>3, <2>4, JobMoves
<1>13. CASE Undone
  <2>1. pc' = [pc EXCEPT !["market"] = "idle"] /\ job' = [NoJob EXCEPT !.kind = "none"]
    BY <1>13 DEF Undone, Goto, NoJob
  <2> QED
    BY <1>2, <2>1
<1>14. CASE Generate
  <2>1. CASE Goto("market", "build") /\ UNCHANGED job
    BY <1>4, <2>1 DEF Goto, PCs
  <2>2. CASE Fail("market")
    BY <1>0, <2>2, JobFails DEF Tasks, Fail
  <2> QED
    BY <1>14, <2>1, <2>2 DEF Generate
<1>15. CASE Record
  <2>1. pc' = [pc EXCEPT !["market"] = "record"]
    BY <1>15 DEF Record, JobTypes, Tasks
  <2> QED
    BY <1>15, <2>1, JobCounts DEF Record, PCs
<1>16. CASE DropCopy
  <2>1. job.at < Len(job.ops) /\ pc' = [pc EXCEPT !["market"] = "strike"] /\ job' = job
    BY <1>16 DEF DropCopy, Removing, Goto
  <2> QED
    BY <1>0, <2>1, JobMoves DEF JobTypes, PCs
<1>17. CASE Strike
  <2>1. job.at < Len(job.ops)
    BY <1>17 DEF Strike, JobTypes, AtIsRight
  <2> QED
    BY <1>17, <2>1, JobCounts DEF Strike, Goto, PCs
<1>18. CASE Recorded \/ Restore
  BY <1>4, <1>18 DEF Recorded, Restore, Goto, PCs
<1>19. CASE Update
  <2>1. CASE Pull \/ List \/ Register
    BY <2>1, JobStays DEF Pull, List, Register, Goto, PCs
  <2>2. CASE Replay
    BY <2>2, JobStays DEF Replay
  <2> QED
    BY <1>19, <2>1, <2>2 DEF Update
<1>20. ASSUME NEW t \in Tasks, NEW l \in {"copy", "discard", "retire", "place", "restart"},
              Goto(t, l), UNCHANGED job
       PROVE  JobTypes'
  <2>1. CASE t = "market"
    BY <1>4, <1>20, <2>1 DEF Goto, PCs
  <2>2. CASE t = "update"
    BY <1>20, <2>2, JobStays DEF Goto, PCs
  <2> QED
    BY <2>1, <2>2 DEF Tasks
<1>21. ASSUME NEW t \in Tasks, Fail(t) PROVE JobTypes'
  BY <1>0, <1>21, JobFails DEF Fail
<1>22. ASSUME NEW t \in Tasks, Both(t) PROVE JobTypes'
  <2>1. CASE Build(t)
    BY <1>20, <1>21, <2>1 DEF Build
  <2>2. CASE Copy(t)
    BY <1>20, <1>21, <2>2 DEF Copy
  <2>3. CASE Discard(t)
    BY <1>20, <2>3 DEF Discard
  <2>4. CASE Retire(t)
    BY <1>20, <1>21, <2>4 DEF Retire
  <2>5. CASE Place(t)
    <3>1. CASE Swapped(t)
      <4>1. CASE t = "update"
        BY <1>20, <3>1, <4>1 DEF Swapped
      <4>2. CASE t = "market"
        <5>1. PICK l \in {"restore", "record"} :
                pc' = [pc EXCEPT !["market"] = l] /\ job' = [job EXCEPT !.at = 0]
          BY <3>1, <4>2 DEF Swapped, Goto
        <5>2. /\ job' \in Jobs
              /\ job'.ops = job.ops /\ job'.at = 0 /\ job'.undo = job.undo
          BY <5>1 DEF JobTypes, Jobs
        <5>3. /\ l \in PCs \ {"fetch"} /\ job'.at <= Len(job.ops)
              /\ job'.undo \subseteq job.undo
              /\ l \in {"backup", "remove", "strike"} => job'.at < Len(job.ops)
              /\ l \in {"persist", "source"} => job'.at > 0
          BY <1>0, <5>1, <5>2 DEF PCs
        <5> QED
          BY <5>1, <5>2, <5>3, JobMoves
      <4> QED
        BY <4>1, <4>2 DEF Tasks
    <3> QED
      BY <1>21, <2>5, <3>1 DEF Place
  <2>6. CASE Restart(t)
    <3>1. CASE Reset
      BY <1>3, <3>1 DEF Reset
    <3>2. CASE t = "market" /\ Goto(t, "idle") /\ job' = NoJob
      BY <1>2, <3>2 DEF Goto, NoJob
    <3>3. CASE t = "update" /\ Goto(t, "idle") /\ job' = job
      BY <3>3, JobStays DEF Goto, PCs
    <3> QED
      BY <2>6, <3>1, <3>2, <3>3 DEF Restart, Tasks
  <2> QED
    BY <1>22, <2>1, <2>2, <2>3, <2>4, <2>5, <2>6 DEF Both
<1>23. CASE Reboot
  BY <1>3, <1>23 DEF Reboot, Reset
<1>24. CASE UNCHANGED vars
  BY <1>24, JobStays DEF vars
<1>25. ASSUME NEW t \in Tasks, Hang(t) PROVE JobTypes'
  BY <1>25, JobStays DEF Hang
<1> QED
  BY <1>25, <1>1, <1>5, <1>6, <1>7, <1>8, <1>9, <1>10, <1>11, <1>12, <1>13, <1>14, <1>15, <1>16,
     <1>17, <1>18, <1>19, <1>22, <1>23, <1>24 DEF Next, Operator, Market

-------------------------------------------------------------------------------
\* What the directories, the files and the registration code hold.

FilesOK(f) == DOMAIN f \subseteq Names /\ \A n \in DOMAIN f : f[n] \in Contents
DirTypes   == [persist : Contents, backup : Contents, src : Contents]

\* The operations on files keep their types.
LEMMA FilesKept ==
  ASSUME FilesOK(files), NEW n \in Names, NEW c \in Contents
  PROVE  /\ FilesOK(Put(n, c)) /\ FilesOK(Without(n)) /\ FilesOK(With(Put(n, c), "manifest", c))
         /\ \A m \in DOMAIN files : FilesOK(Rename(m, n))
         /\ \A m \in DOMAIN files : FilesOK(Put(n, files[m]))
         /\ OnFile \in Contents
<1>1. ASSUME NEW f, FilesOK(f), NEW m \in Names, NEW d \in Contents
      PROVE  FilesOK(With(f, m, d))
  BY <1>1 DEF FilesOK, With
<1>2. ASSUME NEW m PROVE FilesOK(Without(m))
  BY <1>2 DEF FilesOK, Without
<1>3. "manifest" \in Names
  BY DEF Names
<1>4. OnFile \in Contents
  BY ZeroIsAVersion DEF OnFile, Has, FilesOK
<1>5. \A m \in DOMAIN files : files[m] \in Contents
  BY DEF FilesOK
<1> QED
  BY <1>1, <1>2, <1>3, <1>4, <1>5 DEF Put, Rename

\* So does the writing of the manifest.
LEMMA SaveKept ==
  ASSUME FilesOK(files), NEW c \in Contents, NEW S \in SUBSET Contents, Save(c, S)
  PROVE  FilesOK(files') /\ listed' \in Contents
<1>1. ASSUME NEW f, FilesOK(f), NEW m \in Names, NEW d \in Contents
      PROVE  FilesOK(With(f, m, d))
  BY <1>1 DEF FilesOK, With
<1>2. {"manifest", "manifest.bak"} \subseteq Names
  BY DEF Names
<1>3. FilesOK(MovedAway)
  BY <1>2, FilesKept, ZeroIsAVersion DEF MovedAway, Has
<1> QED
  BY <1>1, <1>2, <1>3 DEF Save

LEMMA DirsKept ==
  ASSUME dirs \in DirTypes, NEW p \in Plugins, NEW v \in Versions
  PROVE  /\ \A d \in {"persist", "backup", "src"} : PutDir(d, p, v) => dirs' \in DirTypes
         /\ \A d \in {"persist", "backup", "src"} : dirs[d] \in Contents
         /\ \A d \in {"persist", "backup", "src"} : dirs[d][p] \in Versions
BY DEF DirTypes, Contents, PutDir

\* Several directories of one plugin changed at once.
LEMMA HavingIsTyped ==
  ASSUME dirs \in DirTypes, NEW p \in Plugins, NEW a \in Versions, NEW b \in Versions,
         NEW c \in Versions
  PROVE  Having(p, a, b, c) \in DirTypes
<1>1. /\ dirs.persist \in Contents /\ dirs.backup \in Contents /\ dirs.src \in Contents
  BY DEF DirTypes
<1>2. ASSUME NEW f \in Contents, NEW v \in Versions PROVE [f EXCEPT ![p] = v] \in Contents
  BY <1>2 DEF Contents
<1> QED
  BY <1>1, <1>2 DEF DirTypes, Having

LEMMA DataTypesStep ==
  ASSUME JobTypes, DataTypes, [Next]_vars PROVE DataTypes'
<1> DEFINE Fine == dirs' \in DirTypes /\ registry' \subseteq Plugins /\ left' \subseteq Plugins
                   /\ FilesOK(files') /\ listed' \in Contents /\ held' \in Contents
                   /\ hung' \subseteq Tasks
<1>0. /\ dirs \in DirTypes /\ registry \subseteq Plugins /\ left \subseteq Plugins
      /\ FilesOK(files) /\ InSource \subseteq Plugins
      /\ listed \in Contents /\ held \in Contents /\ hung \subseteq Tasks
      /\ begun \in 0..MaxTasks /\ reboots \in 0..MaxReboots
      /\ MaxTasks \in Nat /\ MaxReboots \in Nat
  BY MarketplaceAssumption DEF MarketplaceAssumption, DataTypes, DirTypes, FilesOK, InSource
<1>1. /\ job.at \in Nat /\ Len(job.ops) \in Nat
      /\ \A i \in 1..Len(job.ops) : job.ops[i] \in [id : Plugins, v : Versions]
      /\ DOMAIN job.ops = 1..Len(job.ops) /\ job.undo \subseteq 1..Len(job.ops)
      /\ job.at <= Len(job.ops)
  BY BatchesAreLists DEF JobTypes, Jobs
<1>2. job.at < Len(job.ops) => Upcoming \in [id : Plugins, v : Versions]
  BY <1>1 DEF Upcoming
<1>3. job.at > 0 => Doing \in [id : Plugins, v : Versions]
  BY <1>1 DEF Doing
<1>4. 0 \in Versions
  BY ZeroIsAVersion
<1>5. /\ \A p \in Plugins, v \in Versions, d \in {"persist", "backup", "src"} :
           PutDir(d, p, v) => dirs' \in DirTypes
      /\ \A p \in Plugins, d \in {"persist", "backup", "src"} : dirs[d][p] \in Versions
  BY <1>0, <1>4, DirsKept
<1>6. /\ \A n \in Names : FilesOK(Without(n))
      /\ \A n \in Names, c \in Contents : FilesOK(Put(n, c))
      /\ \A n \in Names, m \in DOMAIN files : FilesOK(Rename(m, n)) /\ FilesOK(Put(n, files[m]))
      /\ OnFile \in Contents
  BY <1>0, FilesKept, ZeroIsAVersion DEF Names
<1>7. {"exe", "old", "new", "built", "manifest", "manifest.bak"} \subseteq Names
  BY DEF Names
<1>8. ASSUME Fine, begun' = begun \/ (begun < MaxTasks /\ begun' = begun + 1),
             reboots' = reboots \/ (reboots < MaxReboots /\ reboots' = reboots + 1)
      PROVE  DataTypes'
  <2>1. begun' \in 0..MaxTasks
    BY <1>0, <1>8
  <2>2. reboots' \in 0..MaxReboots
    BY <1>0, <1>8
  <2> QED
    BY <1>8, <2>1, <2>2 DEF DataTypes, DirTypes, FilesOK
<1>9. CASE Operator
  BY <1>0, <1>8, <1>9 DEF Operator, StartBatch, StartRollback, StartUpdate, Begin
<1>10. CASE Fetch \/ Undone \/ Generate \/ Recorded
  BY <1>0, <1>8, <1>10 DEF Fetch, Undone, Generate, Recorded
<1>11. CASE Backup
  <2>1. Upcoming.id \in Plugins /\ dirs.persist[Upcoming.id] \in Versions
    BY <1>2, <1>5, <1>11 DEF Backup, JobTypes, AtIsRight
  <2>2. Having(Upcoming.id, 0, dirs.persist[Upcoming.id], dirs.src[Upcoming.id]) \in DirTypes
    BY <1>0, <1>4, <1>5, <2>1, HavingIsTyped
  <2>3. dirs' \in DirTypes
    BY <1>0, <1>4, <1>5, <1>11, <2>1, <2>2 DEF Backup
  <2> QED
    BY <1>0, <1>8, <1>11, <2>3 DEF Backup
<1>12. CASE WritePersistent \/ WriteSource
  <2>1. Doing \in [id : Plugins, v : Versions]
    BY <1>3, <1>12 DEF WritePersistent, WriteSource, ReplaceDir, JobTypes, AtIsRight
  <2>2. dirs' \in DirTypes
    BY <1>4, <1>5, <1>12, <2>1 DEF WritePersistent, WriteSource, ReplaceDir
  <2> QED
    BY <1>0, <1>8, <1>12, <2>2 DEF WritePersistent, WriteSource, ReplaceDir
<1>13. CASE RemoveSource
  <2>1. Upcoming.id \in Plugins /\ dirs.src[Upcoming.id] \in Versions
    BY <1>2, <1>5, <1>13 DEF RemoveSource, JobTypes, AtIsRight
  <2>2. dirs' \in DirTypes
    BY <1>4, <1>5, <1>13, <2>1 DEF RemoveSource
  <2> QED
    BY <1>0, <1>8, <1>13, <2>2 DEF RemoveSource
<1>14. CASE Undo
  <2>1. PICK i \in 1..Len(job.ops) :
          dirs' = Revert(job.ops[i]) \/ dirs' \in Halfway(job.ops[i])
    BY <1>1, <1>14 DEF Undo
  <2>2. job.ops[i] \in [id : Plugins, v : Versions]
    BY <1>1
  <2> DEFINE o == job.ops[i]
  <2>3. o.id \in Plugins /\ dirs.persist[o.id] \in Versions /\ dirs.backup[o.id] \in Versions
    BY <1>5, <2>2
  <2>4. Revert(o) \in DirTypes
    <3>1. CASE o.v = 0
      <4>1. Revert(o) = [dirs EXCEPT !.src[o.id] = dirs.persist[o.id]]
        BY <3>1 DEF Revert
      <4> HIDE DEF o
      <4> QED
        BY <1>0, <2>3, <4>1 DEF DirTypes, Contents
    <3>2. CASE o.v # 0
      <4> DEFINE v == IF o.id \in job.had THEN dirs.backup[o.id] ELSE 0
                 w == IF o.id \in job.had THEN 0 ELSE dirs.backup[o.id]
      <4>1. Revert(o) = Having(o.id, v, w, v)
        BY <3>2 DEF Revert
      <4>2. v \in Versions /\ w \in Versions
        BY <1>4, <2>3
      <4> HIDE DEF v, w, o
      <4> QED
        BY <1>0, <2>3, <4>1, <4>2, HavingIsTyped
    <3> QED
      BY <3>1, <3>2
  <2>5. Halfway(o) \subseteq DirTypes
    <3>1. dirs.src[o.id] \in Versions
      BY <1>5, <2>2
    <3> HIDE DEF o
    <3>2. [Revert(o) EXCEPT !.src[o.id] = 0] \in DirTypes
      BY <1>4, <2>3, <2>4 DEF DirTypes, Contents
    <3>3. \A v, w, b \in Versions : Having(o.id, v, b, w) \in DirTypes
      BY <1>0, <2>3, HavingIsTyped
    <3> QED
      BY <1>4, <2>3, <3>1, <3>2, <3>3 DEF Halfway
  <2> QED
    BY <1>0, <1>8, <1>14, <2>1, <2>4, <2>5 DEF Undo
<1>15. CASE Record
  <2> DEFINE list == [listed EXCEPT ![Upcoming.id] = Upcoming.v]
             S    == {IF listed[Upcoming.id] # 0 THEN list ELSE listed}
  <2>1. Upcoming.id \in Plugins /\ Upcoming.v \in Versions
    BY <1>2, <1>15 DEF Record
  <2>2. \A c \in Contents : [c EXCEPT ![Upcoming.id] = Upcoming.v] \in Contents
    BY <2>1 DEF Contents
  <2>3. list \in Contents /\ S \in SUBSET Contents /\ held' \in Contents
    BY <1>0, <1>15, <2>2 DEF Record
  <2>4. Save(list, S) /\ (PutDir("backup", Upcoming.id, 0) \/ dirs' = dirs)
    BY <1>15 DEF Record
  <2> HIDE DEF list, S
  <2>5. FilesOK(files') /\ listed' \in Contents /\ dirs' \in DirTypes
    BY <1>0, <1>4, <1>5, <2>1, <2>3, <2>4, SaveKept
  <2> QED
    BY <1>0, <1>8, <1>15, <2>3, <2>5 DEF Record
<1>16. CASE DropCopy
  <2>1. Upcoming.id \in Plugins
    BY <1>2, <1>16 DEF DropCopy, Removing
  <2>2. dirs' \in DirTypes
    BY <1>0, <1>4, <1>5, <1>16, <2>1 DEF DropCopy, Removing
  <2> QED
    BY <1>0, <1>8, <1>16, <2>2 DEF DropCopy, Removing
<1>17. CASE Strike
  <2> DEFINE list == [listed EXCEPT ![Upcoming.id] = 0]
  <2>1. \A c \in Contents : [c EXCEPT ![Upcoming.id] = 0] \in Contents
    BY <1>4 DEF Contents
  <2>2. list \in Contents /\ {list, listed} \in SUBSET Contents /\ held' \in Contents
    BY <1>0, <1>17, <2>1 DEF Strike
  <2>3. Save(list, {list, listed})
    BY <1>17 DEF Strike
  <2> HIDE DEF list
  <2>4. FilesOK(files') /\ listed' \in Contents
    BY <1>0, <2>2, <2>3, SaveKept
  <2> QED
    BY <1>0, <1>8, <1>17, <2>2, <2>4 DEF Strike
<1>18. CASE Restore
  <2>1. FilesOK(files') /\ listed' \in Contents
    BY <1>0, <1>6, <1>7, <1>18 DEF Restore, Has, FilesOK
  <2> QED
    BY <1>0, <1>8, <1>18, <2>1 DEF Restore
<1>19. CASE Update
  <2>1. CASE Pull \/ List \/ Register
    BY <1>0, <1>8, <2>1 DEF Pull, List, Register
  <2>2. CASE Replay
    <3>1. PICK p \in left :
            /\ left' = left \ {p}
            /\ \E v \in {dirs.persist[p]} \cup {0} : PutDir("src", p, v)
      BY <2>2 DEF Replay
    <3>2. dirs' \in DirTypes /\ left' \subseteq Plugins
      BY <1>0, <1>4, <1>5, <3>1
    <3> QED
      BY <1>0, <1>8, <2>2, <3>2 DEF Replay
  <2> QED
    BY <1>19, <2>1, <2>2 DEF Update
<1>20. ASSUME NEW t \in Tasks, Both(t) PROVE DataTypes'
  <2>1. FilesOK(files')
    <3>1. CASE Build(t)
      <4>1. [p \in Plugins |-> IF p \in registry THEN dirs.src[p] ELSE 0] \in Contents
        BY <1>4, <1>5 DEF Contents
      <4> QED
        BY <1>0, <1>6, <1>7, <3>1, <4>1 DEF Build
    <3>2. CASE Copy(t)
      BY <1>0, <1>6, <1>7, <3>2 DEF Copy, Has
    <3>3. CASE Discard(t)
      BY <1>6, <1>7, <3>3 DEF Discard
    <3>4. CASE Retire(t)
      BY <1>6, <1>7, <3>4 DEF Retire, Has
    <3>5. CASE Place(t)
      BY <1>0, <1>6, <1>7, <3>5 DEF Place, Has
    <3>6. CASE Restart(t)
      BY <1>0, <3>6 DEF Restart
    <3> QED
      BY <1>20, <3>1, <3>2, <3>3, <3>4, <3>5, <3>6 DEF Both
  <2>2. /\ UNCHANGED <<dirs, registry, held, begun, reboots>>
        /\ UNCHANGED left \/ left' = {}
        /\ UNCHANGED listed \/ listed' = OnFile
        /\ UNCHANGED hung \/ hung' = {}
    BY <1>20 DEF Both, Build, Copy, Discard, Retire, Place, Restart, Reset
  <2> QED
    BY <1>0, <1>6, <1>8, <2>1, <2>2
<1>21. CASE Reboot
  BY <1>0, <1>6, <1>8, <1>21 DEF Reboot, Reset
<1>22. CASE UNCHANGED vars
  BY <1>0, <1>8, <1>22 DEF vars
<1>23. ASSUME NEW t \in Tasks, Hang(t) PROVE DataTypes'
  BY <1>0, <1>8, <1>23 DEF Hang
<1> QED
  BY <1>23, <1>9, <1>10, <1>11, <1>12, <1>13, <1>14, <1>15, <1>16, <1>17, <1>18, <1>19, <1>20,
     <1>21, <1>22 DEF Next, Market

LEMMA InitIsTyped == Init => Control
<1> SUFFICES ASSUME Init PROVE Control
  OBVIOUS
<1>1. Empty \in Contents /\ 0 \in 0..MaxTasks /\ 0 \in 0..MaxReboots
  BY ZeroIsAVersion, MarketplaceAssumption DEF MarketplaceAssumption
<1>2. DataTypes
  BY <1>1 DEF Init, DataTypes, Names
<1>3. JobTypes
  <2>1. pc \in [Tasks -> PCs] /\ pc["market"] = "idle"
    BY DEF Init, Tasks, PCs
  <2>2. AtIsRight
    BY <2>1 DEF AtIsRight
  <2> QED
    BY <2>1, <2>2 DEF Init, JobTypes, NoJob, Jobs
<1> QED
  BY <1>2, <1>3, ControlParts DEF Init

LEMMA ControlStep == Control /\ [Next]_vars => Control'
<1> SUFFICES ASSUME Control, [Next]_vars PROVE Control'
  OBVIOUS
<1>1. env' = env
  BY DEF Next, vars
<1>2. env \in Environments /\ JobTypes /\ DataTypes
  BY ControlParts
<1>3. JobTypes' /\ DataTypes'
  BY <1>2, JobTypesStep, DataTypesStep
<1> QED
  BY <1>1, <1>2, <1>3 DEF Control, TypeOK, JobTypes, DataTypes

LEMMA AlwaysControl == Spec => []Control
BY InitIsTyped, ControlStep, PTL DEF Spec

\* Whatever fails, meets or restarts, every variable stays in its type: plugins, versions and
\* the place of a pipeline in its batch are such as the code can have.
THEOREM TypeCorrect == Spec => []TypeOK
BY AlwaysControl, PTL DEF Control

-------------------------------------------------------------------------------
\* One pipeline at a time, and the binary.

Alone == "together" \notin env => pc["market"] = "idle" \/ pc["update"] = "idle"

BinaryKept ==
  "together" \notin env =>
    /\ (\A t \in Tasks : pc[t] # "place") => Has("exe")
    /\ (\E t \in Tasks : pc[t] = "place") => Has("old")

\* What a step is to the pipelines and the binary: a pipeline starts, goes on without
\* touching the binary, takes it away, puts one in its place; or the process is replaced.
Moves(t, l) == pc' = [pc EXCEPT ![t] = l]
Starts(t)   == /\ pc[t] = "idle" /\ \E l \in PCs \ {"place"} : Moves(t, l)
               /\ "together" \in env \/ \A u \in Tasks : pc[u] = "idle"
               /\ files' = files
GoesOn(t)   == /\ pc[t] \notin {"idle", "place"} /\ \E l \in PCs \ {"place"} : Moves(t, l)
               /\ Has("exe") => Has("exe")'
TakesAway(t) == pc[t] = "retire" /\ Moves(t, "place") /\ Has("old")'
PutsBack(t)  == /\ pc[t] = "place" /\ \E l \in PCs \ {"place"} : Moves(t, l)
                /\ Has("old") => Has("exe")'
Replaced     == pc' = [t \in Tasks |-> "idle"] /\ Has("exe") /\ files' = files

\* The steps; to wait for a hook is none.
Acts == /\ UNCHANGED env
        /\ Operator \/ Market \/ Update \/ (\E t \in Tasks : Both(t)) \/ Reboot

LEMMA NextIsActs ==
  ASSUME [Next]_vars
  PROVE  \/ Acts
         \/ \E t \in Tasks :
              UNCHANGED <<env, dirs, registry, files, listed, held, pc, job, left, begun, reboots>>
              /\ hung' = hung \cup {t}
         \/ UNCHANGED vars
BY DEF Next, Acts, Hang

LEMMA StepKinds ==
  ASSUME Control, Acts
  PROVE  \/ \E t \in Tasks : Starts(t) \/ GoesOn(t) \/ TakesAway(t) \/ PutsBack(t)
         \/ Replaced
<1>0. /\ Len(job.ops) \in Nat /\ job.at \in 0..Len(job.ops) /\ pc \in [Tasks -> PCs] /\ JobTypes
      /\ 0 \in 0..Len(job.ops)
  BY BatchesAreLists, ControlParts DEF JobTypes, Jobs
<1>1. ASSUME NEW t, NEW k, FailAfter(t, k) PROVE \E l \in PCs \ {"place"} : Moves(t, l)
  <2>1. {"undo", "idle"} \subseteq PCs \ {"place"}
    BY DEF PCs
  <2> QED
    BY <1>1, <2>1 DEF FailAfter, Goto, Moves
<1>2. ASSUME NEW t, Fail(t) PROVE \E l \in PCs \ {"place"} : Moves(t, l)
  BY <1>1, <1>2 DEF Fail
<1>3. ASSUME NEW k \in 0..Len(job.ops), Goto("market", After(k))
      PROVE  \E l \in PCs \ {"place"} : Moves("market", l)
  <2>1. After(k) \in PCs \ {"place"}
    BY <1>0, AfterIsRight DEF PCs
  <2> QED
    BY <1>3, <2>1 DEF Goto, Moves
<1>4. ASSUME NEW t, NEW l \in PCs \ {"place"}, Goto(t, l)
      PROVE  \E k \in PCs \ {"place"} : Moves(t, k)
  BY <1>4 DEF Goto, Moves
<1>5. ASSUME NEW t \in Tasks, pc' = pc, pc[t] # "place"
      PROVE  \E k \in PCs \ {"place"} : Moves(t, k)
  BY <1>0, <1>5 DEF Moves
<1>6. PCs \ {"place"} = {"idle", "fetch", "backup", "persist", "source", "remove", "undo",
        "generate", "pull", "list", "replay", "build", "copy", "discard", "retire",
        "record", "drop", "strike", "restore", "restart"}
  BY DEF PCs
<1>7. "market" \in Tasks /\ "update" \in Tasks
  BY DEF Tasks
<1>8. CASE Operator
  BY <1>4, <1>6, <1>7, <1>8 DEF Operator, StartBatch, StartRollback, StartUpdate, Begin, Starts
<1>9. CASE Market
  <2>1. CASE Fetch
    BY <1>0, <1>2, <1>3, <2>1 DEF Fetch, GoesOn, Has, Tasks
  <2>2. CASE Backup
    BY <1>2, <1>4, <1>6, <1>7, <2>2 DEF Backup, GoesOn, Has
  <2>3. CASE WritePersistent
    BY <1>2, <1>4, <1>6, <1>7, <2>3 DEF WritePersistent, ReplaceDir, GoesOn, Has
  <2>4. CASE WriteSource
    BY <1>0, <1>2, <1>3, <1>7, <2>4 DEF WriteSource, ReplaceDir, GoesOn, Has
  <2>5. CASE RemoveSource
    <3>1. job.at + 1 \in 0..Len(job.ops)
      BY <1>0, <2>5 DEF RemoveSource, JobTypes, AtIsRight
    <3> QED
      BY <1>1, <1>3, <1>7, <2>5, <3>1 DEF RemoveSource, GoesOn, Has
  <2>6. CASE Undo
    BY <1>5, <1>7, <2>6 DEF Undo, GoesOn, Has
  <2>7. CASE Undone \/ Generate \/ DropCopy \/ Recorded
    BY <1>2, <1>4, <1>6, <1>7, <2>7 DEF Undone, Generate, DropCopy, Removing, Recorded, GoesOn, Has
  <2>8. ASSUME NEW c, NEW S, Save(c, S) PROVE Has("exe") => Has("exe")'
    BY <2>8 DEF Save, MovedAway, Rename, Without, With, Has
  <2>9. CASE Record
    BY <1>5, <1>7, <2>8, <2>9 DEF Record, GoesOn
  <2>10. CASE Strike
    BY <1>4, <1>6, <1>7, <2>8, <2>10 DEF Strike, GoesOn
  <2>11. CASE Restore
    <3>1. Has("exe") => Has("exe")'
      BY <2>11 DEF Restore, Put, Without, With, Has
    <3> QED
      BY <1>4, <1>6, <1>7, <2>11, <3>1 DEF Restore, GoesOn
  <2> QED
    BY <1>9, <2>1, <2>2, <2>3, <2>4, <2>5, <2>6, <2>7, <2>9, <2>10, <2>11 DEF Market
<1>10. CASE Update
  <2>1. CASE Pull \/ List \/ Register
    BY <1>4, <1>6, <1>7, <2>1 DEF Pull, List, Register, GoesOn, Has
  <2>2. CASE Replay
    BY <1>5, <1>7, <2>2 DEF Replay, GoesOn, Has
  <2> QED
    BY <1>10, <2>1, <2>2 DEF Update
<1>11. ASSUME NEW t \in Tasks, Both(t)
       PROVE  GoesOn(t) \/ TakesAway(t) \/ PutsBack(t) \/ Replaced
  <2>1. CASE Build(t)
    <3>1. Has("exe") => Has("exe")'
      BY <2>1 DEF Build, Put, With, Has
    <3> QED
      BY <1>2, <1>4, <1>6, <2>1, <3>1 DEF Build, GoesOn
  <2>2. CASE Copy(t)
    <3>1. Has("exe") => Has("exe")'
      BY <2>2 DEF Copy, Put, With, Has
    <3> QED
      BY <1>2, <1>4, <1>6, <2>2, <3>1 DEF Copy, GoesOn
  <2>3. CASE Discard(t)
    <3>1. Has("exe") => Has("exe")'
      BY <2>3 DEF Discard, Without, Has
    <3> QED
      BY <1>4, <1>6, <2>3, <3>1 DEF Discard, GoesOn
  <2>4. CASE Retire(t)
    <3>1. CASE files' = Rename("exe", "old") /\ Goto(t, "place")
      BY <2>4, <3>1 DEF Retire, Rename, With, Has, TakesAway, Goto, Moves
    <3>2. CASE files' = Without("new") /\ Fail(t)
      <4>1. Has("exe") => Has("exe")'
        BY <3>2 DEF Without, Has
      <4> QED
        BY <1>2, <2>4, <3>2, <4>1 DEF Retire, GoesOn
    <3> QED
      BY <2>4, <3>1, <3>2 DEF Retire
  <2>5. CASE Place(t)
    <3>1. CASE files' = Rename("new", "exe") /\ Swapped(t)
      <4>1. Has("exe")'
        BY <3>1 DEF Rename, With, Has
      <4>2. \E l \in PCs \ {"place"} : Moves(t, l)
        BY <1>4, <1>6, <3>1 DEF Swapped
      <4> QED
        BY <2>5, <4>1, <4>2 DEF Place, PutsBack
    <3>2. CASE files' = (IF Has("old") THEN Rename("old", "exe") ELSE files) /\ Fail(t)
      <4>1. Has("old") => Has("exe")'
        BY <3>2 DEF Rename, With, Has
      <4> QED
        BY <1>2, <2>5, <3>2, <4>1 DEF Place, PutsBack
    <3> QED
      BY <2>5, <3>1, <3>2 DEF Place
  <2>6. CASE Restart(t)
    <3>1. CASE Has("exe") /\ Reset
      BY <2>6, <3>1 DEF Restart, Reset, Replaced
    <3>2. CASE Goto(t, "idle")
      BY <1>4, <1>6, <2>6, <3>2 DEF Restart, GoesOn, Has
    <3> QED
      BY <2>6, <3>1, <3>2 DEF Restart
  <2> QED
    BY <1>11, <2>1, <2>2, <2>3, <2>4, <2>5, <2>6 DEF Both
<1>12. CASE Reboot
  BY <1>12 DEF Reboot, Reset, Replaced
<1> QED
  BY <1>7, <1>8, <1>9, <1>10, <1>11, <1>12 DEF Acts

LEMMA AloneStep ==
  ASSUME Control, Alone, BinaryKept, [Next]_vars PROVE Alone' /\ BinaryKept'
<1>1. CASE UNCHANGED <<env, files, pc>>
  BY <1>1 DEF Alone, BinaryKept, Has
<1>2. CASE Acts
  <2>0. env' = env /\ Tasks = {"market", "update"} /\ pc \in [Tasks -> PCs]
    BY <1>2 DEF Acts, Tasks, Control, TypeOK
  <2> SUFFICES ASSUME "together" \notin env
               PROVE  /\ (pc["market"] = "idle" \/ pc["update"] = "idle")'
                      /\ ((\A t \in Tasks : pc[t] # "place") => Has("exe"))'
                      /\ ((\E t \in Tasks : pc[t] = "place") => Has("old"))'
    BY <2>0 DEF Alone, BinaryKept
  <2>1. /\ pc["market"] = "idle" \/ pc["update"] = "idle"
        /\ (\A t \in Tasks : pc[t] # "place") => Has("exe")
        /\ (\E t \in Tasks : pc[t] = "place") => Has("old")
    BY DEF Alone, BinaryKept
  <2>2. ASSUME NEW t \in Tasks, Starts(t) \/ GoesOn(t) PROVE
               /\ (pc["market"] = "idle" \/ pc["update"] = "idle")'
               /\ (\A u \in Tasks : pc'[u] # "place") /\ Has("exe")'
    <3>1. \A u \in Tasks : u # t => pc[u] = "idle"
      BY <2>0, <2>1, <2>2 DEF Starts, GoesOn
    <3>2. PICK l \in PCs \ {"place"} : pc' = [pc EXCEPT ![t] = l]
      BY <2>2 DEF Starts, GoesOn, Moves
    <3>3. \A u \in Tasks : pc[u] # "place"
      BY <2>2, <3>1 DEF Starts, GoesOn
    <3>4. Has("exe")'
      BY <2>1, <2>2, <3>3 DEF Starts, GoesOn, Has
    <3> QED
      BY <2>0, <3>1, <3>2, <3>4
  <2>3. ASSUME NEW t \in Tasks, TakesAway(t) PROVE
               /\ (pc["market"] = "idle" \/ pc["update"] = "idle")'
               /\ pc'[t] = "place" /\ Has("old")'
    BY <2>0, <2>1, <2>3 DEF TakesAway, Moves
  <2>4. ASSUME NEW t \in Tasks, PutsBack(t) PROVE
               /\ (pc["market"] = "idle" \/ pc["update"] = "idle")'
               /\ (\A u \in Tasks : pc'[u] # "place") /\ Has("exe")'
    <3>1. \A u \in Tasks : u # t => pc[u] = "idle"
      BY <2>0, <2>1, <2>4 DEF PutsBack
    <3>2. PICK l \in PCs \ {"place"} : pc' = [pc EXCEPT ![t] = l]
      BY <2>4 DEF PutsBack, Moves
    <3>3. Has("exe")'
      BY <2>1, <2>4 DEF PutsBack
    <3> QED
      BY <2>0, <3>1, <3>2, <3>3
  <2>5. CASE Replaced
    BY <2>0, <2>5 DEF Replaced, Has
  <2> QED
    BY <1>2, <2>2, <2>3, <2>4, <2>5, StepKinds
<1> QED
  BY <1>1, <1>2, NextIsActs DEF vars

LEMMA InitIsAlone == Init => Alone /\ BinaryKept
BY DEF Init, Alone, BinaryKept, Has, Tasks

\* install.go, update.go: whatever fails or restarts, while one pipeline runs at a time the
\* binary is missing only between the two renames, and then the old one is still there.
THEOREM BinaryStays == Spec => []("together" \notin env => BinaryOnDisk)
<1>1. BinaryKept => ("together" \notin env => BinaryOnDisk)
  BY DEF BinaryKept, BinaryOnDisk
<1> QED
  BY <1>1, AlwaysControl, InitIsAlone, AloneStep, PTL DEF Spec

-------------------------------------------------------------------------------
\* The batch and its files, while the operator is orderly.

\* The manifest, the persistent directory and the source tree agree on plugin q.
AtRest(q) ==
  dirs.persist[q] = held[q] /\ dirs.src[q] = held[q] /\ dirs.backup[q] = 0

\* What is needed to undo an operation that gives q the version v.
BackedUp(q)     == dirs.backup[q] = held[q] /\ (q \in job.had <=> held[q] # 0)
Undoable(q, v)  == IF v > 0 THEN BackedUp(q)
                   ELSE dirs.persist[q] = held[q] /\ dirs.backup[q] = 0

\* The operation has been carried out and is not in the manifest yet.
Done(q, v)      == Undoable(q, v) /\ dirs.src[q] = v /\ (v > 0 => dirs.persist[q] = v)

Early == {"fetch", "backup", "persist", "source", "remove", "generate", "build", "copy",
          "discard", "retire", "place"}

\* Operation i of the batch, by the step the market is at.
Stage(i) ==
  LET m == pc["market"]  q == job.ops[i].id  v == job.ops[i].v IN
  /\ m \in Early /\ i > job.at => AtRest(q) /\ q \notin job.had
  /\ m \in Early /\ i <= job.at /\ ~(m \in {"persist", "source"} /\ i = job.at) => Done(q, v)
  /\ m \in {"persist", "source"} /\ i = job.at =>
       v > 0 /\ BackedUp(q) /\ dirs.persist[q] = (IF m = "source" THEN v ELSE 0)
  /\ m = "undo" => IF i \in job.undo THEN Undoable(q, v) ELSE AtRest(q)
  /\ m \in {"record", "strike"} /\ i <= job.at => AtRest(q)
  /\ m \in {"record", "strike"} /\ i > job.at /\ ~(m = "strike" /\ i = job.at + 1) => Done(q, v)
  /\ m = "strike" /\ i = job.at + 1 =>
       v = 0 /\ dirs.persist[q] = 0 /\ dirs.src[q] = 0 /\ dirs.backup[q] = 0

\* Every operation is at its stage and the plugins no operation names are at rest.
Staged ==
  /\ \A i \in DOMAIN job.ops : Stage(i)
  /\ \A q \in Plugins : (\/ pc["market"] \in {"idle", "restart"}
                         \/ \A i \in DOMAIN job.ops : job.ops[i].id # q) => AtRest(q)

\* Where the market can be.
Paced ==
  LET m == pc["market"] IN
  /\ m \in Early \cup {"idle", "undo", "record", "strike", "restart"}
  /\ pc["update"] \in {"idle", "pull", "list", "replay", "build", "copy", "discard", "retire",
                       "place", "restart"}
  /\ m # "idle" => job.kind = "batch"
  /\ m \in {"generate", "build", "copy", "discard", "retire", "place"} => job.at = Len(job.ops)
  /\ m = "backup" => Upcoming.v > 0
  /\ m = "remove" => Upcoming.v = 0

\* What the files hold: the build in preparation is the source tree, and the binary in use
\* is the one of the manifest until the batch is recorded.
Filed ==
  /\ \A t \in Tasks :
       /\ pc[t] = "build" => registry = InSource
       /\ pc[t] = "copy" => Has("built") /\ files["built"] = dirs.src
       /\ pc[t] \in {"discard", "retire", "place"} => Has("new") /\ files["new"] = dirs.src
       /\ pc[t] = "place" => files["old"] = held
  /\ (\A t \in Tasks : pc[t] # "place") =>
       files["exe"] = IF pc["market"] \in {"record", "strike"} THEN dirs.src ELSE held

\* As long as writing it never fails, the manifest names what the batches have left.
Told == Orderly /\ env \cap {"record", "strike"} = {} => ListedAsHeld

Tidy == Orderly => Staged /\ Paced /\ Filed
Inv == Control /\ Alone /\ BinaryKept /\ Tidy /\ Told

Tame == Control /\ Alone /\ BinaryKept /\ Orderly /\ Staged /\ Paced /\ Filed

LEMMA TameFacts ==
  ASSUME Tame
  PROVE  /\ Len(job.ops) \in Nat /\ job.at \in Nat /\ job.at \in 0..Len(job.ops)
         /\ DOMAIN job.ops = 1..Len(job.ops) /\ job.undo \subseteq 1..Len(job.ops)
         /\ \A i \in 1..Len(job.ops) :
              job.ops[i].id \in Plugins /\ job.ops[i].v \in Versions /\ job.ops[i].v \in Nat
         /\ \A i, j \in 1..Len(job.ops) : i # j => job.ops[i].id # job.ops[j].id
         /\ Tasks = {"market", "update"} /\ pc \in [Tasks -> PCs]
         /\ pc["market"] = "idle" \/ pc["update"] = "idle"
         /\ (\A t \in Tasks : pc[t] # "place") => Has("exe")
         /\ (\E t \in Tasks : pc[t] = "place") => Has("old")
         /\ dirs \in DirTypes /\ FilesOK(files) /\ held \in Contents
         /\ {"together", "rollbacks", "reboots", "undo", "drop", "replay"} \cap env = {}
         /\ JobTypes
<1>1. JobTypes /\ DataTypes
  BY ControlParts DEF Tame
<1>2. Versions \subseteq Nat
  BY MarketplaceAssumption DEF MarketplaceAssumption, Versions
<1>3. /\ \A i \in 1..Len(job.ops) : job.ops[i] \in [id : Plugins, v : Versions]
      /\ Len(job.ops) \in Nat /\ DOMAIN job.ops = 1..Len(job.ops)
      /\ \A i, j \in 1..Len(job.ops) : i < j => job.ops[i].id # job.ops[j].id
  BY <1>1, BatchesAreLists DEF JobTypes, Jobs
<1>4. \A i, j \in 1..Len(job.ops) : i # j => job.ops[i].id # job.ops[j].id
  BY <1>3
<1>5. dirs \in DirTypes /\ FilesOK(files)
  BY <1>1 DEF DataTypes, DirTypes, FilesOK
<1>6. held \in Contents
  BY <1>1 DEF DataTypes
<1>7. /\ "together" \notin env
      /\ {"together", "rollbacks", "reboots", "undo", "drop", "replay"} \cap env = {}
  BY DEF Tame, Orderly
<1>8. job.at \in 0..Len(job.ops) /\ job.undo \subseteq 1..Len(job.ops)
  BY <1>1, <1>3 DEF JobTypes, Jobs
<1>9. /\ pc["market"] = "idle" \/ pc["update"] = "idle"
      /\ (\A t \in Tasks : pc[t] # "place") => Has("exe")
      /\ (\E t \in Tasks : pc[t] = "place") => Has("old")
  BY <1>7 DEF Tame, Alone, BinaryKept
<1>10. pc \in [Tasks -> PCs] /\ Tasks = {"market", "update"} /\ job.at \in Nat
  BY <1>1 DEF JobTypes, Tasks, Jobs
<1>11. \A i \in 1..Len(job.ops) :
         job.ops[i].id \in Plugins /\ job.ops[i].v \in Versions /\ job.ops[i].v \in Nat
  BY <1>2, <1>3
<1> QED
  BY <1>1, <1>3, <1>4, <1>5, <1>6, <1>7, <1>8, <1>9, <1>10, <1>11

\* A pipeline that runs is the only one.
LEMMA Single ==
  ASSUME Tame, NEW t \in Tasks, pc[t] # "idle"
  PROVE  \A u \in Tasks : u # t => pc[u] = "idle"
BY TameFacts

\* File m stays as it is.
Keeps(m) == (Has(m)' <=> Has(m)) /\ (Has(m) => files'[m] = files[m])

LEMMA KeepsAll == ASSUME files' = files PROVE \A m : Keeps(m)
BY DEF Keeps, Has

LEMMA PutKeeps ==
  ASSUME NEW n, NEW c, files' = Put(n, c)
  PROVE  Has(n)' /\ files'[n] = c /\ \A m : m # n => Keeps(m)
BY DEF Put, With, Has, Keeps

LEMMA WithoutKeeps ==
  ASSUME NEW n, files' = Without(n)
  PROVE  \A m : m # n => Keeps(m)
BY DEF Without, Has, Keeps

LEMMA RenameKeeps ==
  ASSUME NEW a, NEW b, Has(a), a # b, files' = Rename(a, b)
  PROVE  Has(b)' /\ files'[b] = files[a] /\ \A m : m \notin {a, b} => Keeps(m)
BY DEF Rename, Without, With, Has, Keeps

LEMMA SaveKeeps ==
  ASSUME NEW c, NEW S, Save(c, S)
  PROVE  Keeps("exe")
BY DEF Save, MovedAway, Rename, Without, With, Has, Keeps

\* Only the operations that record a batch change what it leaves, and the manifest.
LEMMA HeldStays ==
  ASSUME Acts, ~Record, ~Strike PROVE held' = held
<1>1. CASE Operator
  BY <1>1 DEF Operator, StartBatch, StartRollback, StartUpdate, Begin
<1>2. CASE Market
  BY <1>2 DEF Market, Fetch, Backup, WritePersistent, WriteSource, ReplaceDir, RemoveSource,
    Undo, Undone, Generate, DropCopy, Recorded, Restore
<1>3. CASE Update \/ Reboot
  BY <1>3 DEF Update, Pull, List, Replay, Register, Reboot
<1>4. ASSUME NEW t \in Tasks, Both(t) PROVE held' = held
  BY <1>4 DEF Both, Build, Copy, Discard, Retire, Place, Restart
<1> QED
  BY <1>1, <1>2, <1>3, <1>4 DEF Acts

LEMMA HeldKept ==
  ASSUME Acts, pc["market"] \notin {"record", "strike"} PROVE held' = held
BY HeldStays DEF Record, Strike

LEMMA ManifestStays ==
  ASSUME Acts, ~Record, ~Strike, ~Restore
  PROVE  OnFile' = OnFile /\ listed' \in {listed, OnFile}
<1>0. Keeps("manifest") => OnFile' = OnFile
  BY DEF Keeps, OnFile, Has
<1>1. CASE Operator
  BY <1>0, <1>1, KeepsAll DEF Operator, StartBatch, StartRollback, StartUpdate, Begin
<1>2. CASE Market
  <2>1. files' = files /\ listed' = listed
    BY <1>2 DEF Market, Fetch, Backup, WritePersistent, WriteSource, ReplaceDir, RemoveSource,
      Undo, Undone, Generate, DropCopy, Recorded
  <2> QED
    BY <1>0, <2>1, KeepsAll
<1>3. CASE Update \/ Reboot
  BY <1>0, <1>3, KeepsAll DEF Update, Pull, List, Replay, Register, Reboot, Reset
<1>4. ASSUME NEW t \in Tasks, Both(t) PROVE Keeps("manifest") /\ listed' \in {listed, OnFile}
  <2>1. ASSUME files' = files PROVE Keeps("manifest")
    BY <2>1, KeepsAll
  <2>2. ASSUME NEW n \in {"built", "new"}, NEW c, files' = Put(n, c) PROVE Keeps("manifest")
    BY <2>2, PutKeeps
  <2>3. ASSUME NEW n \in {"old", "new"}, files' = Without(n) PROVE Keeps("manifest")
    BY <2>3, WithoutKeeps
  <2>4. ASSUME \/ Has("exe") /\ files' = Rename("exe", "old")
               \/ Has("new") /\ files' = Rename("new", "exe")
               \/ Has("old") /\ files' = Rename("old", "exe")
        PROVE  Keeps("manifest")
    BY <2>4, RenameKeeps
  <2>5. CASE Build(t)
    BY <2>1, <2>2, <2>5, KeepsAll DEF Build
  <2>6. CASE Copy(t)
    BY <2>1, <2>2, <2>6, KeepsAll DEF Copy
  <2>7. CASE Discard(t) \/ Retire(t)
    BY <2>3, <2>4, <2>7 DEF Discard, Retire
  <2>8. CASE Place(t) \/ Restart(t)
    BY <2>1, <2>4, <2>8, KeepsAll DEF Place, Restart, Reset
  <2> QED
    BY <1>4, <2>5, <2>6, <2>7, <2>8 DEF Both
<1> QED
  BY <1>0, <1>1, <1>2, <1>3, <1>4 DEF Acts

LEMMA ToldStep ==
  ASSUME Tame, Acts, Told PROVE Told'
<1>1. env' = env
  BY DEF Acts
<1> SUFFICES ASSUME Orderly, env \cap {"record", "strike"} = {} PROVE ListedAsHeld'
  BY <1>1 DEF Told, Orderly
<1>2. listed = held /\ OnFile = held
  BY DEF Told, ListedAsHeld
<1>3. ASSUME NEW c, NEW S, Save(c, S), ~MayFail("market") PROVE listed' = c /\ OnFile' = c
  BY <1>3 DEF Save, OnFile, With, Has
<1>4. CASE Record
  BY <1>2, <1>3, <1>4 DEF Record, MayFail, ListedAsHeld
<1>5. CASE Strike
  BY <1>2, <1>3, <1>5 DEF Strike, MayFail, ListedAsHeld
<1>6. ~Restore
  BY DEF Restore, Tame, Paced, Early
<1>7. CASE ~Record /\ ~Strike
  BY <1>2, <1>6, <1>7, HeldStays, ManifestStays DEF ListedAsHeld
<1> QED
  BY <1>4, <1>5, <1>7

-------------------------------------------------------------------------------
\* Where the pipelines can be: Paced is kept.

LEMMA PacedIdle ==
  ASSUME pc'["market"] = "idle",
         pc'["update"] \in {"idle", "pull", "list", "replay", "build", "copy", "discard",
                            "retire", "place", "restart"}
  PROVE  Paced'
BY DEF Paced, Early

LEMMA PacedMarket ==
  ASSUME Tame, NEW l \in Early \cup {"undo", "record", "strike", "restart"},
         pc["market"] # "idle", pc' = [pc EXCEPT !["market"] = l],
         job'.kind = job.kind, job'.ops = job.ops,
         l \in {"generate", "build", "copy", "discard", "retire", "place"}
           => job'.at = Len(job.ops),
         l = "backup" => job.ops[job'.at + 1].v > 0,
         l = "remove" => job.ops[job'.at + 1].v = 0
  PROVE  Paced'
<1>1. pc'["market"] = l /\ pc'["update"] = pc["update"]
  BY TameFacts
<1>2. pc["update"] = "idle" /\ job.kind = "batch"
  BY TameFacts DEF Tame, Paced
<1> QED
  BY <1>1, <1>2 DEF Paced, Upcoming

LEMMA PacedFails ==
  ASSUME Tame, NEW k \in 0..Len(job.ops), FailAfter("market", k), pc["market"] # "idle"
  PROVE  Paced'
<1>1. CASE k > 0
  <2>1. /\ pc' = [pc EXCEPT !["market"] = "undo"]
        /\ job' = [job EXCEPT !.at = k, !.undo = 1..k]
    BY <1>1 DEF FailAfter, Goto
  <2>2. job'.kind = job.kind /\ job'.ops = job.ops
    BY <2>1, TameFacts DEF JobTypes
  <2> QED
    BY <2>1, <2>2, PacedMarket
<1>2. CASE ~(k > 0)
  <2>1. pc' = [pc EXCEPT !["market"] = "idle"]
    BY <1>2 DEF FailAfter, Goto
  <2>2. pc'["market"] = "idle" /\ pc'["update"] = "idle"
    BY <2>1, TameFacts
  <2> QED
    BY <2>2, PacedIdle
<1> QED
  BY <1>1, <1>2

\* Going on after k operations.
LEMMA PacedAfter ==
  ASSUME Tame, NEW k \in 0..Len(job.ops), Goto("market", After(k)), pc["market"] # "idle",
         job'.kind = job.kind, job'.ops = job.ops, job'.at = k
  PROVE  Paced'
<1>1. /\ After(k) \in {"generate", "backup", "remove"}
      /\ After(k) = "generate" <=> k = Len(job.ops)
      /\ After(k) = "backup" => k < Len(job.ops) /\ job.ops[k + 1].v > 0
      /\ After(k) = "remove" => k < Len(job.ops) /\ ~(job.ops[k + 1].v > 0)
  BY AfterIsRight, TameFacts
<1>2. After(k) = "remove" => job.ops[k + 1].v = 0
  <2>1. k < Len(job.ops) => k + 1 \in 1..Len(job.ops)
    BY TameFacts
  <2>2. k < Len(job.ops) => job.ops[k + 1].v \in Nat
    BY <2>1, TameFacts
  <2> QED
    BY <1>1, <2>2
<1>3. After(k) \in Early
  BY <1>1 DEF Early
<1> QED
  BY <1>1, <1>2, <1>3, PacedMarket DEF Goto

LEMMA PacedStep ==
  ASSUME Tame, Acts PROVE Paced'
<1>0. /\ pc \in [Tasks -> PCs] /\ Tasks = {"market", "update"}
      /\ pc["market"] = "idle" \/ pc["update"] = "idle"
      /\ Len(job.ops) \in Nat /\ job.at \in 0..Len(job.ops) /\ job.at \in Nat
      /\ 0 \in 0..Len(job.ops)
      /\ {"together", "rollbacks", "reboots", "undo", "drop", "replay"} \cap env = {}
  BY TameFacts
<1>1. ASSUME NEW k \in 0..Len(job.ops), FailAfter("market", k), pc["market"] # "idle" PROVE Paced'
  BY <1>1, PacedFails
<1>2. ASSUME Fail("market"), pc["market"] # "idle" PROVE Paced'
  BY <1>0, <1>1, <1>2 DEF Fail
<1>3. ASSUME NEW l \in {"idle", "pull", "list", "replay", "build", "copy", "discard",
                        "retire", "place", "restart"},
             pc["update"] # "idle" \/ pc["market"] = "idle",
             pc' = [pc EXCEPT !["update"] = l] \/ (pc' = pc /\ pc["update"] = l)
      PROVE  Paced'
  BY <1>0, <1>3, PacedIdle
<1>4. ASSUME pc["market"] = "idle" \/ pc["update"] = "idle", pc["market"] # "idle",
             pc' = [pc EXCEPT !["market"] = "idle"]
      PROVE  Paced'
  BY <1>0, <1>4, PacedIdle
<1>5. CASE Operator
  <2>1. ASSUME NEW b \in Batches, StartBatch(b) PROVE Paced'
    <3>1. /\ pc' = [pc EXCEPT !["market"] = "fetch"] /\ pc["update"] = "idle"
          /\ job' = [NoJob EXCEPT !.kind = "batch", !.ops = b]
      BY <1>0, <2>1 DEF StartBatch, Begin, Goto
    <3>2. job'.kind = "batch" /\ pc'["market"] = "fetch" /\ pc'["update"] = "idle"
      BY <1>0, <3>1 DEF NoJob
    <3> QED
      BY <3>2 DEF Paced, Early
  <2>2. CASE StartUpdate
    <3>1. pc["market"] = "idle" /\ pc' = [pc EXCEPT !["update"] = "pull"]
      BY <1>0, <2>2 DEF StartUpdate, Begin, Goto
    <3> QED
      BY <1>3, <3>1
  <2> QED
    BY <1>0, <1>5, <2>1, <2>2 DEF Operator, StartRollback
<1>6. CASE Market
  <2>1. CASE Fetch
    <3>1. job.at = 0
      BY <2>1, TameFacts DEF Fetch, JobTypes, AtIsRight
    <3> QED
      BY <1>0, <1>2, <2>1, <3>1, PacedAfter DEF Fetch
  <2>2. CASE Backup
    <3>1. ASSUME Goto("market", "persist"), job'.kind = job.kind, job'.ops = job.ops PROVE Paced'
      BY <2>2, <3>1, PacedMarket DEF Backup, Goto, Early
    <3>2. \/ job' = [job EXCEPT !.at = @ + 1] /\ Goto("market", "persist")
          \/ /\ job' = [job EXCEPT !.at = @ + 1, !.had = @ \cup {Upcoming.id}]
             /\ Goto("market", "persist")
          \/ Fail("market")
      BY <2>2 DEF Backup
    <3>3. \/ Goto("market", "persist") => (job'.kind = job.kind /\ job'.ops = job.ops)
          \/ Fail("market")
      BY <3>2, TameFacts DEF JobTypes, Jobs
    <3> QED
      BY <1>2, <2>2, <3>1, <3>2, <3>3 DEF Backup
  <2>3. CASE WritePersistent
    <3>1. CASE Goto("market", "source") /\ UNCHANGED job
      BY <2>3, <3>1, PacedMarket DEF WritePersistent, ReplaceDir, Goto, Early
    <3> QED
      BY <1>2, <2>3, <3>1 DEF WritePersistent, ReplaceDir
  <2>4. CASE WriteSource
    BY <1>0, <1>2, <2>4, PacedAfter DEF WriteSource, ReplaceDir
  <2>5. CASE RemoveSource
    <3>1. job.at + 1 \in 0..Len(job.ops)
      BY <1>0, <2>5, TameFacts DEF RemoveSource, JobTypes, AtIsRight
    <3>2. CASE Goto("market", After(job.at + 1)) /\ job' = [job EXCEPT !.at = @ + 1]
      <4>1. job'.kind = job.kind /\ job'.ops = job.ops /\ job'.at = job.at + 1
        BY <3>2, TameFacts DEF JobTypes
      <4> QED
        BY <2>5, <3>1, <3>2, <4>1, PacedAfter DEF RemoveSource
    <3> QED
      BY <1>1, <2>5, <3>1, <3>2 DEF RemoveSource
  <2>6. CASE Undo
    <3>1. PICK i \in job.undo : job' = [job EXCEPT !.undo = @ \ {i}]
      BY <2>6 DEF Undo
    <3>2. job'.kind = job.kind /\ job'.ops = job.ops
      BY <3>1, TameFacts DEF JobTypes
    <3>3. pc' = [pc EXCEPT !["market"] = "undo"] /\ pc["market"] # "idle"
      BY <1>0, <2>6 DEF Undo
    <3> QED
      BY <3>2, <3>3, PacedMarket
  <2>7. CASE Undone
    BY <1>0, <1>4, <2>7 DEF Undone, Goto
  <2>8. CASE Generate
    <3>1. job.at = Len(job.ops)
      BY <2>8 DEF Generate, Tame, Paced
    <3>2. CASE Goto("market", "build") /\ UNCHANGED job
      BY <2>8, <3>1, <3>2, PacedMarket DEF Generate, Goto, Early
    <3> QED
      BY <1>2, <2>8, <3>2 DEF Generate
  <2>9. CASE Record
    <3>1. job'.kind = job.kind /\ job'.ops = job.ops
      BY <2>9, TameFacts DEF Record, JobTypes
    <3>2. pc' = [pc EXCEPT !["market"] = "record"] /\ pc["market"] # "idle"
      BY <1>0, <2>9 DEF Record
    <3> QED
      BY <3>1, <3>2, PacedMarket
  <2>10. CASE DropCopy \/ Recorded
    <3>1. PICK l \in {"strike", "restart"} : pc' = [pc EXCEPT !["market"] = l]
      BY <2>10 DEF DropCopy, Removing, Recorded, Goto
    <3>2. job' = job /\ pc["market"] = "record"
      BY <2>10 DEF DropCopy, Removing, Recorded
    <3> QED
      BY <3>1, <3>2, PacedMarket
  <2>11. CASE Strike
    <3>1. job'.kind = job.kind /\ job'.ops = job.ops
      BY <2>11, TameFacts DEF Strike, JobTypes
    <3> QED
      BY <2>11, <3>1, PacedMarket DEF Strike, Goto
  <2>12. ~Restore
    BY DEF Restore, Tame, Paced, Early
  <2> QED
    BY <1>6, <2>1, <2>2, <2>3, <2>4, <2>5, <2>6, <2>7, <2>8, <2>9, <2>10, <2>11, <2>12 DEF Market
<1>7. CASE Update
  BY <1>3, <1>7 DEF Update, Pull, List, Replay, Register, Goto
<1>8. CASE Both("update")
  <2>1. ASSUME Fail("update") PROVE pc' = [pc EXCEPT !["update"] = "idle"]
    BY <2>1 DEF Fail, FailAfter, Goto
  <2>2. CASE Build("update") \/ Copy("update") \/ Discard("update") \/ Retire("update")
    BY <1>3, <2>1, <2>2 DEF Build, Copy, Discard, Retire, Goto
  <2>3. CASE Place("update")
    BY <1>3, <2>1, <2>3 DEF Place, Swapped, Goto
  <2>4. CASE Restart("update")
    <3>1. CASE Reset
      BY <1>0, <3>1, PacedIdle DEF Reset
    <3> QED
      BY <1>3, <2>4, <3>1 DEF Restart, Goto
  <2> QED
    BY <1>8, <2>2, <2>3, <2>4 DEF Both
<1>9. CASE Both("market")
  <2>1. CASE Build("market") \/ Copy("market") \/ Discard("market") \/ Retire("market")
    <3>1. ASSUME NEW l \in {"copy", "discard", "retire", "place"}, Goto("market", l), job' = job
          PROVE  Paced'
      <4>1. job.at = Len(job.ops) /\ pc["market"] # "idle"
        BY <2>1 DEF Build, Copy, Discard, Retire, Tame, Paced
      <4> QED
        BY <3>1, <4>1, PacedMarket DEF Goto, Early
    <3> QED
      BY <1>2, <2>1, <3>1 DEF Build, Copy, Discard, Retire
  <2>2. CASE Place("market")
    <3>1. CASE Swapped("market")
      <4>1. job.kind = "batch"
        BY <2>2 DEF Place, Tame, Paced
      <4>2. pc' = [pc EXCEPT !["market"] = "record"] /\ job' = [job EXCEPT !.at = 0]
        BY <3>1, <4>1 DEF Swapped, Goto
      <4>3. job'.kind = job.kind /\ job'.ops = job.ops
        BY <4>2, TameFacts DEF JobTypes
      <4> QED
        BY <2>2, <4>2, <4>3, PacedMarket DEF Place
    <3> QED
      BY <1>2, <2>2, <3>1 DEF Place
  <2>3. CASE Restart("market")
    <3>1. CASE Reset
      BY <1>0, <3>1, PacedIdle DEF Reset
    <3> QED
      BY <1>0, <1>4, <2>3, <3>1 DEF Restart, Goto
  <2> QED
    BY <1>9, <2>1, <2>2, <2>3 DEF Both
<1>10. ~Reboot
  BY <1>0 DEF Reboot
<1> QED
  BY <1>0, <1>5, <1>6, <1>7, <1>8, <1>9, <1>10 DEF Acts

-------------------------------------------------------------------------------
\* What the files hold: Filed is kept.

Exchanging == {"build", "copy", "discard", "retire", "place"}

\* With one pipeline at step l and the other one idle.
LEMMA FiledAt ==
  ASSUME Tame, NEW t \in Tasks, NEW l \in PCs, pc[t] # "idle" \/ \A u \in Tasks : pc[u] = "idle",
         pc' = [pc EXCEPT ![t] = l],
         l = "build" => registry' = InSource',
         l = "copy" => Has("built")' /\ files'["built"] = dirs'.src,
         l \in {"discard", "retire", "place"} => Has("new")' /\ files'["new"] = dirs'.src,
         l = "place" => files'["old"] = held',
         l # "place" => files'["exe"] = IF t = "market" /\ l \in {"record", "strike"}
                                        THEN dirs'.src ELSE held'
  PROVE  Filed'
<1>1. \A u \in Tasks : u # t => pc[u] = "idle"
  BY Single
<1>2. pc'[t] = l /\ \A u \in Tasks : u # t => pc'[u] = "idle"
  BY <1>1, TameFacts
<1>3. pc'["market"] \in {"record", "strike"} <=> t = "market" /\ l \in {"record", "strike"}
  BY <1>2, TameFacts
<1>4. \A u \in Tasks :
        /\ pc'[u] = "build" => registry' = InSource'
        /\ pc'[u] = "copy" => Has("built")' /\ files'["built"] = dirs'.src
        /\ pc'[u] \in {"discard", "retire", "place"} => Has("new")' /\ files'["new"] = dirs'.src
        /\ pc'[u] = "place" => files'["old"] = held'
  <2> TAKE u \in Tasks
  <2>1. CASE u = t
    BY <1>2, <2>1
  <2>2. CASE u # t
    BY <1>2, <2>2
  <2> QED
    BY <2>1, <2>2
<1>5. (\A u \in Tasks : pc'[u] # "place") =>
        files'["exe"] = IF pc'["market"] \in {"record", "strike"} THEN dirs'.src ELSE held'
  BY <1>2, <1>3
<1> QED
  BY <1>4, <1>5 DEF Filed

\* The binary in use stays.
LEMMA ExeStays ==
  ASSUME Tame, NEW t \in Tasks, pc[t] \notin {"place", "record", "strike"}, Keeps("exe"),
         pc[t] # "idle" \/ \A u \in Tasks : pc[u] = "idle",
         held' = held
  PROVE  files'["exe"] = held'
<1>1. \A u \in Tasks : u # t => pc[u] = "idle"
  BY Single
<1>2. (\A u \in Tasks : pc[u] # "place") /\ pc["market"] \notin {"record", "strike"}
  BY <1>1, TameFacts
<1>3. Has("exe") /\ files["exe"] = held
  BY <1>2, TameFacts DEF Tame, Filed
<1> QED
  BY <1>3 DEF Keeps

\* A step that leaves the binary and the exchange alone.
LEMMA FiledCalm ==
  ASSUME Tame, NEW t \in Tasks, pc[t] \notin {"place", "record", "strike"}, Keeps("exe"),
         pc[t] # "idle" \/ \A u \in Tasks : pc[u] = "idle",
         held' = held,
         NEW l \in PCs \ (Exchanging \cup {"record", "strike"}), pc' = [pc EXCEPT ![t] = l]
  PROVE  Filed'
<1>1. files'["exe"] = held'
  BY ExeStays
<1>2. l \in PCs /\ l \notin {"build", "copy", "discard", "retire", "place", "record", "strike"}
  BY DEF Exchanging
<1> QED
  BY <1>1, <1>2, FiledAt

LEMMA FiledFails ==
  ASSUME Tame, NEW t \in Tasks, NEW k, FailAfter(t, k),
         pc[t] \notin {"idle", "place", "record", "strike"},
         Keeps("exe"), held' = held
  PROVE  Filed'
<1>1. \E l \in {"undo", "idle"} : pc' = [pc EXCEPT ![t] = l]
  BY DEF FailAfter, Goto
<1>2. {"undo", "idle"} \subseteq PCs \ (Exchanging \cup {"record", "strike"})
  BY DEF PCs, Exchanging
<1> QED
  BY <1>1, <1>2, FiledCalm

\* When every plugin is at rest, the source tree is the manifest.
LEMMA RestIsHeld ==
  ASSUME Tame, \A q \in Plugins : AtRest(q)
  PROVE  dirs.src = held
<1>1. dirs.src \in [Plugins -> Versions] /\ held \in [Plugins -> Versions]
  BY TameFacts DEF DirTypes, Contents
<1> QED
  BY <1>1 DEF AtRest

\* When the batch is recorded, every plugin is at rest.
LEMMA RecordedIsAtRest ==
  ASSUME Tame, pc["market"] = "record", job.at = Len(job.ops)
  PROVE  \A q \in Plugins : AtRest(q)
<1> TAKE q \in Plugins
<1>1. CASE \A i \in DOMAIN job.ops : job.ops[i].id # q
  BY <1>1 DEF Tame, Staged
<1>2. ASSUME NEW i \in DOMAIN job.ops, job.ops[i].id = q PROVE AtRest(q)
  <2>1. Stage(i) /\ i <= job.at
    BY <1>2, TameFacts DEF Tame, Staged
  <2> QED
    BY <1>2, <2>1 DEF Stage
<1> QED
  BY <1>1, <1>2

LEMMA FiledMarket ==
  ASSUME Tame, Acts, Market PROVE Filed'
<1>0. /\ pc \in [Tasks -> PCs] /\ Tasks = {"market", "update"} /\ "market" \in Tasks
  BY TameFacts
<1>1. ASSUME NEW l \in PCs \ (Exchanging \cup {"record", "strike"}), Goto("market", l),
             pc["market"] \notin {"idle", "place", "record", "strike"}, files' = files
      PROVE  Filed'
  BY <1>0, <1>1, FiledCalm, KeepsAll, HeldKept DEF Goto
<1>2. ASSUME NEW k, FailAfter("market", k),
             pc["market"] \notin {"idle", "place", "record", "strike"},
             files' = files
      PROVE  Filed'
  BY <1>0, <1>2, FiledFails, KeepsAll, HeldKept
<1>3. PCs \ (Exchanging \cup {"record", "strike"}) =
        {"idle", "fetch", "backup", "persist", "source", "remove", "undo", "generate", "pull",
         "list", "replay", "drop", "restore", "restart"}
  BY DEF PCs, Exchanging
<1>4. ASSUME NEW k \in 0..Len(job.ops), Goto("market", After(k)),
             pc["market"] \notin {"idle", "place", "record", "strike"}, files' = files
      PROVE  Filed'
  BY <1>1, <1>3, <1>4, AfterIsRight, TameFacts
<1>5. CASE Fetch
  BY <1>2, <1>4, <1>5, TameFacts DEF Fetch, Fail
<1>6. CASE Backup
  BY <1>1, <1>2, <1>3, <1>6 DEF Backup, Fail
<1>7. CASE WritePersistent
  BY <1>1, <1>2, <1>3, <1>7 DEF WritePersistent, ReplaceDir, Fail
<1>8. CASE WriteSource
  BY <1>2, <1>4, <1>8, TameFacts DEF WriteSource, ReplaceDir, Fail
<1>9. CASE RemoveSource
  <2>1. job.at + 1 \in 0..Len(job.ops)
    BY <1>9, TameFacts DEF RemoveSource, JobTypes, AtIsRight
  <2> QED
    BY <1>2, <1>4, <1>9, <2>1 DEF RemoveSource
<1>10. CASE Undo
  <2>1. Goto("market", "undo")
    BY <1>0, <1>10 DEF Undo, Goto
  <2> QED
    BY <1>1, <1>3, <1>10, <2>1 DEF Undo
<1>11. CASE Undone
  BY <1>1, <1>3, <1>11 DEF Undone
<1>12. CASE Generate
  <2>1. CASE registry' = InSource /\ Goto("market", "build") /\ UNCHANGED job
    <3>1. registry' = InSource'
      BY <1>12, <2>1 DEF Generate, InSource
    <3>2. files'["exe"] = held' /\ pc["market"] # "idle"
      BY <1>0, <1>12, ExeStays, KeepsAll DEF Generate
    <3>3. pc' = [pc EXCEPT !["market"] = "build"] /\ "build" \in PCs
      BY <2>1 DEF Goto, PCs
    <3> QED
      BY <1>0, <3>1, <3>2, <3>3, FiledAt
  <2> QED
    BY <1>2, <1>12, <2>1 DEF Generate, Fail
<1>13. CASE Record \/ Strike \/ DropCopy
  <2>1. Keeps("exe")
    BY <1>13, SaveKeeps, KeepsAll DEF Record, Strike, DropCopy, Removing
  <2>2. dirs'.src = dirs.src
    <3>1. ASSUME NEW p, NEW d \in {"persist", "backup"}, PutDir(d, p, 0)
          PROVE  dirs'.src = dirs.src
      BY <3>1, TameFacts DEF PutDir, DirTypes
    <3> QED
      BY <1>13, <3>1 DEF Record, Strike, DropCopy, Removing
  <2>3. PICK l \in {"record", "strike"} : pc' = [pc EXCEPT !["market"] = l]
    BY <1>0, <1>13 DEF Record, Strike, DropCopy, Removing, Goto
  <2>4. pc["market"] \in {"record", "strike"}
    BY <1>13 DEF Record, Strike, DropCopy, Removing
  <2>5. \A u \in Tasks : pc[u] # "place"
    BY <1>0, <2>4, TameFacts
  <2>6. Has("exe") /\ files["exe"] = dirs.src
    BY <2>4, <2>5, TameFacts DEF Tame, Filed
  <2>7. files'["exe"] = dirs'.src
    BY <2>1, <2>2, <2>6 DEF Keeps
  <2>8. l \in PCs
    BY DEF PCs
  <2> QED
    BY <1>0, <2>3, <2>4, <2>7, <2>8, FiledAt
<1>14. CASE Recorded
  <2>1. dirs.src = held /\ pc["market"] = "record"
    BY <1>14, RecordedIsAtRest, RestIsHeld DEF Recorded
  <2>2. \A u \in Tasks : pc[u] # "place"
    BY <1>0, <2>1, TameFacts
  <2>3. files["exe"] = held
    BY <2>1, <2>2 DEF Tame, Filed
  <2>4. files' = files /\ held' = held
    BY <1>14, KeepsAll DEF Recorded
  <2>5. pc' = [pc EXCEPT !["market"] = "restart"] /\ "restart" \in PCs
    BY <1>14 DEF Recorded, Goto, PCs
  <2> QED
    BY <1>0, <2>1, <2>3, <2>4, <2>5, FiledAt
<1>15. ~Restore
  BY DEF Restore, Tame, Paced, Early
<1> QED
  BY <1>5, <1>6, <1>7, <1>8, <1>9, <1>10, <1>11, <1>12, <1>13, <1>14, <1>15 DEF Market

LEMMA FiledUpdate ==
  ASSUME Tame, Acts, Update PROVE Filed'
<1>0. /\ pc \in [Tasks -> PCs] /\ Tasks = {"market", "update"} /\ "update" \in Tasks
      /\ files' = files /\ held' = held
      /\ pc["update"] \notin {"idle", "place", "record", "strike"}
  BY TameFacts, KeepsAll DEF Update, Pull, List, Replay, Register
<1>1. ASSUME NEW l \in PCs \ (Exchanging \cup {"record", "strike"}), Goto("update", l)
      PROVE  Filed'
  BY <1>0, <1>1, FiledCalm, KeepsAll DEF Goto
<1>2. {"list", "replay", "idle"} \subseteq PCs \ (Exchanging \cup {"record", "strike"})
  BY DEF PCs, Exchanging
<1>3. CASE Pull \/ List
  BY <1>1, <1>2, <1>3 DEF Pull, List
<1>4. CASE Replay
  <2>1. Goto("update", "replay")
    BY <1>0, <1>4 DEF Replay, Goto
  <2> QED
    BY <1>1, <1>2, <2>1
<1>5. CASE Register
  <2>1. CASE registry' = InSource /\ Goto("update", "build")
    <3>1. registry' = InSource'
      BY <1>5, <2>1 DEF Register, InSource
    <3>2. files'["exe"] = held'
      BY <1>0, ExeStays, KeepsAll
    <3>3. pc' = [pc EXCEPT !["update"] = "build"] /\ "build" \in PCs
      BY <2>1 DEF Goto, PCs
    <3> QED
      BY <1>0, <3>1, <3>2, <3>3, FiledAt
  <2> QED
    BY <1>1, <1>2, <1>5, <2>1 DEF Register
<1> QED
  BY <1>3, <1>4, <1>5 DEF Update

LEMMA FiledBoth ==
  ASSUME Tame, Acts, NEW t \in Tasks, Both(t) PROVE Filed'
<1>0. /\ pc \in [Tasks -> PCs] /\ Tasks = {"market", "update"}
      /\ dirs' = dirs /\ registry' = registry /\ InSource' = InSource
  BY TameFacts DEF Both, Build, Copy, Discard, Retire, Place, Restart, InSource
<1>1. pc[t] \notin {"idle", "record", "strike"} /\ pc["market"] \notin {"record", "strike"}
  <2>1. pc[t] \notin {"idle", "record", "strike"}
    BY DEF Both, Build, Copy, Discard, Retire, Place, Restart
  <2> QED
    BY <1>0, <2>1, Single
<1>2. held' = held
  BY <1>1, HeldKept
<1>3. ASSUME Fail(t), pc[t] # "place", Keeps("exe") PROVE Filed'
  BY <1>1, <1>2, <1>3, FiledFails DEF Fail
<1>4. pc[t] # "place" => Has("exe") /\ files["exe"] = held
  <2>1. pc[t] # "place" => \A u \in Tasks : pc[u] # "place"
    BY <1>1, Single
  <2> QED
    BY <1>1, <2>1, TameFacts DEF Tame, Filed
<1>5. pc[t] # "place" /\ Keeps("exe") => files'["exe"] = held'
  BY <1>2, <1>4 DEF Keeps
<1>6. {"copy", "discard", "retire", "place", "restart", "record", "idle"} \subseteq PCs
  BY DEF PCs
<1>7. CASE Build(t)
  <2>1. CASE /\ files' = Put("built", [p \in Plugins |->
                                        IF p \in registry THEN dirs.src[p] ELSE 0])
             /\ Goto(t, "copy")
    <3>1. registry = InSource /\ dirs.src \in [Plugins -> Versions]
      BY <1>7, TameFacts DEF Build, Tame, Filed, DirTypes, Contents
    <3>2. [p \in Plugins |-> IF p \in registry THEN dirs.src[p] ELSE 0] = dirs.src
      BY <3>1 DEF InSource
    <3>3. Has("built")' /\ files'["built"] = dirs'.src /\ Keeps("exe")
      BY <1>0, <2>1, <3>2, PutKeeps
    <3>4. pc' = [pc EXCEPT ![t] = "copy"] /\ pc[t] # "place"
      BY <1>7, <2>1 DEF Goto, Build
    <3> QED
      BY <1>1, <1>5, <1>6, <3>3, <3>4, FiledAt
  <2> QED
    BY <1>3, <1>7, <2>1, KeepsAll DEF Build
<1>8. CASE Copy(t)
  <2>1. CASE Has(Source(t)) /\ files' = Put("new", files[Source(t)]) /\ Goto(t, "discard")
    <3>1. Source(t) = "built"
      <4>1. t = "market" => job.kind = "batch"
        BY <1>1 DEF Tame, Paced
      <4> QED
        BY <4>1 DEF Source
    <3>2. files["built"] = dirs.src
      BY <1>8 DEF Copy, Tame, Filed
    <3>3. Has("new")' /\ files'["new"] = dirs'.src /\ Keeps("exe")
      BY <1>0, <2>1, <3>1, <3>2, PutKeeps
    <3>4. pc' = [pc EXCEPT ![t] = "discard"] /\ pc[t] # "place"
      BY <1>8, <2>1 DEF Goto, Copy
    <3> QED
      BY <1>1, <1>5, <1>6, <3>3, <3>4, FiledAt
  <2> QED
    BY <1>3, <1>8, <2>1, KeepsAll DEF Copy
<1>9. CASE Discard(t)
  <2>1. Keeps("exe") /\ Keeps("new")
    BY <1>9, WithoutKeeps DEF Discard
  <2>2. Has("new") /\ files["new"] = dirs.src
    BY <1>9 DEF Discard, Tame, Filed
  <2>3. Has("new")' /\ files'["new"] = dirs'.src
    BY <1>0, <2>1, <2>2 DEF Keeps
  <2>4. pc' = [pc EXCEPT ![t] = "retire"] /\ pc[t] # "place"
    BY <1>9 DEF Discard, Goto
  <2> QED
    BY <1>1, <1>5, <1>6, <2>1, <2>3, <2>4, FiledAt
<1>10. CASE Retire(t)
  <2>1. CASE Has("exe") /\ files' = Rename("exe", "old") /\ Goto(t, "place")
    <3>1. files'["old"] = files["exe"] /\ Keeps("new")
      BY <2>1, RenameKeeps
    <3>2. Has("new") /\ files["new"] = dirs.src /\ files["exe"] = held
      BY <1>4, <1>10 DEF Retire, Tame, Filed
    <3>3. Has("new")' /\ files'["new"] = dirs'.src /\ files'["old"] = held'
      BY <1>0, <1>2, <3>1, <3>2 DEF Keeps
    <3>4. pc' = [pc EXCEPT ![t] = "place"]
      BY <2>1 DEF Goto
    <3> QED
      BY <1>1, <1>6, <3>3, <3>4, FiledAt
  <2>2. CASE files' = Without("new") /\ Fail(t)
    BY <1>3, <1>10, <2>2, WithoutKeeps DEF Retire
  <2> QED
    BY <1>10, <2>1, <2>2 DEF Retire
<1>11. CASE Place(t)
  <2>0. /\ Has("new") /\ files["new"] = dirs.src /\ Has("old") /\ files["old"] = held
        /\ pc[t] = "place"
    BY <1>11, TameFacts DEF Place, Tame, Filed
  <2>1. CASE files' = Rename("new", "exe") /\ Swapped(t)
    <3>1. files'["exe"] = dirs'.src
      BY <1>0, <2>0, <2>1, RenameKeeps
    <3>2. CASE t = "update"
      <4>1. \A q \in Plugins : AtRest(q)
        BY <1>0, <1>1, <3>2, TameFacts DEF Tame, Staged
      <4>2. files'["exe"] = held'
        BY <1>0, <1>2, <3>1, <4>1, RestIsHeld
      <4>3. pc' = [pc EXCEPT ![t] = "restart"]
        BY <2>1, <3>2 DEF Swapped, Goto
      <4> QED
        BY <1>1, <1>6, <4>2, <4>3, FiledAt
    <3>3. CASE t = "market"
      <4>1. job.kind = "batch"
        BY <1>1, <3>3 DEF Tame, Paced
      <4>2. pc' = [pc EXCEPT ![t] = "record"]
        BY <2>1, <3>3, <4>1 DEF Swapped, Goto
      <4> QED
        BY <1>1, <1>6, <3>1, <3>3, <4>2, FiledAt
    <3> QED
      BY <1>0, <3>2, <3>3
  <2>2. CASE files' = (IF Has("old") THEN Rename("old", "exe") ELSE files) /\ Fail(t)
    <3>1. files'["exe"] = held'
      BY <1>2, <2>0, <2>2, RenameKeeps
    <3>2. PICK l \in {"undo", "idle"} : pc' = [pc EXCEPT ![t] = l]
      BY <2>2 DEF Fail, FailAfter, Goto
    <3>3. /\ l \in PCs
          /\ l \notin {"build", "copy", "discard", "retire", "place", "record", "strike"}
      BY DEF PCs
    <3> QED
      BY <1>1, <3>1, <3>2, <3>3, FiledAt
  <2> QED
    BY <1>11, <2>1, <2>2 DEF Place
<1>12. CASE Restart(t)
  <2>1. pc[t] # "place" /\ files' = files
    BY <1>12 DEF Restart
  <2>2. files'["exe"] = held'
    BY <1>5, <2>1, KeepsAll
  <2>3. CASE Reset
    <3>1. \A u \in Tasks : pc'[u] = "idle"
      BY <2>3 DEF Reset
    <3> QED
      BY <1>0, <2>2, <3>1 DEF Filed
  <2>4. CASE Goto(t, "idle")
    BY <1>1, <1>6, <2>2, <2>4, FiledAt DEF Goto
  <2> QED
    BY <1>12, <2>3, <2>4 DEF Restart
<1> QED
  BY <1>7, <1>8, <1>9, <1>10, <1>11, <1>12 DEF Both

LEMMA FiledStep == ASSUME Tame, Acts PROVE Filed'
<1>0. /\ pc \in [Tasks -> PCs] /\ Tasks = {"market", "update"}
      /\ {"together", "rollbacks", "reboots", "undo", "drop", "replay"} \cap env = {}
  BY TameFacts
<1>1. ASSUME NEW t \in Tasks, NEW l \in {"fetch", "pull"}, Begin(t, l) PROVE Filed'
  <2>1. \A u \in Tasks : pc[u] = "idle"
    BY <1>0, <1>1 DEF Begin
  <2>2. pc' = [pc EXCEPT ![t] = l] /\ files' = files /\ held' = held
    BY <1>1 DEF Begin, Goto
  <2>3. l \in PCs \ (Exchanging \cup {"record", "strike"})
    BY DEF PCs, Exchanging
  <2> QED
    BY <2>1, <2>2, <2>3, FiledCalm, KeepsAll
<1>2. CASE Operator
  BY <1>0, <1>1, <1>2 DEF Operator, StartBatch, StartRollback, StartUpdate
<1>3. ~Reboot
  BY <1>0 DEF Reboot
<1> QED
  BY <1>2, <1>3, FiledMarket, FiledUpdate, FiledBoth DEF Acts

-------------------------------------------------------------------------------
\* Every operation is at its stage: Staged is kept.

\* The step leaves everything about plugin q as it is.
Same(q) == /\ dirs'.persist[q] = dirs.persist[q] /\ dirs'.backup[q] = dirs.backup[q]
           /\ dirs'.src[q] = dirs.src[q] /\ held'[q] = held[q]
           /\ (q \in job'.had <=> q \in job.had)

LEMMA SameStays ==
  ASSUME NEW q, Same(q)
  PROVE  /\ AtRest(q) <=> AtRest(q)'
         /\ \A v \in Nat : Undoable(q, v) <=> (Undoable(q, v))'
         /\ \A v \in Nat : Done(q, v) <=> (Done(q, v))'
         /\ BackedUp(q) <=> BackedUp(q)'
<1>1. AtRest(q) <=> AtRest(q)'
  BY DEF Same, AtRest
<1>2. BackedUp(q) <=> BackedUp(q)'
  BY DEF Same, BackedUp
<1>3. ASSUME NEW v \in Nat PROVE Undoable(q, v) <=> (Undoable(q, v))'
  BY <1>2 DEF Same, Undoable
<1>4. ASSUME NEW v \in Nat PROVE Done(q, v) <=> (Done(q, v))'
  BY <1>3 DEF Same, Done
<1> QED
  BY <1>1, <1>2, <1>3, <1>4

\* At rest whatever job.had says.
LEMMA RestStays ==
  ASSUME NEW q, dirs'.persist[q] = dirs.persist[q], dirs'.backup[q] = dirs.backup[q],
         dirs'.src[q] = dirs.src[q], held'[q] = held[q]
  PROVE  AtRest(q) <=> AtRest(q)'
BY DEF AtRest

\* When the marketplace is idle or done every plugin is at rest, and so it remains.
LEMMA StagedIdle ==
  ASSUME pc'["market"] \in {"idle", "restart"}, \A q \in Plugins : AtRest(q)'
  PROVE  Staged'
BY DEF Staged, Stage, Early

\* A named plugin is named once.
LEMMA NamedOnce ==
  ASSUME Tame, NEW j \in 1..Len(job.ops), NEW i \in 1..Len(job.ops), i # j
  PROVE  job.ops[i].id \in Plugins \ {job.ops[j].id}
BY TameFacts

LEMMA UndoableAndMore ==
  /\ \A q, v : Done(q, v) => Undoable(q, v)
  /\ \A q, v : AtRest(q) /\ v = 0 => Undoable(q, v)
  /\ \A q, v : BackedUp(q) /\ v > 0 => Undoable(q, v)
BY DEF Done, Undoable, AtRest

\* A step fails after k operations: what they have done can be undone.
LEMMA StagedFails ==
  ASSUME Tame, NEW k \in 0..Len(job.ops), FailAfter("market", k),
         \A i \in 1..Len(job.ops), q \in Plugins, v \in Versions :
           q = job.ops[i].id /\ v = job.ops[i].v =>
             IF i <= k THEN (Undoable(q, v))' ELSE AtRest(q)',
         \A q \in Plugins : (\A i \in DOMAIN job.ops : job.ops[i].id # q) => AtRest(q)',
         job'.ops = job.ops \/ k = 0
  PROVE  Staged'
<1>1. CASE k > 0
  <2>1. /\ pc' = [pc EXCEPT !["market"] = "undo"]
        /\ job' = [job EXCEPT !.at = k, !.undo = 1..k]
    BY <1>1 DEF FailAfter, Goto
  <2>2. job'.undo = 1..k /\ job'.ops = job.ops /\ pc'["market"] = "undo"
    BY <2>1, TameFacts DEF JobTypes
  <2>3. ASSUME NEW i \in DOMAIN job'.ops PROVE Stage(i)'
    <3>1. i \in 1..Len(job.ops) /\ (i \in job'.undo <=> i <= k)
      BY <2>2, <2>3, TameFacts
    <3>2. PICK q \in Plugins, v \in Versions : q = job.ops[i].id /\ v = job.ops[i].v
      BY <3>1, TameFacts
    <3>3. IF i \in job'.undo THEN (Undoable(q, v))' ELSE AtRest(q)'
      BY <3>1, <3>2
    <3>4. job'.ops[i].id = q /\ job'.ops[i].v = v
      BY <2>2, <3>2
    <3> QED
      BY <2>2, <3>3, <3>4 DEF Stage, Early
  <2> QED
    BY <2>2, <2>3 DEF Staged
<1>2. CASE ~(k > 0)
  <2>1. pc' = [pc EXCEPT !["market"] = "idle"]
    BY <1>2 DEF FailAfter, Goto
  <2>2. pc'["market"] = "idle"
    BY <2>1, TameFacts
  <2>3. ASSUME NEW q \in Plugins PROVE AtRest(q)'
    <3>1. CASE \A i \in DOMAIN job.ops : job.ops[i].id # q
      BY <3>1
    <3>2. ASSUME NEW i \in DOMAIN job.ops, job.ops[i].id = q PROVE AtRest(q)'
      <4>1. i \in 1..Len(job.ops) /\ ~(i <= k)
        BY <1>2, TameFacts
      <4>2. job.ops[i].v \in Versions
        BY <4>1, TameFacts
      <4> QED
        BY <3>2, <4>1, <4>2
    <3> QED
      BY <3>1, <3>2
  <2> QED
    BY <2>2, <2>3, StagedIdle
<1> QED
  BY <1>1, <1>2

\* The plugins no operation names stay at rest.
LEMMA OthersRest ==
  ASSUME Tame, job'.ops = job.ops, pc'["market"] \notin {"idle", "restart"},
         \A q \in Plugins : (\A i \in DOMAIN job.ops : job.ops[i].id # q) => Same(q),
         \A i \in DOMAIN job'.ops : Stage(i)'
  PROVE  Staged'
<1>1. ASSUME NEW q \in Plugins, \A i \in DOMAIN job.ops : job.ops[i].id # q PROVE AtRest(q)'
  <2>1. AtRest(q)
    BY <1>1 DEF Tame, Staged
  <2> QED
    BY <1>1, <2>1, SameStays
<1> QED
  BY <1>1 DEF Staged

\* While the batch is prepared, a step carries on with operation j only.
LEMMA StagedEarly ==
  ASSUME Tame, NEW j \in 1..Len(job.ops), job'.ops = job.ops,
         \A q \in Plugins \ {job.ops[j].id} : Same(q),
         pc["market"] \in Early, pc'["market"] \in Early,
         job'.at \in Nat,
         \A i \in 1..Len(job.ops) : i # j => (i > job.at <=> i > job'.at),
         pc["market"] \in {"persist", "source"} => job.at = j,
         pc'["market"] \in {"persist", "source"} => job'.at = j,
         Stage(j)'
  PROVE  Staged'
<1>1. ASSUME NEW i \in DOMAIN job'.ops PROVE Stage(i)'
  <2>1. CASE i = j
    BY <2>1
  <2>2. CASE i # j
    <3>1. i \in 1..Len(job.ops) /\ Stage(i)
      BY <1>1, TameFacts DEF Tame, Staged
    <3>2. PICK q \in Plugins \ {job.ops[j].id}, v \in Nat : q = job.ops[i].id /\ v = job.ops[i].v
      BY <2>2, <3>1, NamedOnce, TameFacts
    <3>3. job'.ops[i].id = q /\ job'.ops[i].v = v
      BY <3>2
    <3>4. Same(q)
      BY <3>2
    <3>5. CASE i > job.at
      <4>1. AtRest(q)' /\ q \notin job'.had
        BY <3>1, <3>2, <3>4, <3>5, SameStays DEF Stage, Same
      <4>2. ~(i <= job'.at) /\ i # job'.at /\ pc'["market"] \notin {"undo", "record", "strike"}
        BY <2>2, <3>1, <3>5 DEF Early
      <4> QED
        BY <3>3, <4>1, <4>2 DEF Stage
    <3>6. CASE ~(i > job.at)
      <4>1. i <= job.at /\ i <= job'.at /\ ~(i > job'.at)
        BY <2>2, <3>1, <3>6, TameFacts
      <4>2. Done(q, v)
        BY <2>2, <3>1, <3>2, <4>1 DEF Stage
      <4>3. (Done(q, v))'
        BY <3>2, <3>4, <4>2, SameStays
      <4>4. /\ ~(pc'["market"] \in {"persist", "source"} /\ i = job'.at)
            /\ pc'["market"] \notin {"undo", "record", "strike"}
        BY <2>2 DEF Early
      <4> QED
        BY <3>3, <4>1, <4>3, <4>4 DEF Stage
    <3> QED
      BY <3>5, <3>6
  <2> QED
    BY <2>1, <2>2
<1>2. pc'["market"] \notin {"idle", "restart"}
  BY DEF Early
<1>3. \A q \in Plugins : (\A i \in DOMAIN job.ops : job.ops[i].id # q) => Same(q)
  BY TameFacts
<1> QED
  BY <1>1, <1>2, <1>3, OthersRest

\* While it is recorded too.
LEMMA StagedRecord ==
  ASSUME Tame, NEW j \in 1..Len(job.ops), job'.ops = job.ops,
         \A q \in Plugins \ {job.ops[j].id} : Same(q),
         pc["market"] \in {"record", "strike"}, pc'["market"] \in {"record", "strike"},
         job'.at \in Nat, job.at + 1 = j,
         \A i \in 1..Len(job.ops) : i # j => (i > job.at <=> i > job'.at),
         pc'["market"] = "strike" => job'.at + 1 = j,
         Stage(j)'
  PROVE  Staged'
<1>1. ASSUME NEW i \in DOMAIN job'.ops PROVE Stage(i)'
  <2>1. CASE i = j
    BY <2>1
  <2>2. CASE i # j
    <3>1. i \in 1..Len(job.ops) /\ Stage(i)
      BY <1>1, TameFacts DEF Tame, Staged
    <3>2. PICK q \in Plugins \ {job.ops[j].id}, v \in Nat : q = job.ops[i].id /\ v = job.ops[i].v
      BY <2>2, <3>1, NamedOnce, TameFacts
    <3>3. job'.ops[i].id = q /\ job'.ops[i].v = v
      BY <3>2
    <3>4. Same(q) /\ pc'["market"] \notin Early \cup {"undo"}
      BY <3>2 DEF Early
    <3>5. CASE i > job.at
      <4>1. (Done(q, v))'
        BY <2>2, <3>1, <3>2, <3>4, <3>5, SameStays DEF Stage
      <4>2. ~(i <= job'.at) /\ ~(pc'["market"] = "strike" /\ i = job'.at + 1)
        BY <2>2, <3>1, <3>5
      <4> QED
        BY <3>3, <3>4, <4>1, <4>2 DEF Stage
    <3>6. CASE ~(i > job.at)
      <4>1. i <= job.at /\ ~(i > job'.at) /\ i # job'.at + 1
        BY <2>2, <3>1, <3>6, TameFacts
      <4>2. AtRest(q)'
        BY <3>1, <3>2, <3>4, <4>1, SameStays DEF Stage
      <4> QED
        BY <3>3, <3>4, <4>1, <4>2 DEF Stage
    <3> QED
      BY <3>5, <3>6
  <2> QED
    BY <2>1, <2>2
<1>2. \A q \in Plugins : (\A i \in DOMAIN job.ops : job.ops[i].id # q) => Same(q)
  BY TameFacts
<1> QED
  BY <1>1, <1>2, OthersRest

\* A step of the market that leaves the plugins alone.
LEMMA StagedCalm ==
  ASSUME Tame, dirs' = dirs, held' = held, job' = job,
         pc["market"] \in Early \ {"persist", "source"},
         pc'["market"] \in Early \ {"persist", "source"}
  PROVE  Staged'
<1>1. \A q \in Plugins : Same(q)
  BY DEF Same
<1>2. ASSUME NEW i \in DOMAIN job'.ops PROVE Stage(i)'
  <2>1. PICK q \in Plugins, v \in Nat : q = job.ops[i].id /\ v = job.ops[i].v
    BY <1>2, TameFacts
  <2>2. Stage(i) /\ i \in 1..Len(job.ops)
    BY <1>2, TameFacts DEF Tame, Staged
  <2>3. /\ pc["market"] \in Early
        /\ pc["market"] \notin {"persist", "source", "undo", "record", "strike"}
        /\ pc'["market"] \notin {"persist", "source", "undo", "record", "strike"}
    BY DEF Early
  <2>4. CASE i > job.at
    <3>1. AtRest(q)' /\ q \notin job'.had
      BY <1>1, <2>1, <2>2, <2>3, <2>4, SameStays DEF Stage, Same
    <3> QED
      BY <2>1, <2>2, <2>3, <2>4, <3>1, TameFacts DEF Stage
  <2>5. CASE i <= job.at
    <3>1. (Done(q, v))'
      BY <1>1, <2>1, <2>2, <2>3, <2>5, SameStays DEF Stage
    <3> QED
      BY <2>1, <2>2, <2>3, <2>5, <3>1, TameFacts DEF Stage
  <2> QED
    BY <2>2, <2>4, <2>5, TameFacts
<1> QED
  BY <1>1, <1>2, OthersRest DEF Early

\* A step that fails and has moved nothing.
LEMMA StagedFailsCalm ==
  ASSUME Tame, FailAfter("market", job.at), pc["market"] \in Early,
         held' = held,
         \A q \in Plugins : /\ dirs'.backup[q] = dirs.backup[q]
                            /\ \/ dirs'.persist[q] = dirs.persist[q] /\ dirs'.src[q] = dirs.src[q]
                               \/ /\ pc["market"] \in {"persist", "source"} /\ job.at > 0
                                  /\ q = job.ops[job.at].id
  PROVE  Staged'
<1>1. job.at > 0 => job'.ops = job.ops /\ job'.had = job.had
  BY TameFacts DEF FailAfter, JobTypes, Jobs
<1>2. ASSUME NEW q \in Plugins, AtRest(q),
             ~(pc["market"] \in {"persist", "source"} /\ job.at > 0 /\ q = job.ops[job.at].id)
      PROVE  AtRest(q)'
  BY <1>2 DEF AtRest
<1>3. ASSUME NEW q \in Plugins, \A i \in DOMAIN job.ops : job.ops[i].id # q PROVE AtRest(q)'
  <2>1. AtRest(q)
    BY <1>3 DEF Tame, Staged
  <2>2. job.at > 0 => job.at \in DOMAIN job.ops
    BY TameFacts
  <2> QED
    BY <1>2, <1>3, <2>1, <2>2
<1>4. ASSUME NEW i \in 1..Len(job.ops), NEW q \in Plugins, NEW v \in Versions,
             q = job.ops[i].id, v = job.ops[i].v
      PROVE  IF i <= job.at THEN (Undoable(q, v))' ELSE AtRest(q)'
  <2>1. Stage(i) /\ v \in Nat
    BY <1>4, TameFacts DEF Tame, Staged
  <2>2. CASE i <= job.at
    <3>1. job.at > 0
      BY <2>2, TameFacts
    <3>2. Undoable(q, v)
      BY <1>4, <2>1, <2>2, UndoableAndMore DEF Stage
    <3>3. CASE pc["market"] \in {"persist", "source"} /\ i = job.at
      <4>1. v > 0 /\ BackedUp(q)
        BY <1>4, <2>1, <3>3 DEF Stage
      <4> QED
        BY <1>1, <2>2, <3>1, <4>1 DEF Undoable, BackedUp
    <3>4. CASE ~(pc["market"] \in {"persist", "source"} /\ i = job.at)
      <4>1. ~(pc["market"] \in {"persist", "source"} /\ q = job.ops[job.at].id)
        BY <1>4, <3>1, <3>4, TameFacts
      <4> QED
        BY <1>1, <2>2, <3>1, <3>2, <4>1 DEF Undoable, BackedUp
    <3> QED
      BY <3>3, <3>4
  <2>3. CASE ~(i <= job.at)
    <3>1. AtRest(q) /\ (job.at > 0 => q # job.ops[job.at].id)
      BY <1>4, <2>1, <2>3, TameFacts DEF Stage
    <3> QED
      BY <1>2, <2>3, <3>1
  <2> QED
    BY <2>2, <2>3
<1>5. job'.ops = job.ops \/ job.at = 0
  BY <1>1, TameFacts
<1> QED
  BY <1>3, <1>4, <1>5, StagedFails, TameFacts

\* What changes one plugin only.
LEMMA HavingElsewhere ==
  ASSUME dirs \in DirTypes, NEW p \in Plugins, NEW a, NEW b, NEW c, dirs' = Having(p, a, b, c)
  PROVE  /\ dirs'.persist[p] = a /\ dirs'.backup[p] = b /\ dirs'.src[p] = c
         /\ \A q \in Plugins \ {p} : /\ dirs'.persist[q] = dirs.persist[q]
                                     /\ dirs'.backup[q] = dirs.backup[q]
                                     /\ dirs'.src[q] = dirs.src[q]
BY DEF Having, DirTypes, Contents

LEMMA PutDirElsewhere ==
  ASSUME dirs \in DirTypes, NEW p \in Plugins, NEW v, NEW d \in {"persist", "backup", "src"},
         PutDir(d, p, v)
  PROVE  /\ dirs'[d][p] = v
         /\ \A e \in {"persist", "backup", "src"} : e # d => dirs'[e] = dirs[e]
         /\ \A q \in Plugins \ {p} : /\ dirs'.persist[q] = dirs.persist[q]
                                     /\ dirs'.backup[q] = dirs.backup[q]
                                     /\ dirs'.src[q] = dirs.src[q]
BY DEF PutDir, DirTypes, Contents

LEMMA StagedBackup == ASSUME Tame, Acts, Backup PROVE Staged'
<1>0. PICK j \in 1..Len(job.ops) : job.at + 1 = j
  BY TameFacts DEF Backup, JobTypes, AtIsRight
<1>1. /\ pc["market"] = "backup" /\ j > job.at /\ job.at # j /\ job.at \in Nat
      /\ DOMAIN job.ops = 1..Len(job.ops)
  BY <1>0, TameFacts DEF Backup
<1>2. PICK q \in Plugins, v \in Nat :
        q = job.ops[j].id /\ v = job.ops[j].v /\ v > 0 /\ q = Upcoming.id
  BY <1>0, <1>1, TameFacts DEF Upcoming, Tame, Paced
<1>3. held' = held /\ dirs \in DirTypes
  BY <1>1, HeldKept, TameFacts
<1>4. AtRest(q) /\ q \notin job.had
  <2>1. Stage(j)
    BY <1>1, TameFacts DEF Tame, Staged
  <2> QED
    BY <1>1, <1>2, <2>1 DEF Stage, Early
<1>5. ASSUME pc' = [pc EXCEPT !["market"] = "persist"],
             job'.ops = job.ops, job'.at = j,
             \A p \in Plugins \ {q} : Same(p),
             dirs'.persist[q] = 0, dirs'.backup[q] = held[q],
             q \in job'.had <=> held[q] # 0
      PROVE  Staged'
  <2>1. pc'["market"] = "persist" /\ "persist" \in Early
    BY <1>5, TameFacts DEF Early
  <2>2. job'.ops[j].id = q /\ job'.ops[j].v = v
    BY <1>2, <1>5
  <2>3. BackedUp(q)'
    BY <1>3, <1>5 DEF BackedUp
  <2>4. Stage(j)'
    BY <1>0, <1>2, <1>5, <2>1, <2>2, <2>3 DEF Stage
  <2>5. \A i \in 1..Len(job.ops) : i # j => (i > job.at <=> i > job'.at)
    BY <1>0, <1>1, <1>5
  <2>6. pc["market"] \in Early /\ pc["market"] \notin {"persist", "source"}
    BY <1>1 DEF Early
  <2>7. /\ job'.at \in Nat /\ job'.at = j
        /\ \A p \in Plugins \ {job.ops[j].id} : Same(p)
    BY <1>0, <1>1, <1>2, <1>5
  <2> QED
    BY <1>5, <2>1, <2>4, <2>5, <2>6, <2>7, StagedEarly
<1>6. CASE /\ dirs.persist[q] = 0 /\ dirs' = dirs
           /\ job' = [job EXCEPT !.at = @ + 1] /\ Goto("market", "persist")
  <2>1. job'.ops = job.ops /\ job'.at = j /\ job'.had = job.had
    BY <1>0, <1>6, TameFacts DEF JobTypes
  <2>2. \A p \in Plugins \ {q} : Same(p)
    BY <1>3, <1>6, <2>1 DEF Same
  <2> QED
    BY <1>4, <1>5, <1>6, <2>1, <2>2 DEF AtRest, Goto
<1>7. CASE /\ dirs.persist[q] # 0
           /\ dirs' = Having(q, 0, dirs.persist[q], dirs.src[q])
           /\ job' = [job EXCEPT !.at = @ + 1, !.had = @ \cup {q}] /\ Goto("market", "persist")
  <2>1. job'.ops = job.ops /\ job'.at = j /\ job'.had = job.had \cup {q}
    BY <1>0, <1>7, TameFacts DEF JobTypes
  <2>2. \A p \in Plugins \ {q} : Same(p)
    BY <1>2, <1>3, <1>7, <2>1, HavingElsewhere DEF Same
  <2>3. dirs'.persist[q] = 0 /\ dirs'.backup[q] = dirs.persist[q]
    BY <1>2, <1>3, <1>7, HavingElsewhere
  <2> QED
    BY <1>4, <1>5, <1>7, <2>1, <2>2, <2>3 DEF AtRest, Goto
<1>8. CASE PutDir("backup", q, 0) /\ Fail("market")
  <2>1. /\ dirs'.backup[q] = 0 /\ dirs'.persist = dirs.persist /\ dirs'.src = dirs.src
        /\ \A p \in Plugins \ {q} : dirs'.backup[p] = dirs.backup[p]
    BY <1>2, <1>3, <1>8, PutDirElsewhere
  <2>2. \A p \in Plugins : /\ dirs'.backup[p] = dirs.backup[p]
                           /\ dirs'.persist[p] = dirs.persist[p] /\ dirs'.src[p] = dirs.src[p]
    BY <1>4, <2>1 DEF AtRest
  <2>3. pc["market"] \in Early
    BY <1>1 DEF Early
  <2> QED
    BY <1>3, <1>8, <2>2, <2>3, StagedFailsCalm DEF Fail
<1> QED
  BY <1>2, <1>6, <1>7, <1>8 DEF Backup

LEMMA StagedWrite ==
  ASSUME Tame, Acts, WritePersistent \/ WriteSource PROVE Staged'
<1> DEFINE j == job.at
           q == job.ops[j].id
           v == job.ops[j].v
           d == IF pc["market"] = "persist" THEN "persist" ELSE "src"
<1>1. /\ pc["market"] \in {"persist", "source"} /\ j \in 1..Len(job.ops)
      /\ j \in Nat /\ DOMAIN job.ops = 1..Len(job.ops) /\ j > 0
  BY TameFacts DEF WritePersistent, WriteSource, ReplaceDir, JobTypes, AtIsRight
<1>2. q \in Plugins /\ v \in Nat /\ q = Doing.id /\ v = Doing.v /\ dirs \in DirTypes
  BY <1>1, TameFacts DEF Doing
<1>3. held' = held
  BY <1>1, HeldKept
<1>4. /\ v > 0 /\ BackedUp(q)
      /\ dirs.persist[q] = (IF pc["market"] = "source" THEN v ELSE 0)
  <2>1. Stage(j)
    BY <1>1, TameFacts DEF Tame, Staged
  <2> QED
    BY <1>1, <2>1 DEF Stage
<1>5. CASE \E w \in {0, v} : PutDir(d, q, w) /\ Fail("market")
  <2>1. /\ dirs'.backup = dirs.backup
        /\ \A p \in Plugins \ {q} :
             dirs'.persist[p] = dirs.persist[p] /\ dirs'.src[p] = dirs.src[p]
    <3> HIDE DEF q, v
    <3>1. d \in {"persist", "src"}
      OBVIOUS
    <3> HIDE DEF d
    <3> QED
      BY <1>2, <1>5, <3>1, PutDirElsewhere
  <2>2. pc["market"] \in Early
    BY <1>1 DEF Early
  <2> QED
    BY <1>1, <1>3, <1>5, <2>1, <2>2, StagedFailsCalm DEF Fail
<1>6. CASE PutDir(d, q, v) /\ job' = job /\ \E l \in {"source", "generate", "backup", "remove"} :
             Goto("market", l) /\ (l = "source" <=> pc["market"] = "persist")
  <2>1. PICK l \in {"source", "generate", "backup", "remove"} :
          Goto("market", l) /\ (l = "source" <=> pc["market"] = "persist")
    BY <1>6
  <2>2. /\ pc'["market"] = l /\ l \in Early /\ pc["market"] \in Early
        /\ l \notin {"persist", "undo", "record", "strike"}
    BY <1>1, <2>1, TameFacts DEF Goto, Early
  <2>3. /\ dirs'[d][q] = v /\ dirs'.backup = dirs.backup
        /\ (d = "src" => dirs'.persist = dirs.persist)
        /\ \A p \in Plugins \ {q} :
             dirs'.persist[p] = dirs.persist[p] /\ dirs'.src[p] = dirs.src[p]
    <3> HIDE DEF q, v
    <3>1. d \in {"persist", "src"}
      OBVIOUS
    <3> HIDE DEF d
    <3> QED
      BY <1>2, <1>6, <3>1, PutDirElsewhere
  <2>4. \A p \in Plugins \ {q} : Same(p)
    BY <1>3, <1>6, <2>3 DEF Same
  <2>5. BackedUp(q)'
    <3> HIDE DEF q
    <3>1. dirs'.backup[q] = held[q] /\ (q \in job.had <=> held[q] # 0)
      BY <1>4, <2>3 DEF BackedUp
    <3>2. ASSUME NEW p \in Plugins, p = q PROVE BackedUp(p)'
      BY <1>3, <1>6, <3>1, <3>2 DEF BackedUp
    <3> QED
      BY <1>2, <1>6, <3>2 DEF q
  <2>6. Stage(j)'
    <3>1. CASE l = "source"
      <4>1. dirs'.persist[q] = v
        BY <2>1, <2>3, <3>1
      <4> QED
        BY <1>1, <1>4, <1>6, <2>2, <2>5, <3>1, <4>1 DEF Stage
    <3>2. CASE l # "source"
      <4>1. dirs'.persist[q] = v /\ dirs'.src[q] = v
        BY <1>1, <1>4, <2>1, <2>3, <3>2
      <4>2. (Done(q, v))'
        BY <1>4, <1>6, <2>5, <4>1 DEF Done, Undoable
      <4> QED
        BY <1>1, <1>6, <2>2, <3>2, <4>2 DEF Stage
    <3> QED
      BY <3>1, <3>2
  <2> HIDE DEF q, v, d
  <2>7. q = job.ops[j].id
    BY DEF q
  <2> QED
    BY <1>1, <1>6, <2>2, <2>4, <2>6, <2>7, StagedEarly
<1>7. CASE WritePersistent
  BY <1>2, <1>5, <1>6, <1>7 DEF WritePersistent, ReplaceDir
<1>8. CASE WriteSource
  <2>1. After(job.at) \in {"generate", "backup", "remove"}
    BY AfterIsRight, TameFacts
  <2> QED
    BY <1>2, <1>5, <1>6, <1>8, <2>1 DEF WriteSource, ReplaceDir
<1> QED
  BY <1>7, <1>8

LEMMA StagedRemove == ASSUME Tame, Acts, RemoveSource PROVE Staged'
<1>0. PICK j \in 1..Len(job.ops) : job.at + 1 = j
  BY TameFacts DEF RemoveSource, JobTypes, AtIsRight
<1>1. /\ pc["market"] = "remove" /\ j > job.at /\ job.at # j /\ job.at \in Nat /\ j \in Nat
      /\ DOMAIN job.ops = 1..Len(job.ops) /\ j \in 0..Len(job.ops)
  BY <1>0, TameFacts DEF RemoveSource
<1>2. PICK q \in Plugins, v \in Nat :
        q = job.ops[j].id /\ v = job.ops[j].v /\ v = 0 /\ q = Upcoming.id
  BY <1>0, <1>1, TameFacts DEF Upcoming, Tame, Paced
<1>3. held' = held /\ dirs \in DirTypes
  BY <1>1, HeldKept, TameFacts
<1>4. AtRest(q)
  <2>1. Stage(j)
    BY <1>1, TameFacts DEF Tame, Staged
  <2> QED
    BY <1>1, <1>2, <2>1 DEF Stage, Early
<1>5. CASE PutDir("src", q, 0) /\ Goto("market", After(j)) /\ job' = [job EXCEPT !.at = @ + 1]
  <2>1. job'.ops = job.ops /\ job'.at = j /\ job'.had = job.had
    BY <1>0, <1>5, TameFacts DEF JobTypes
  <2>2. \A p \in Plugins \ {q} : Same(p)
    BY <1>2, <1>3, <1>5, <2>1, PutDirElsewhere DEF Same
  <2>3. PICK l \in {"generate", "backup", "remove"} : pc' = [pc EXCEPT !["market"] = l]
    BY <1>1, <1>5, AfterIsRight, TameFacts DEF Goto
  <2>4. /\ pc'["market"] = l /\ l \in Early
        /\ l \notin {"persist", "source", "undo", "record", "strike"}
        /\ pc["market"] \in Early /\ pc["market"] \notin {"persist", "source"}
    BY <1>1, <2>3, TameFacts DEF Early
  <2>5. (Done(q, v))'
    <3>1. dirs'.src[q] = 0 /\ dirs'.persist[q] = held[q] /\ dirs'.backup[q] = 0
      BY <1>2, <1>3, <1>4, <1>5, PutDirElsewhere DEF AtRest
    <3> QED
      BY <1>2, <1>3, <3>1 DEF Done, Undoable
  <2>6. job'.ops[j].id = q /\ job'.ops[j].v = v
    BY <1>2, <2>1
  <2>7. Stage(j)'
    BY <1>0, <2>1, <2>4, <2>5, <2>6 DEF Stage
  <2>8. /\ \A i \in 1..Len(job.ops) : i # j => (i > job.at <=> i > job'.at)
        /\ job'.at \in Nat /\ \A p \in Plugins \ {job.ops[j].id} : Same(p)
    BY <1>0, <1>1, <1>2, <2>1, <2>2
  <2> QED
    BY <2>1, <2>4, <2>7, <2>8, StagedEarly
<1>6. CASE \E w \in {0, dirs.src[q]} : PutDir("src", q, w) /\ FailAfter("market", j)
  <2>1. /\ dirs'.persist = dirs.persist /\ dirs'.backup = dirs.backup
        /\ \A p \in Plugins \ {q} : dirs'.src[p] = dirs.src[p]
    BY <1>2, <1>3, <1>6, PutDirElsewhere
  <2>2. job'.ops = job.ops /\ job'.had = job.had
    <3>1. j > 0
      BY <1>1
    <3>2. job' = [job EXCEPT !.at = j, !.undo = 1..j]
      BY <1>6, <3>1 DEF FailAfter
    <3> QED
      BY <3>2, TameFacts DEF JobTypes
  <2>3. \A p \in Plugins \ {q} : Same(p)
    BY <1>3, <2>1, <2>2 DEF Same
  <2>4. ASSUME NEW p \in Plugins, \A i \in DOMAIN job.ops : job.ops[i].id # p PROVE AtRest(p)'
    <3>1. AtRest(p) /\ p # q
      BY <1>0, <1>1, <1>2, <2>4 DEF Tame, Staged
    <3> QED
      BY <2>3, <3>1, SameStays
  <2>5. ASSUME NEW i \in 1..Len(job.ops), NEW p \in Plugins, NEW w \in Versions,
               p = job.ops[i].id, w = job.ops[i].v
        PROVE  IF i <= j THEN (Undoable(p, w))' ELSE AtRest(p)'
    <3>1. Stage(i) /\ w \in Nat
      BY <2>5, TameFacts DEF Tame, Staged
    <3>2. CASE i = j
      <4>1. dirs'.persist[q] = held[q] /\ dirs'.backup[q] = 0
        BY <1>4, <2>1 DEF AtRest
      <4>2. p = q /\ w = 0 /\ i <= j
        <5>1. j <= j
          BY <1>1
        <5> QED
          BY <1>2, <2>5, <3>2, <5>1, Zenon
      <4>3. dirs'.persist[p] = held'[p] /\ dirs'.backup[p] = 0 /\ ~(w > 0)
        BY <1>3, <4>1, <4>2
      <4>4. (Undoable(p, w))'
        BY <4>3 DEF Undoable
      <4> QED
        BY <4>2, <4>4
    <3>3. CASE i # j
      <4>1. Same(p)
        BY <1>2, <2>3, <2>5, <3>3, NamedOnce
      <4>2. IF i <= j THEN Done(p, w) ELSE AtRest(p)
        <5>1. pc["market"] \in Early /\ pc["market"] \notin {"persist", "source"}
          BY <1>1 DEF Early
        <5>2. IF i <= j THEN i <= job.at ELSE i > job.at
          BY <1>0, <1>1, <3>3
        <5> QED
          BY <2>5, <3>1, <5>1, <5>2 DEF Stage
      <4> QED
        BY <3>1, <4>1, <4>2, SameStays, UndoableAndMore
    <3> QED
      BY <3>2, <3>3
  <2> QED
    BY <1>1, <1>6, <2>2, <2>4, <2>5, StagedFails
<1> QED
  BY <1>0, <1>2, <1>5, <1>6 DEF RemoveSource

LEMMA StagedUndo == ASSUME Tame, Acts, Undo PROVE Staged'
<1>0. PICK j \in job.undo : dirs' = Revert(job.ops[j]) /\ job' = [job EXCEPT !.undo = @ \ {j}]
  BY TameFacts DEF Undo, MayFail
<1>1. /\ pc["market"] = "undo" /\ pc' = pc /\ j \in 1..Len(job.ops)
      /\ DOMAIN job.ops = 1..Len(job.ops)
  BY <1>0, TameFacts DEF Undo
<1>2. PICK q \in Plugins, v \in Nat : q = job.ops[j].id /\ v = job.ops[j].v
  BY <1>1, TameFacts
<1>3. held' = held /\ dirs \in DirTypes
  BY <1>1, HeldKept, TameFacts
<1>4. /\ job'.ops = job.ops /\ job'.had = job.had /\ job'.undo = job.undo \ {j}
  BY <1>0, TameFacts DEF JobTypes
<1>5. Undoable(q, v)
  <2>1. Stage(j)
    BY <1>1, TameFacts DEF Tame, Staged
  <2> QED
    BY <1>0, <1>1, <1>2, <2>1 DEF Stage
<1>6. AtRest(q)' /\ \A p \in Plugins \ {q} : Same(p)
  <2>1. CASE v = 0
    <3>1. dirs' = [dirs EXCEPT !.src[q] = dirs.persist[q]]
      BY <1>0, <1>2, <2>1 DEF Revert
    <3>2. /\ dirs'.src[q] = dirs.persist[q] /\ dirs'.persist = dirs.persist
          /\ dirs'.backup = dirs.backup /\ \A p \in Plugins \ {q} : dirs'.src[p] = dirs.src[p]
      BY <1>2, <1>3, <3>1 DEF DirTypes, Contents
    <3>3. dirs.persist[q] = held[q] /\ dirs.backup[q] = 0
      BY <1>5, <2>1 DEF Undoable
    <3> QED
      BY <1>3, <1>4, <3>2, <3>3 DEF AtRest, Same
  <2>2. CASE v # 0
    <3>1. BackedUp(q)
      BY <1>5, <2>2 DEF Undoable
    <3>0. PICK c : c = held[q]
      OBVIOUS
    <3>2. dirs' = Having(q, c, 0, c)
      <4>1. CASE q \in job.had
        BY <1>0, <1>2, <2>2, <3>0, <3>1, <4>1 DEF Revert, BackedUp
      <4>2. CASE q \notin job.had
        BY <1>0, <1>2, <2>2, <3>0, <3>1, <4>2 DEF Revert, BackedUp
      <4> QED
        BY <4>1, <4>2
    <3>3. /\ dirs'.src[q] = c /\ dirs'.persist[q] = c /\ dirs'.backup[q] = 0
          /\ \A p \in Plugins \ {q} : /\ dirs'.persist[p] = dirs.persist[p]
                                      /\ dirs'.backup[p] = dirs.backup[p]
                                      /\ dirs'.src[p] = dirs.src[p]
      BY <1>2, <1>3, <3>2, HavingElsewhere
    <3> QED
      BY <1>3, <1>4, <3>0, <3>3 DEF AtRest, Same
  <2> QED
    BY <2>1, <2>2
<1>7. ASSUME NEW i \in DOMAIN job'.ops PROVE Stage(i)'
  <2>1. i \in 1..Len(job.ops) /\ Stage(i)
    BY <1>4, <1>7, TameFacts DEF Tame, Staged
  <2>2. PICK p \in Plugins, w \in Nat : p = job.ops[i].id /\ w = job.ops[i].v
    BY <2>1, TameFacts
  <2>3. IF i \in job'.undo THEN (Undoable(p, w))' ELSE AtRest(p)'
    <3>1. CASE i = j
      BY <1>2, <1>4, <1>6, <2>2, <3>1
    <3>2. CASE i # j
      <4>1. Same(p)
        BY <1>1, <1>2, <1>6, <2>1, <2>2, <3>2, NamedOnce
      <4>2. IF i \in job.undo THEN Undoable(p, w) ELSE AtRest(p)
        BY <1>1, <2>1, <2>2 DEF Stage
      <4> QED
        BY <1>4, <2>2, <3>2, <4>1, <4>2, SameStays
    <3> QED
      BY <3>1, <3>2
  <2>4. job'.ops[i].id = p /\ job'.ops[i].v = w /\ pc'["market"] = "undo"
    BY <1>1, <1>4, <2>2
  <2> QED
    BY <2>3, <2>4 DEF Stage, Early
<1>8. \A p \in Plugins : (\A i \in DOMAIN job.ops : job.ops[i].id # p) => Same(p)
  BY <1>1, <1>2, <1>6
<1> QED
  BY <1>1, <1>4, <1>7, <1>8, OthersRest

LEMMA StagedRecording ==
  ASSUME Tame, Acts, Record \/ DropCopy \/ Strike PROVE Staged'
<1>0. PICK j \in 1..Len(job.ops) : job.at + 1 = j
  BY TameFacts DEF Record, DropCopy, Removing, Strike, JobTypes, AtIsRight
<1>1. /\ pc["market"] \in {"record", "strike"} /\ j > job.at /\ job.at # j
      /\ job.at \in Nat /\ j \in Nat /\ DOMAIN job.ops = 1..Len(job.ops)
  BY <1>0, TameFacts DEF Record, DropCopy, Removing, Strike
<1>2. PICK q \in Plugins, v \in Nat : q = job.ops[j].id /\ v = job.ops[j].v
  BY TameFacts
<1>3. dirs \in DirTypes /\ held \in Contents /\ Upcoming.id = q /\ Upcoming.v = v
      /\ Stage(j)
  BY <1>0, <1>1, <1>2, TameFacts DEF Upcoming, Tame, Staged
<1>4. ASSUME job'.ops = job.ops, \A p \in Plugins \ {q} : Same(p), job'.at = j,
             pc'["market"] = "record", AtRest(q)'
      PROVE  Staged'
  <2>1. job'.ops[j].id = q /\ job'.at \in Nat
    BY <1>1, <1>2, <1>4
  <2>2. Stage(j)'
    BY <1>1, <1>4, <2>1 DEF Stage, Early
  <2>3. \A i \in 1..Len(job.ops) : i # j => (i > job.at <=> i > job'.at)
    BY <1>0, <1>1, <1>4
  <2>4. \A p \in Plugins \ {job.ops[j].id} : Same(p)
    BY <1>2, <1>4
  <2> QED
    BY <1>0, <1>1, <1>4, <2>1, <2>2, <2>3, <2>4, StagedRecord
<1>5. CASE Record
  <2>1. /\ v > 0 /\ PutDir("backup", q, 0)
        /\ job' = [job EXCEPT !.at = @ + 1] /\ pc' = pc /\ pc["market"] = "record"
    BY <1>3, <1>5, TameFacts DEF Record
  <2>2. Done(q, v)
    BY <1>0, <1>1, <1>2, <1>3, <2>1 DEF Stage
  <2>3. job'.ops = job.ops /\ job'.at = j /\ job'.had = job.had
    BY <1>0, <2>1, TameFacts DEF JobTypes
  <2>4. held' = [held EXCEPT ![q] = v]
    BY <1>3, <1>5 DEF Record
  <2>5. held'[q] = v /\ \A p \in Plugins \ {q} : held'[p] = held[p]
    BY <1>2, <1>3, <2>4 DEF Contents
  <2>6. /\ dirs'.backup[q] = 0 /\ dirs'.persist = dirs.persist /\ dirs'.src = dirs.src
        /\ \A p \in Plugins \ {q} : dirs'.backup[p] = dirs.backup[p]
    BY <1>2, <1>3, <2>1, PutDirElsewhere
  <2>7. AtRest(q)'
    BY <2>1, <2>2, <2>5, <2>6 DEF AtRest, Done
  <2>8. \A p \in Plugins \ {q} : Same(p)
    BY <2>3, <2>5, <2>6 DEF Same
  <2> QED
    BY <1>4, <2>1, <2>3, <2>7, <2>8
<1>6. CASE DropCopy
  <2>1. /\ v = 0 /\ PutDir("persist", q, 0) /\ job' = job
        /\ pc' = [pc EXCEPT !["market"] = "strike"] /\ pc["market"] = "record"
    BY <1>3, <1>6, TameFacts DEF DropCopy, Removing, Goto
  <2>2. Done(q, v)
    BY <1>0, <1>1, <1>2, <1>3, <2>1 DEF Stage
  <2>3. held' = held /\ pc'["market"] = "strike"
    BY <1>6, <2>1, TameFacts DEF DropCopy, Removing
  <2>4. /\ dirs'.persist[q] = 0 /\ dirs'.backup = dirs.backup /\ dirs'.src = dirs.src
        /\ \A p \in Plugins \ {q} : dirs'.persist[p] = dirs.persist[p]
    BY <1>2, <1>3, <2>1, PutDirElsewhere
  <2>5. \A p \in Plugins \ {q} : Same(p)
    BY <2>1, <2>3, <2>4 DEF Same
  <2>6. dirs'.src[q] = 0 /\ dirs'.backup[q] = 0
    BY <2>1, <2>2, <2>4 DEF Done, Undoable
  <2>7. job'.ops[j].id = q /\ job'.ops[j].v = 0 /\ job'.at + 1 = j /\ j > job'.at
        /\ ~(j <= job'.at)
    <3>1. j > job.at /\ ~(j <= job.at) /\ job.at + 1 = j
      BY <1>0, <1>1
    <3>2. job.ops[j].id = q /\ job.ops[j].v = 0
      BY <1>2, <2>1, Zenon
    <3> QED
      BY <2>1, <3>1, <3>2, Zenon
  <2>8. Stage(j)'
    BY <2>3, <2>4, <2>6, <2>7 DEF Stage, Early
  <2>9. /\ job'.ops = job.ops /\ job'.at \in Nat /\ pc'["market"] \in {"record", "strike"}
        /\ \A i \in 1..Len(job.ops) : i # j => (i > job.at <=> i > job'.at)
        /\ \A p \in Plugins \ {job.ops[j].id} : Same(p)
    BY <1>1, <1>2, <2>1, <2>3, <2>5
  <2> QED
    BY <1>0, <1>1, <2>7, <2>8, <2>9, StagedRecord
<1>7. CASE Strike
  <2>1. /\ dirs' = dirs
        /\ job' = [job EXCEPT !.at = @ + 1] /\ pc["market"] = "strike"
        /\ pc' = [pc EXCEPT !["market"] = "record"]
    BY <1>3, <1>7 DEF Strike, Goto
  <2>2. dirs.persist[q] = 0 /\ dirs.src[q] = 0 /\ dirs.backup[q] = 0
    BY <1>0, <1>2, <1>3, <2>1 DEF Stage
  <2>3. job'.ops = job.ops /\ job'.at = j /\ job'.had = job.had /\ pc'["market"] = "record"
    BY <1>0, <2>1, TameFacts DEF JobTypes
  <2>4. held' = [held EXCEPT ![q] = 0]
    BY <1>3, <1>7 DEF Strike
  <2>5. held'[q] = 0 /\ \A p \in Plugins \ {q} : held'[p] = held[p]
    BY <1>2, <1>3, <2>4 DEF Contents
  <2>6. AtRest(q)'
    BY <2>1, <2>2, <2>5 DEF AtRest
  <2>7. \A p \in Plugins \ {q} : Same(p)
    BY <2>1, <2>3, <2>5 DEF Same
  <2> QED
    BY <1>4, <2>3, <2>6, <2>7
<1> QED
  BY <1>5, <1>6, <1>7

\* The steps after which every plugin is at rest.
LEMMA AllAtRest ==
  ASSUME Tame, dirs' = dirs, held' = held, pc'["market"] \in {"idle", "restart"},
         \A q \in Plugins : AtRest(q)
  PROVE  Staged'
BY StagedIdle DEF AtRest

LEMMA StagedMarket == ASSUME Tame, Acts, Market PROVE Staged'
<1>0. /\ pc \in [Tasks -> PCs] /\ Tasks = {"market", "update"} /\ "market" \in Tasks
  BY TameFacts
<1>1. ASSUME dirs' = dirs, Fail("market"), pc["market"] \in Early PROVE Staged'
  <2>1. held' = held
    BY <1>1, HeldKept DEF Early
  <2> QED
    BY <1>1, <2>1, StagedFailsCalm DEF Fail
<1>2. CASE Fetch
  <2>1. CASE Goto("market", After(0)) /\ UNCHANGED job
    <3>1. After(0) \in Early \ {"persist", "source"} /\ "fetch" \in Early \ {"persist", "source"}
      BY AfterIsRight, TameFacts DEF Early
    <3>2. held' = held
      BY <1>2, HeldKept DEF Fetch
    <3>3. pc'["market"] \in Early \ {"persist", "source"} /\ pc["market"] = "fetch"
      BY <1>0, <1>2, <2>1, <3>1 DEF Goto, Fetch
    <3> QED
      BY <1>2, <2>1, <3>1, <3>2, <3>3, StagedCalm DEF Fetch
  <2> QED
    BY <1>1, <1>2, <2>1 DEF Fetch, Early
<1>3. CASE Generate
  <2>1. CASE Goto("market", "build") /\ UNCHANGED job
    <3>1. pc'["market"] = "build" /\ pc["market"] = "generate"
      BY <1>0, <1>3, <2>1 DEF Goto, Generate
    <3>2. held' = held
      BY <3>1, HeldKept
    <3> QED
      BY <1>3, <2>1, <3>1, <3>2, StagedCalm DEF Generate, Early
  <2> QED
    BY <1>1, <1>3, <2>1 DEF Generate, Early
<1>4. CASE Undone
  <2>1. ASSUME NEW q \in Plugins PROVE AtRest(q)
    <3>1. ASSUME NEW i \in DOMAIN job.ops, job.ops[i].id = q PROVE AtRest(q)
      BY <1>4, <3>1 DEF Undone, Tame, Staged, Stage
    <3>2. CASE \A i \in DOMAIN job.ops : job.ops[i].id # q
      BY <3>2 DEF Tame, Staged
    <3> QED
      BY <3>1, <3>2
  <2>2. held' = held /\ pc'["market"] = "idle" /\ dirs' = dirs
    BY <1>0, <1>4, HeldKept DEF Undone, Goto
  <2> QED
    BY <2>1, <2>2, AllAtRest
<1>5. CASE Recorded
  <2>1. \A q \in Plugins : AtRest(q)
    BY <1>5, RecordedIsAtRest DEF Recorded
  <2>2. held' = held /\ pc'["market"] = "restart" /\ dirs' = dirs
    BY <1>0, <1>5, KeepsAll DEF Recorded, Goto
  <2> QED
    BY <2>1, <2>2, AllAtRest
<1>6. ~Restore
  BY DEF Restore, Tame, Paced, Early
<1> QED
  BY <1>2, <1>3, <1>4, <1>5, <1>6, StagedBackup, StagedWrite, StagedRemove, StagedUndo,
     StagedRecording DEF Market

LEMMA StagedUpdate ==
  ASSUME Tame, Acts, Update \/ Both("update") PROVE Staged'
<1>1. pc["update"] # "idle" /\ "update" \in Tasks
  BY TameFacts DEF Update, Pull, List, Replay, Register, Both, Build, Copy, Discard, Retire,
                   Place, Restart
<1>2. pc["market"] = "idle" /\ \A q \in Plugins : AtRest(q)
  BY <1>1, TameFacts DEF Tame, Staged
<1>3. held' = held
  BY <1>2, HeldKept
<1>4. pc'["market"] = "idle"
  <2>1. ASSUME NEW l, pc' = [pc EXCEPT !["update"] = l] PROVE pc'["market"] = "idle"
    BY <1>2, <2>1, TameFacts
  <2>2. ASSUME Fail("update") PROVE pc' = [pc EXCEPT !["update"] = "idle"]
    BY <2>2 DEF Fail, FailAfter, Goto
  <2>3. CASE Update
    BY <1>2, <2>1, <2>3 DEF Update, Pull, List, Replay, Register, Goto
  <2>4. CASE Build("update") \/ Copy("update") \/ Discard("update") \/ Retire("update")
    BY <2>1, <2>2, <2>4 DEF Build, Copy, Discard, Retire, Goto
  <2>5. CASE Place("update")
    BY <2>1, <2>2, <2>5 DEF Place, Swapped, Goto
  <2>6. CASE Restart("update")
    BY <2>1, <2>6, TameFacts DEF Restart, Reset, Goto
  <2> QED
    BY <2>3, <2>4, <2>5, <2>6 DEF Both
<1>5. \A q \in Plugins : AtRest(q)'
  <2>1. CASE dirs' = dirs
    BY <1>2, <1>3, <2>1 DEF AtRest
  <2>2. CASE Replay
    <3>1. PICK p \in left : PutDir("src", p, dirs.persist[p])
      BY <2>2, TameFacts DEF Replay, MayFail
    <3>2. p \in Plugins /\ dirs \in DirTypes
      BY ControlParts, TameFacts DEF Tame, DataTypes
    <3>3. /\ dirs'.src[p] = dirs.persist[p] /\ dirs'.persist = dirs.persist
          /\ dirs'.backup = dirs.backup /\ \A q \in Plugins \ {p} : dirs'.src[q] = dirs.src[q]
      BY <3>1, <3>2, PutDirElsewhere
    <3> QED
      BY <1>2, <1>3, <3>3 DEF AtRest
  <2> QED
    BY <2>1, <2>2 DEF Update, Pull, List, Register, Both, Build, Copy, Discard, Retire, Place,
                      Restart
<1> QED
  BY <1>4, <1>5, StagedIdle

LEMMA StagedExchange ==
  ASSUME Tame, Acts, Both("market") PROVE Staged'
<1>0. /\ pc \in [Tasks -> PCs] /\ Tasks = {"market", "update"} /\ "market" \in Tasks
      /\ dirs' = dirs
  BY TameFacts DEF Both, Build, Copy, Discard, Retire, Place, Restart
<1>1. pc["market"] \in {"build", "copy", "discard", "retire", "place", "restart"}
  BY DEF Both, Build, Copy, Discard, Retire, Place, Restart
<1>2. held' = held
  BY <1>1, HeldKept
<1>3. ASSUME Fail("market"), pc["market"] # "restart" PROVE Staged'
  BY <1>0, <1>1, <1>2, <1>3, StagedFailsCalm DEF Fail, Early
<1>4. ASSUME NEW l \in {"copy", "discard", "retire", "place"}, Goto("market", l), job' = job,
             pc["market"] # "restart"
      PROVE  Staged'
  BY <1>0, <1>1, <1>2, <1>4, StagedCalm DEF Goto, Early
<1>5. CASE Build("market") \/ Copy("market") \/ Discard("market") \/ Retire("market")
  BY <1>3, <1>4, <1>5 DEF Build, Copy, Discard, Retire
<1>6. CASE Place("market")
  <2>1. CASE Swapped("market")
    <3>1. pc["market"] = "place" /\ job.kind = "batch" /\ job.at = Len(job.ops)
      BY <1>6 DEF Place, Tame, Paced
    <3>2. pc'["market"] = "record" /\ job' = [job EXCEPT !.at = 0]
      BY <1>0, <2>1, <3>1 DEF Swapped, Goto
    <3>3. job'.ops = job.ops /\ job'.had = job.had /\ job'.at = 0
      BY <3>2, TameFacts DEF JobTypes
    <3>4. \A q \in Plugins : Same(q)
      BY <1>0, <1>2, <3>3 DEF Same
    <3>5. ASSUME NEW i \in DOMAIN job'.ops PROVE Stage(i)'
      <4>1. PICK q \in Plugins, v \in Nat : q = job.ops[i].id /\ v = job.ops[i].v
        BY <3>3, <3>5, TameFacts
      <4>2. i \in 1..Len(job.ops) /\ Stage(i) /\ i <= job.at /\ i > 0 /\ ~(i <= 0)
        BY <3>1, <3>3, <3>5, TameFacts DEF Tame, Staged
      <4>3. Done(q, v)
        BY <3>1, <4>1, <4>2 DEF Stage, Early
      <4>4. (Done(q, v))'
        BY <3>4, <4>1, <4>3, SameStays
      <4> QED
        BY <3>2, <3>3, <4>1, <4>2, <4>4 DEF Stage, Early
    <3>6. pc'["market"] \notin {"idle", "restart"}
      BY <3>2
    <3> QED
      BY <3>3, <3>4, <3>5, <3>6, OthersRest
  <2> QED
    BY <1>3, <1>6, <2>1 DEF Place
<1>7. CASE Restart("market")
  <2>1. \A q \in Plugins : AtRest(q)
    BY <1>7 DEF Restart, Tame, Staged
  <2>2. pc'["market"] = "idle"
    BY <1>0, <1>7 DEF Restart, Reset, Goto
  <2> QED
    BY <1>0, <1>2, <2>1, <2>2, AllAtRest
<1> QED
  BY <1>5, <1>6, <1>7 DEF Both

LEMMA StagedStep == ASSUME Tame, Acts PROVE Staged'
<1>0. /\ pc \in [Tasks -> PCs] /\ Tasks = {"market", "update"}
      /\ {"together", "rollbacks", "reboots", "undo", "drop", "replay"} \cap env = {}
  BY TameFacts
<1>1. ASSUME NEW b \in Batches, StartBatch(b) PROVE Staged'
  <2>1. /\ pc["market"] = "idle" /\ dirs' = dirs /\ pc' = [pc EXCEPT !["market"] = "fetch"]
        /\ job' = [NoJob EXCEPT !.kind = "batch", !.ops = b]
    BY <1>1 DEF StartBatch, Begin, Goto
  <2>2. held' = held
    BY <2>1, HeldKept
  <2>3. \A q \in Plugins : AtRest(q)'
    BY <2>1, <2>2 DEF Tame, Staged, AtRest
  <2>4. job'.ops = b /\ job'.at = 0 /\ job'.had = {} /\ pc'["market"] = "fetch"
    BY <1>0, <2>1 DEF NoJob
  <2>5. ASSUME NEW i \in DOMAIN job'.ops PROVE Stage(i)'
    <3>1. i \in Nat /\ i > 0 /\ ~(i <= 0) /\ b[i].id \in Plugins
      BY <2>4, <2>5, BatchesAreLists
    <3>2. PICK q \in Plugins : q = b[i].id
      BY <3>1
    <3>3. AtRest(q)' /\ q \notin job'.had
      BY <2>3, <2>4
    <3> QED
      BY <2>4, <3>1, <3>2, <3>3 DEF Stage
  <2> QED
    BY <2>3, <2>5 DEF Staged
<1>2. CASE StartUpdate
  <2>1. /\ pc["market"] = "idle" /\ dirs' = dirs /\ pc' = [pc EXCEPT !["update"] = "pull"]
    BY <1>0, <1>2 DEF StartUpdate, Begin, Goto
  <2>2. held' = held /\ pc'["market"] = "idle"
    BY <1>0, <2>1, HeldKept
  <2>3. \A q \in Plugins : AtRest(q)
    BY <2>1 DEF Tame, Staged
  <2> QED
    BY <2>1, <2>2, <2>3, AllAtRest
<1>3. ~StartRollback /\ ~Reboot
  BY <1>0 DEF StartRollback, Reboot
<1> QED
  BY <1>0, <1>1, <1>2, <1>3, StagedMarket, StagedUpdate, StagedExchange DEF Acts, Operator

-------------------------------------------------------------------------------
\* The theorems.

LEMMA InitIsTidy == Init => Tidy
<1> SUFFICES ASSUME Init PROVE Staged /\ Paced /\ Filed
  BY DEF Tidy
<1>1. /\ pc["market"] = "idle" /\ pc["update"] = "idle" /\ \A t \in Tasks : pc[t] = "idle"
      /\ held = Empty /\ files["exe"] = Empty /\ job.ops = <<>>
  BY DEF Init, Tasks, Has, NoJob
<1>2. \A q \in Plugins : AtRest(q)
  BY <1>1 DEF Init, AtRest, Empty
<1>3. Staged
  BY <1>1, <1>2 DEF Staged, Stage, Early
<1>4. Paced /\ Filed
  BY <1>1 DEF Paced, Filed
<1> QED
  BY <1>3, <1>4

LEMMA TidyStep ==
  ASSUME Inv, [Next]_vars PROVE Tidy' /\ Told'
<1>1. CASE UNCHANGED <<env, dirs, registry, files, listed, held, pc, job>>
  <2>1. Orderly' = Orderly /\ InSource' = InSource
    BY <1>1 DEF Orderly, InSource
  <2>2. ASSUME Staged PROVE Staged'
    BY <1>1, <2>2 DEF Staged, Stage, AtRest, Done, Undoable, BackedUp
  <2>3. ASSUME Paced PROVE Paced'
    BY <1>1, <2>3 DEF Paced, Upcoming
  <2>4. ASSUME Filed PROVE Filed'
    BY <1>1, <2>1, <2>4 DEF Filed, Has
  <2>5. Told'
    BY <1>1, <2>1 DEF Inv, Told, ListedAsHeld, OnFile, Has
  <2> QED
    BY <2>1, <2>2, <2>3, <2>4, <2>5 DEF Inv, Tidy
<1>2. CASE Acts
  <2>1. env' = env
    BY <1>2 DEF Acts
  <2>2. Orderly' => Orderly
    BY <2>1 DEF Orderly
  <2>3. Orderly => Tame /\ Told
    BY DEF Inv, Tidy, Tame
  <2>4. Orderly => Told'
    BY <1>2, <2>3, ToldStep
  <2> QED
    BY <1>2, <2>2, <2>3, <2>4, StagedStep, PacedStep, FiledStep DEF Tidy, Told
<1> QED
  BY <1>1, <1>2, NextIsActs DEF vars

LEMMA InvStep == Inv /\ [Next]_vars => Inv'
BY ControlStep, AloneStep, TidyStep DEF Inv

LEMMA AlwaysInv == Spec => []Inv
<1>1. Init => Inv
  BY InitIsTyped, InitIsAlone, InitIsTidy DEF Inv, Told, ListedAsHeld, OnFile, Init, Has
<1> QED
  BY <1>1, InvStep, PTL DEF Spec

\* install.go: a batch that fails at any step is undone as a whole and one that succeeds is
\* complete, so that whenever no task runs the binary, the persistent directories and the
\* source tree agree, and the manifest with them if it could always be written; and the
\* binary is missing only between the two renames.
THEOREM BatchesWhole == Spec => []BatchesAreWhole
<1>1. Inv => BatchesAreWhole
  <2> SUFFICES ASSUME Inv PROVE BatchesAreWhole
    OBVIOUS
  <2>1. TypeOK
    BY DEF Inv, Control
  <2>2. "together" \notin env => BinaryOnDisk
    BY DEF Inv, BinaryKept, BinaryOnDisk
  <2>3. ASSUME Orderly, Quiet PROVE BuiltAsHeld
    <3>1. Tame
      BY <2>3 DEF Inv, Tidy, Tame
    <3>2. pc["market"] = "idle" /\ \A t \in Tasks : pc[t] # "place"
      BY <2>3, <3>1, TameFacts DEF Quiet
    <3>3. \A q \in Plugins : AtRest(q)
      BY <3>1, <3>2 DEF Tame, Staged
    <3>4. files["exe"] = held
      BY <3>1, <3>2 DEF Tame, Filed
    <3>5. /\ dirs.persist \in [Plugins -> Versions] /\ dirs.backup \in [Plugins -> Versions]
          /\ held \in [Plugins -> Versions] /\ dirs \in DirTypes
      BY <3>1, TameFacts DEF DirTypes, Contents
    <3>6. dirs.persist = held
      BY <3>3, <3>5 DEF AtRest
    <3>7. dirs.backup = Empty
      BY <3>3, <3>5 DEF AtRest, Empty
    <3>8. dirs.src = held
      BY <3>1, <3>3, RestIsHeld
    <3>9. dirs = [persist |-> held, backup |-> Empty, src |-> held]
      BY <3>5, <3>6, <3>7, <3>8 DEF DirTypes
    <3> QED
      BY <3>4, <3>9 DEF BuiltAsHeld
  <2> QED
    BY <2>1, <2>2, <2>3 DEF BatchesAreWhole, Inv, Told
<1> QED
  BY <1>1, AlwaysInv, PTL

\* A step that takes the last copy of a plugin from the persistent directories.
LEMMA DropsOnlyTheUnbuilt ==
  ASSUME Tame, Acts PROVE DropsNoLastCopy
<1> SUFFICES ASSUME NEW p \in Plugins, dirs.persist[p] # 0, dirs'.persist[p] = 0,
                    dirs'.backup[p] = 0
             PROVE  Has("exe") /\ files["exe"][p] = 0
  BY DEF DropsNoLastCopy
<1>0. dirs \in DirTypes
  BY TameFacts
<1>1. dirs' # dirs
  OBVIOUS
<1>2. ASSUME pc["market"] \notin {"idle", "place"}
      PROVE  /\ Has("exe")
             /\ files["exe"] = IF pc["market"] \in {"record", "strike"}
                               THEN dirs.src ELSE held
  <2>1. "market" \in Tasks /\ Tasks = {"market", "update"}
    BY TameFacts
  <2>2. \A u \in Tasks : pc[u] # "place"
    BY <1>2, <2>1, Single
  <2> QED
    BY <2>2, TameFacts DEF Tame, Filed
<1>3. CASE Backup
  <2>1. job.at + 1 \in 1..Len(job.ops) /\ pc["market"] = "backup"
    BY <1>3, TameFacts DEF Backup, JobTypes, AtIsRight
  <2>2. PICK q \in Plugins : q = Upcoming.id
    BY <2>1, TameFacts DEF Upcoming
  <2>3. CASE dirs' = Having(q, 0, dirs.persist[q], dirs.src[q])
    BY <1>0, <2>2, <2>3, HavingElsewhere
  <2>4. CASE PutDir("backup", q, 0)
    BY <1>0, <2>2, <2>4, PutDirElsewhere
  <2> QED
    BY <1>1, <1>3, <2>2, <2>3, <2>4 DEF Backup
<1>4. CASE WritePersistent
  <2>1. job.at \in 1..Len(job.ops) /\ pc["market"] = "persist"
    BY <1>4, TameFacts DEF WritePersistent, ReplaceDir, JobTypes, AtIsRight
  <2>2. PICK q \in Plugins : q = Doing.id
    BY <2>1, TameFacts DEF Doing
  <2>3. PICK w : PutDir("persist", q, w)
    BY <1>4, <2>2 DEF WritePersistent, ReplaceDir
  <2>4. dirs.persist[q] = 0
    <3>1. Stage(job.at) /\ q = job.ops[job.at].id
      BY <2>1, <2>2, TameFacts DEF Tame, Staged, Doing
    <3> QED
      BY <2>1, <3>1 DEF Stage
  <2>5. \A r \in Plugins \ {q} : dirs'.persist[r] = dirs.persist[r]
    BY <1>0, <2>3, PutDirElsewhere
  <2> QED
    BY <2>4, <2>5
<1>5. ASSUME NEW q \in Plugins, NEW w, NEW d \in {"src", "backup"}, PutDir(d, q, w) PROVE FALSE
  BY <1>0, <1>5, PutDirElsewhere
<1>6. ~WriteSource
  <2>1. ASSUME WriteSource PROVE job.at \in 1..Len(job.ops)
    BY <2>1, TameFacts DEF WriteSource, ReplaceDir, JobTypes, AtIsRight
  <2> QED
    BY <1>5, <2>1, TameFacts DEF WriteSource, ReplaceDir, Doing
<1>7. ~RemoveSource
  <2>1. ASSUME RemoveSource PROVE job.at + 1 \in 1..Len(job.ops)
    BY <2>1, TameFacts DEF RemoveSource, JobTypes, AtIsRight
  <2> QED
    BY <1>5, <2>1, TameFacts DEF RemoveSource, Upcoming
<1>8. CASE Undo
  <2>1. PICK i \in 1..Len(job.ops) : i \in job.undo /\ dirs' = Revert(job.ops[i])
    BY <1>8, TameFacts DEF Undo, MayFail
  <2>2. PICK q \in Plugins, v \in Nat : q = job.ops[i].id /\ v = job.ops[i].v
    BY TameFacts
  <2>3. pc["market"] = "undo"
    BY <1>8 DEF Undo
  <2>4. Undoable(q, v)
    <3>1. Stage(i)
      BY TameFacts DEF Tame, Staged
    <3> QED
      BY <2>1, <2>2, <2>3, <3>1 DEF Stage
  <2>5. v # 0
    <3>1. ASSUME v = 0 PROVE dirs'.persist = dirs.persist
      <4>1. dirs' = [dirs EXCEPT !.src[q] = dirs.persist[q]]
        BY <2>1, <2>2, <3>1 DEF Revert
      <4> QED
        BY <1>0, <4>1 DEF DirTypes
    <3> QED
      BY <3>1
  <2>6. PICK c : dirs' = Having(q, c, 0, c) /\ c = held[q]
    <3>1. BackedUp(q)
      BY <2>2, <2>4, <2>5 DEF Undoable
    <3>2. PICK c : c = held[q]
      OBVIOUS
    <3>3. CASE q \in job.had
      <4>1. dirs' = Having(q, c, 0, c)
        BY <2>1, <2>2, <2>5, <3>1, <3>2, <3>3 DEF Revert, BackedUp
      <4> QED
        BY <3>2, <4>1
    <3>4. CASE q \notin job.had
      <4>1. dirs' = Having(q, c, 0, c)
        BY <2>1, <2>2, <2>5, <3>1, <3>2, <3>4 DEF Revert, BackedUp
      <4> QED
        BY <3>2, <4>1
    <3> QED
      BY <3>3, <3>4
  <2>7. p = q /\ held[q] = 0
    BY <1>0, <2>6, HavingElsewhere
  <2> QED
    BY <1>2, <2>3, <2>7
<1>9. ~Record
  <2>1. ASSUME Record PROVE job.at + 1 \in 1..Len(job.ops)
    BY <2>1, TameFacts DEF Record
  <2> QED
    BY <1>5, <2>1, TameFacts DEF Record, Upcoming
<1>10. CASE DropCopy
  <2>1. job.at + 1 \in 1..Len(job.ops) /\ pc["market"] = "record" /\ job.at + 1 > job.at
    BY <1>10, TameFacts DEF DropCopy, Removing
  <2>2. PICK q \in Plugins, v \in Nat :
          q = job.ops[job.at + 1].id /\ v = job.ops[job.at + 1].v /\ v = 0 /\ q = Upcoming.id
    BY <1>10, <2>1, TameFacts DEF DropCopy, Removing, Upcoming
  <2>3. PutDir("persist", q, 0)
    BY <1>1, <1>10, <2>2 DEF DropCopy, Removing
  <2>4. p = q
    BY <1>0, <2>3, PutDirElsewhere
  <2>5. dirs.src[q] = 0
    <3>1. Stage(job.at + 1)
      BY <2>1, TameFacts DEF Tame, Staged
    <3> QED
      BY <2>1, <2>2, <3>1 DEF Stage, Done
  <2> QED
    BY <1>2, <2>1, <2>4, <2>5
<1>11. CASE Replay
  <2>1. PICK q \in left : \E w : PutDir("src", q, w)
    BY <1>11 DEF Replay
  <2>2. q \in Plugins
    BY ControlParts DEF Tame, DataTypes
  <2> QED
    BY <1>5, <2>1, <2>2
<1>12. /\ ~Operator /\ ~Fetch /\ ~Undone /\ ~Generate /\ ~Strike /\ ~Recorded /\ ~Restore
       /\ ~Pull /\ ~List /\ ~Register /\ ~Reboot /\ \A t \in Tasks : ~Both(t)
  BY <1>1 DEF Operator, StartBatch, StartRollback, StartUpdate, Begin, Fetch, Undone, Generate,
     Strike, Recorded, Restore, Pull, List, Register, Reboot, Both, Build, Copy, Discard,
     Retire, Place, Restart
<1> QED
  BY <1>3, <1>4, <1>6, <1>7, <1>8, <1>9, <1>10, <1>11, <1>12 DEF Acts, Market, Update

LEMMA UpdatesHaveThePlugins ==
  ASSUME Tame, Acts PROVE ReplacesWithPlugins
<1> SUFFICES ASSUME pc["update"] = "place", pc'["update"] = "restart",
                    NEW p \in Plugins, held[p] # 0
             PROVE  files'["exe"][p] # 0
  BY DEF ReplacesWithPlugins
<1>0. pc \in [Tasks -> PCs] /\ Tasks = {"market", "update"}
  BY TameFacts
<1>1. pc["market"] = "idle" /\ \A q \in Plugins : AtRest(q)
  BY TameFacts DEF Tame, Staged
<1>2. held' = held
  BY <1>1, HeldKept
<1>3. Filed' /\ Staged'
  BY FiledStep, StagedStep
<1>4. Alone' /\ "together" \notin env
  <2>1. Next
    BY DEF Acts, Next
  <2> QED
    BY <2>1, AloneStep, TameFacts DEF Tame
<1>5. env' = env
  BY DEF Acts
<1>6. pc'["market"] = "idle"
  BY <1>4, <1>5 DEF Alone
<1>7. \A t \in Tasks : pc'[t] # "place"
  BY <1>0, <1>6
<1>8. files'["exe"] = held'
  BY <1>3, <1>6, <1>7 DEF Filed
<1> QED
  BY <1>2, <1>8

\* install.go, replay.go: the last copy of a plugin is deleted only after the binary has been
\* built without it, and an update builds a binary with every installed plugin.
THEOREM PluginsKept == Spec => PluginsAreKept
<1>1. Inv /\ [Next]_vars => [Orderly => DropsNoLastCopy /\ ReplacesWithPlugins]_vars
  <2>1. ASSUME Inv, Acts, Orderly PROVE DropsNoLastCopy /\ ReplacesWithPlugins
    <3>1. Tame
      BY <2>1 DEF Inv, Tidy, Tame
    <3> QED
      BY <2>1, <3>1, DropsOnlyTheUnbuilt, UpdatesHaveThePlugins
  <2>2. ASSUME ~Acts, [Next]_vars PROVE dirs' = dirs /\ pc' = pc
    BY <2>2, NextIsActs DEF vars
  <2>3. ASSUME dirs' = dirs /\ pc' = pc PROVE DropsNoLastCopy /\ ReplacesWithPlugins
    BY <2>3 DEF DropsNoLastCopy, ReplacesWithPlugins
  <2> QED
    BY <2>1, <2>2, <2>3
<1> QED
  BY <1>1, AlwaysInv, PTL DEF Spec, PluginsAreKept
=================================================================================
