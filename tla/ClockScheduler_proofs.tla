------------------------ MODULE ClockScheduler_proofs ------------------------
(***************************************************************************)
(* Theorems about ClockScheduler, for any number of tasks, triggers and     *)
(* rows that the log keeps.                                                 *)
(***************************************************************************)
EXTENDS ClockScheduler, FiniteSetTheorems, WellFoundedInduction, TLAPS

USE ClockAssumption, NoneAssumption DEF ClockAssumption, NoneAssumption

\* A task has one cron entry or none, as m.entries says.
JobsAreEntries == \A i \in Ids : jobs[i] = IF i \in entries THEN 1 ELSE 0

\* A trigger that has not fired has not begun anything, one that has not called
\* runTask has no execution, and what is under way has a task.
TriggersAreFresh ==
  \A c \in Triggers :
    /\ fired < c => trig[c].pc = "idle" /\ exec[c] = "none"
    /\ trig[c].pc \in {"woken", "run"} => exec[c] = "none"
    /\ trig[c].pc # "idle" \/ exec[c] \notin {"none", "done"} => trig[c].id \in Ids

\* The executions that have reached the log.
Recorded == {c \in Triggers : exec[c] \notin {"none", "begin"}}

\* No row has a number that no execution was given.
LogIsBounded ==
  /\ logSeq <= Cardinality(Recorded)
  /\ \A n \in Triggers : log[n] # "none" => n <= Cardinality(Recorded)

\* Nothing of the last process is left when it is down.
DownIsIdle ==
  phase = "down" =>
    /\ op = None
    /\ \A c \in Triggers : exec[c] \in {"none", "done"} /\ trig[c].pc = "idle"

\* The number of a row in the log is at most logSeq.
RowsAreCounted == Up => \A n \in Triggers : n > logSeq => log[n] = "none"

\* A row that an execution has yet to settle is its own, and has no final status.
RowsAreTheirs ==
  /\ \A c \in Triggers :
       /\ rowOf[c] <= logSeq
       /\ exec[c] \in {"none", "begin", "done"} => rowOf[c] = 0
       /\ exec[c] \in {"mark", "check", "chat"} =>
            rowOf[c] # 0 /\ log[rowOf[c]] \notin Final
  /\ \A c, d \in Triggers : rowOf[c] # 0 /\ rowOf[c] = rowOf[d] => c = d

IInv == /\ TypeOK /\ JobsAreEntries /\ TriggersAreFresh /\ LogIsBounded
        /\ DownIsIdle /\ RowsAreCounted /\ RowsAreTheirs
        /\ OneExecutionPerTask /\ RunningRowsAreLive

\* A set of numbers up to a bound that is not empty has a greatest element.
LEMMA MaxIsThere ==
  ASSUME NEW N \in Nat, NEW S \in SUBSET (0..N), S # {}
  PROVE  Max(S) \in S /\ \A x \in S : Max(S) >= x
<1> DEFINE Gaps == {N - x : x \in S}
           Less == {ss \in Nat \X Nat : ss[1] < ss[2]}
<1>1. Gaps \subseteq Nat /\ Gaps # {}
  <2>1. \A x \in S : N - x \in Nat
    OBVIOUS
  <2>2. PICK x \in S : TRUE
    OBVIOUS
  <2> QED
    BY <2>1, <2>2
<1>2. IsWellFoundedOn(Less, Nat)
  BY NatLessThanWellFounded, Zenon DEF OpToRel
<1>3. PICK g \in Gaps : \A h \in Gaps : ~(<<h, g>> \in Less)
  <2> HIDE DEF Gaps, Less
  <2> QED
    BY <1>1, <1>2, WFMin
<1>4. \A h \in Gaps : ~(h < g)
  BY <1>1, <1>3
<1>5. PICK x \in S : g = N - x
  OBVIOUS
<1>6. \A y \in S : ~(N - y < N - x)
  BY <1>4, <1>5
<1>7. x \in S /\ \A y \in S : x >= y
  BY <1>6
<1> QED
  BY <1>7 DEF Max

LEMMA LastRowIsARow ==
  ASSUME TypeOK
  PROVE  /\ LastRow \in 0..MaxTriggers
         /\ LastRow = 0 \/ log[LastRow] # "none"
         /\ \A n \in Triggers : log[n] # "none" => n <= LastRow
<1> DEFINE S == {n \in Triggers : log[n] # "none"} \cup {0}
<1>1. S \in SUBSET (0..MaxTriggers) /\ S # {}
  BY DEF Triggers
<1>2. Max(S) \in S /\ \A x \in S : Max(S) >= x
  BY <1>1, MaxIsThere
<1> QED
  BY <1>1, <1>2 DEF LastRow, Triggers

LEMMA RecordedIsFinite ==
  /\ IsFiniteSet(Recorded) /\ Cardinality(Recorded) \in 0..MaxTriggers
<1>1. IsFiniteSet(Triggers) /\ Cardinality(Triggers) = MaxTriggers
  BY FS_Interval DEF Triggers
<1>2. Recorded \in SUBSET Triggers
  BY DEF Recorded
<1> QED
  BY <1>1, <1>2, FS_Subset, FS_CardinalityType

-------------------------------------------------------------------------------
\* Every step keeps the types: the numbers of rows because of LogIsBounded, the
\* counts of cron entries because of JobsAreEntries.
LEMMA TypeStep ==
  ASSUME IInv, [Next]_vars
  PROVE  TypeOK'
<1> USE DEF TypeOK, memory, disk, logs
<1>a. TypeOK /\ JobsAreEntries /\ TriggersAreFresh /\ LogIsBounded
  BY Zenon DEF IInv
<1>b. /\ \A i \in Ids : i \in Nat /\ i \in 0..MaxSeq
      /\ \A c \in Triggers : c \in Nat /\ c \in 0..MaxTriggers
  BY DEF Ids, Triggers
<1>c. ASSUME NEW i \in Ids, RefreshNext(i), tasks[i] # None
      PROVE  diskTasks' \in [Ids -> Task \cup {None}]
  BY <1>a, <1>c DEF RefreshNext
<1>d. ASSUME NEW c \in Triggers, NEW p \in ExecPCs, Step(c, p)
      PROVE  exec' \in [Triggers -> ExecPCs]
  BY <1>a, <1>d DEF Step
<1>e. /\ "begin" \in ExecPCs /\ "mark" \in ExecPCs /\ "check" \in ExecPCs
      /\ "chat" \in ExecPCs /\ "finish" \in ExecPCs /\ "done" \in ExecPCs
  BY DEF ExecPCs
<1>f. ASSUME NEW c \in Triggers, NEW p \in {"idle", "destroy"}, Goto(c, p)
      PROVE  trig' \in [Triggers -> [pc : {"idle", "woken", "run", "destroy"},
                                     id : 0..MaxSeq, once : BOOLEAN]]
  BY <1>a, <1>f DEF Goto
<1>g. ASSUME NEW c \in Triggers, NEW st \in {"success", "error"}, Settled(c, st)
      PROVE  log' \in [Triggers -> Final \cup {"none", "running"}]
  BY <1>a, <1>g DEF Settled, Final
<1>h. ASSUME NEW i \in Ids, BeginDelete(i), trig' \in [Triggers ->
               [pc : {"idle", "woken", "run", "destroy"}, id : 0..MaxSeq, once : BOOLEAN]]
      PROVE  TypeOK'
  <2>1. op' \in Op
    BY <1>h DEF BeginDelete, Op
  <2> QED
    BY <1>a, <1>h, <2>1 DEF BeginDelete
<1>1. CASE Boot
  <2>1. tasks' \in [Ids -> Task \cup {None}]
    BY <1>a, <1>1 DEF Boot
  <2>2. log' \in [Triggers -> Final \cup {"none", "running"}]
    BY <1>a, <1>1 DEF Boot, Interrupted, Final
  <2>3. acked' \in [Ids -> SUBSET (Task \cup {None})]
    <3>1. \A i \in Ids : acked[i] \in SUBSET (Task \cup {None})
                         /\ {tasks'[i]} \in SUBSET (Task \cup {None})
      BY <1>a, <2>1
    <3> QED
      BY <1>1, <3>1 DEF Boot
  <2>4. logSeq' \in 0..MaxTriggers
    BY <1>a, <1>1, LastRowIsARow DEF Boot
  <2> QED
    BY <1>a, <1>1, <2>1, <2>2, <2>3, <2>4 DEF Boot
<1>2. CASE Start
  BY <1>a, <1>2 DEF Start
<1>3. CASE Crash
  <2>1. trig' \in [Triggers -> [pc : {"idle", "woken", "run", "destroy"},
                                id : 0..MaxSeq, once : BOOLEAN]]
    BY <1>3 DEF Crash, NoTrigger
  <2>2. exec' \in [Triggers -> ExecPCs]
    BY <1>a, <1>3, <1>e DEF Crash
  <2> QED
    BY <1>a, <1>3, <2>1, <2>2 DEF Crash
<1>4. CASE Add
  <2>1. seq + 1 \in Ids /\ seq' \in 0..MaxSeq /\ diskSeq' \in 0..MaxSeq
    BY <1>a, <1>4 DEF Add, Ids
  <2>2. op' \in Op
    BY <1>4, <2>1 DEF Add, Op
  <2>3. /\ tasks' \in [Ids -> Task \cup {None}]
        /\ acked' \in [Ids -> SUBSET (Task \cup {None})]
    BY <1>a, <1>4, <2>1 DEF Add
  <2> QED
    BY <1>a, <1>4, <2>1, <2>2, <2>3 DEF Add
<1>5. CASE PersistTask
  <2>1. op \in Op /\ op' \in Op /\ op.id \in Ids
    BY <1>a, <1>5 DEF PersistTask, Op
  <2>2. diskTasks' \in [Ids -> Task \cup {None}]
    BY <1>a, <1>5, <2>1 DEF PersistTask
  <2> QED
    BY <1>a, <1>5, <2>1, <2>2 DEF PersistTask
<1>6. CASE PersistIndex
  <2>1. op' \in Op
    BY <1>a, <1>6 DEF PersistIndex, Op
  <2>2. diskIndex' \in (SUBSET Ids) \cup {None}
    BY <1>a, <1>6 DEF PersistIndex
  <2> QED
    BY <1>a, <1>6, <2>1, <2>2 DEF PersistIndex
<1>7. CASE Return
  <2>1. op.id \in Ids
    BY <1>a, <1>7 DEF Return, Op
  <2>2. entries' \in SUBSET Ids /\ jobs' \in [Ids -> Nat]
    <3>1. CASE phase = "started"
      <4>1. (IF op.id \in entries THEN jobs[op.id] - 1 ELSE jobs[op.id]) = 0
        BY <1>a, <2>1 DEF JobsAreEntries
      <4> QED
        BY <1>a, <1>7, <2>1, <3>1, <4>1 DEF Return, Rescheduled
    <3>2. CASE phase # "started"
      BY <1>a, <1>7, <3>2 DEF Return
    <3> QED
      BY <3>1, <3>2
  <2>3. acked' \in [Ids -> SUBSET (Task \cup {None})]
    BY <1>a, <1>7, <2>1 DEF Return
  <2> QED
    BY <1>a, <1>7, <2>2, <2>3 DEF Return
<1>8. ASSUME NEW i \in Ids, Update(i) PROVE TypeOK'
  <2>1. op' \in Op
    BY <1>8 DEF Update, Op
  <2>2. /\ tasks' \in [Ids -> Task \cup {None}]
        /\ acked' \in [Ids -> SUBSET (Task \cup {None})]
    BY <1>a, <1>8 DEF Update
  <2> QED
    BY <1>a, <1>8, <2>1, <2>2 DEF Update
<1>9. ASSUME NEW i \in Ids, Delete(i) PROVE TypeOK'
  BY <1>a, <1>9, <1>h DEF Delete
<1>10. ASSUME NEW i \in Ids, Get(i) PROVE TypeOK'
  BY <1>a, <1>10, <1>c DEF Get
<1>11. ASSUME NEW i \in Ids, CronFires(i) PROVE TypeOK'
  <2>1. trig' \in [Triggers -> [pc : {"idle", "woken", "run", "destroy"},
                                id : 0..MaxSeq, once : BOOLEAN]]
    BY <1>a, <1>b, <1>11 DEF CronFires, Next1
  <2> QED
    BY <1>a, <1>11, <2>1 DEF CronFires, Next1
<1>12. ASSUME NEW i \in Ids, RunNow(i) PROVE TypeOK'
  <2>1. trig' \in [Triggers -> [pc : {"idle", "woken", "run", "destroy"},
                                id : 0..MaxSeq, once : BOOLEAN]]
    BY <1>a, <1>b, <1>12 DEF RunNow, Next1
  <2>2. diskTasks' \in [Ids -> Task \cup {None}]
    BY <1>12, <1>c DEF RunNow
  <2> QED
    BY <1>a, <1>12, <2>1, <2>2 DEF RunNow, Next1
<1>13. ASSUME NEW c \in Triggers, ReadTask(c) PROVE TypeOK'
  <2>1. trig[c].id \in Ids
    BY <1>a, <1>13 DEF ReadTask, TriggersAreFresh
  <2>2. CASE tasks[trig[c].id] = None \/ ~tasks[trig[c].id].on
    BY <1>a, <1>13, <2>2, <1>f DEF ReadTask
  <2>3. CASE ~(tasks[trig[c].id] = None \/ ~tasks[trig[c].id].on)
    <3>1. tasks[trig[c].id].once \in BOOLEAN
      BY <1>a, <2>1, <2>3 DEF Task
    <3>2. trig' = [trig EXCEPT ![c] = [pc |-> "run", id |-> trig[c].id,
                                       once |-> tasks[trig[c].id].once]]
      BY <1>a, <1>13, <2>3 DEF ReadTask
    <3>3. trig' \in [Triggers -> [pc : {"idle", "woken", "run", "destroy"},
                                  id : 0..MaxSeq, once : BOOLEAN]]
      BY <1>a, <3>1, <3>2
    <3> QED
      BY <1>a, <1>13, <3>3 DEF ReadTask
  <2> QED
    BY <2>2, <2>3
<1>14. ASSUME NEW c \in Triggers, RunTask(c) PROVE TypeOK'
  <2>1. trig[c].id \in Ids
    BY <1>a, <1>14 DEF RunTask, TriggersAreFresh
  <2> QED
    BY <1>a, <1>14, <1>e, <1>f, <2>1 DEF RunTask, AfterRun
<1>15. ASSUME NEW c \in Triggers, SkipRun(c) PROVE TypeOK'
  BY <1>a, <1>15, <1>f DEF SkipRun, AfterRun
<1>16. ASSUME NEW c \in Triggers, DestroyOneShot(c) PROVE TypeOK'
  <2>1. trig[c].id \in Ids
    BY <1>a, <1>16 DEF DestroyOneShot, TriggersAreFresh
  <2>2. trig' \in [Triggers -> [pc : {"idle", "woken", "run", "destroy"},
                                id : 0..MaxSeq, once : BOOLEAN]]
    <3>1. trig' = [trig EXCEPT ![c].pc = "idle", ![c].once = FALSE]
      BY <1>16 DEF DestroyOneShot
    <3> DEFINE mid == [trig EXCEPT ![c].pc = "idle"]
    <3>2. mid \in [Triggers -> [pc : {"idle", "woken", "run", "destroy"},
                                id : 0..MaxSeq, once : BOOLEAN]]
      BY <1>a
    <3>3. trig' = [mid EXCEPT ![c].once = FALSE]
      BY <3>1
    <3> HIDE DEF mid
    <3> QED
      BY <3>2, <3>3
  <2>3. CASE BeginDelete(trig[c].id)
    BY <1>h, <2>1, <2>2, <2>3
  <2> QED
    BY <1>a, <1>16, <2>2, <2>3 DEF DestroyOneShot
<1>17. ASSUME NEW c \in Triggers, Record(c) PROVE TypeOK'
  <2>1. exec' \in [Triggers -> ExecPCs]
    BY <1>17, <1>d, <1>e DEF Record
  <2>2. logSeq + 1 \in 0..MaxTriggers
    <3>1. c \notin Recorded /\ Recorded' = Recorded \cup {c}
      BY <1>a, <1>17 DEF Record, Recorded, Step
    <3>2. Cardinality(Recorded') = Cardinality(Recorded) + 1
      BY <3>1, RecordedIsFinite, FS_AddElement
    <3>3. Recorded' \in SUBSET Triggers /\ Cardinality(Recorded') <= MaxTriggers
      <4>1. IsFiniteSet(Triggers) /\ Cardinality(Triggers) = MaxTriggers
        BY FS_Interval DEF Triggers
      <4>2. Recorded' \in SUBSET Triggers
        BY DEF Recorded
      <4> QED
        BY <4>1, <4>2, FS_Subset
    <3> QED
      BY <1>a, <3>2, <3>3, RecordedIsFinite DEF LogIsBounded
  <2>3. log' \in [Triggers -> Final \cup {"none", "running"}]
    BY <1>a, <1>17 DEF Record, Evicted
  <2>4. rowOf' \in [Triggers -> 0..MaxTriggers]
    BY <1>a, <1>17, <2>2 DEF Record
  <2> QED
    BY <1>a, <1>17, <2>1, <2>2, <2>3, <2>4 DEF Record
<1>18. ASSUME NEW c \in Triggers, Mark(c) PROVE TypeOK'
  <2>1. exec' \in [Triggers -> ExecPCs]
    BY <1>18, <1>d, <1>e DEF Mark
  <2>2. trig[c].id \in Ids
    BY <1>a, <1>18 DEF Mark, TriggersAreFresh
  <2>3. diskTasks' \in [Ids -> Task \cup {None}]
    BY <1>a, <1>18, <2>2 DEF Mark
  <2> QED
    BY <1>a, <1>18, <2>1, <2>3 DEF Mark
<1>19. ASSUME NEW c \in Triggers, Denied(c) PROVE TypeOK'
  BY <1>a, <1>19, <1>d, <1>e, <1>g DEF Denied
<1>20. ASSUME NEW c \in Triggers, Allowed(c) PROVE TypeOK'
  BY <1>a, <1>20, <1>d, <1>e DEF Allowed
<1>21. ASSUME NEW c \in Triggers, Execute(c) PROVE TypeOK'
  BY <1>a, <1>21, <1>d, <1>e, <1>g DEF Execute
<1>22. ASSUME NEW c \in Triggers, Finish(c) PROVE TypeOK'
  BY <1>a, <1>22, <1>d, <1>e DEF Finish
<1>23. CASE UNCHANGED vars
  BY <1>a, <1>23 DEF vars
<1> HIDE DEF TypeOK
<1> QED
  BY <1>1, <1>2, <1>3, <1>4, <1>5, <1>6, <1>7, <1>8, <1>9, <1>10, <1>11, <1>12,
     <1>13, <1>14, <1>15, <1>16, <1>17, <1>18, <1>19, <1>20, <1>21, <1>22, <1>23,
     Zenon DEF Next, Operation, Trigger, Execution

\* The cron entries change in Start, Crash and Return only.
LEMMA JobsStep ==
  ASSUME IInv, [Next]_vars
  PROVE  JobsAreEntries'
<1> USE DEF JobsAreEntries, memory
<1>a. TypeOK /\ JobsAreEntries
  BY DEF IInv
<1>b. entries \in SUBSET Ids /\ jobs \in [Ids -> Nat]
  BY <1>a DEF TypeOK
<1>0. CASE UNCHANGED <<entries, jobs>>
  BY <1>a, <1>0
<1>1. CASE Boot
  BY <1>0, <1>1 DEF Boot
<1>2. CASE Start
  BY <1>2 DEF Start
<1>3. CASE Crash
  BY <1>3 DEF Crash
<1>4. CASE Add
  BY <1>0, <1>4 DEF Add
<1>5. CASE PersistTask \/ PersistIndex
  BY <1>0, <1>5 DEF PersistTask, PersistIndex
<1>6. CASE Return
  <2>1. op.id \in Ids
    BY <1>a, <1>6 DEF Return, TypeOK, Op
  <2>2. CASE phase = "started"
    <3> DEFINE left == IF op.id \in entries THEN jobs[op.id] - 1 ELSE jobs[op.id]
               on   == tasks[op.id] # None /\ tasks[op.id].on
    <3>1. left = 0
      BY <1>a, <2>1
    <3>2. /\ entries' = IF on THEN entries \cup {op.id} ELSE entries \ {op.id}
          /\ jobs' = [jobs EXCEPT ![op.id] = IF on THEN left + 1 ELSE left]
      BY <1>6, <2>2 DEF Return, Rescheduled
    <3> HIDE DEF left, on
    <3> QED
      BY <1>a, <1>b, <2>1, <3>1, <3>2
  <2> QED
    BY <1>0, <1>6, <2>2 DEF Return
<1>7. CASE \E i \in Ids : Update(i) \/ Delete(i) \/ Get(i) \/ CronFires(i) \/ RunNow(i)
  BY <1>0, <1>7 DEF Update, Delete, BeginDelete, Get, CronFires, RunNow
<1>8. CASE \E c \in Triggers : Trigger(c)
  BY <1>0, <1>8 DEF Trigger, ReadTask, RunTask, SkipRun, DestroyOneShot, BeginDelete
<1>9. CASE \E c \in Triggers : Execution(c)
  BY <1>0, <1>9 DEF Execution, Record, Mark, Denied, Allowed, Execute, Finish
<1>10. CASE UNCHANGED vars
  BY <1>0, <1>10 DEF vars
<1> HIDE DEF JobsAreEntries
<1> QED
  BY <1>1, <1>2, <1>3, <1>4, <1>5, <1>6, <1>7, <1>8, <1>9, <1>10, Zenon
     DEF Next, Operation

\* An execution only moves on from one control point to the next.
Moves(c) == /\ exec[c] \notin {"none", "done"} /\ UNCHANGED <<trig, fired>>
            /\ exec' = [exec EXCEPT ![c] = exec'[c]] /\ exec'[c] # "none"

LEMMA ExecutionMoves ==
  ASSUME TypeOK, NEW c \in Triggers, Execution(c)
  PROVE  Moves(c)
<1>0. exec \in [Triggers -> ExecPCs]
  BY DEF TypeOK
<1>1. CASE Record(c)
  BY <1>0, <1>1 DEF Record, Step, Moves
<1>2. CASE Mark(c)
  BY <1>0, <1>2 DEF Mark, Step, Moves
<1>3. CASE Denied(c)
  BY <1>0, <1>3 DEF Denied, Step, Moves
<1>4. CASE Allowed(c)
  BY <1>0, <1>4 DEF Allowed, Step, Moves
<1>5. CASE Execute(c)
  BY <1>0, <1>5 DEF Execute, Step, Moves
<1>6. CASE Finish(c)
  BY <1>0, <1>6 DEF Finish, Step, Moves
<1> QED
  BY <1>1, <1>2, <1>3, <1>4, <1>5, <1>6 DEF Execution

LEMMA FreshStep ==
  ASSUME IInv, [Next]_vars
  PROVE  TriggersAreFresh'
<1> USE DEF TriggersAreFresh, memory
<1>a. TypeOK /\ TriggersAreFresh
  BY DEF IInv
<1>b. /\ trig \in [Triggers -> [pc : {"idle", "woken", "run", "destroy"},
                               id : 0..MaxSeq, once : BOOLEAN]]
      /\ exec \in [Triggers -> ExecPCs]
      /\ fired \in Nat /\ \A c \in Triggers : c \in Nat
  BY <1>a DEF TypeOK, Triggers
<1>0. CASE UNCHANGED <<trig, exec, fired>>
  BY <1>a, <1>0
<1>1. CASE Boot \/ Start
  BY <1>0, <1>1 DEF Boot, Start
<1>2. CASE Crash
  <2>1. \A c \in Triggers : trig'[c].pc = "idle" /\ exec'[c] \in {"none", "done"}
                            /\ (exec[c] = "none" => exec'[c] = "none")
    BY <1>b, <1>2 DEF Crash, NoTrigger, Live
  <2> QED
    BY <1>a, <1>2, <2>1 DEF Crash
<1>3. CASE Add \/ PersistTask \/ PersistIndex \/ Return
  BY <1>0, <1>3 DEF Add, PersistTask, PersistIndex, Return
<1>4. CASE \E i \in Ids : Update(i) \/ Delete(i) \/ Get(i)
  BY <1>0, <1>4 DEF Update, Delete, BeginDelete, Get
<1>5. CASE \E i \in Ids : CronFires(i) \/ RunNow(i)
  <2>1. PICK i \in Ids, p \in {"woken", "run"} :
          /\ fired < MaxTriggers /\ fired' = fired + 1 /\ exec' = exec
          /\ trig' = [trig EXCEPT ![fired + 1] = [pc |-> p, id |-> i, once |-> FALSE]]
    BY <1>5 DEF CronFires, RunNow, Next1
  <2>2. fired + 1 \in Triggers /\ exec[fired + 1] = "none"
    BY <1>a, <1>b, <2>1 DEF Triggers
  <2> QED
    BY <1>a, <1>b, <2>1, <2>2
<1>6. ASSUME NEW c \in Triggers, ReadTask(c) PROVE TriggersAreFresh'
  <2>1. /\ UNCHANGED <<exec, fired>>
        /\ \A d \in Triggers \ {c} : trig'[d] = trig[d]
        /\ trig'[c].id = trig[c].id /\ trig'[c].pc \in {"idle", "run"}
    <3>1. CASE tasks[trig[c].id] = None \/ ~tasks[trig[c].id].on
      BY <1>b, <1>6, <3>1 DEF ReadTask, Goto
    <3>2. CASE ~(tasks[trig[c].id] = None \/ ~tasks[trig[c].id].on)
      <4> DEFINE mid == [trig EXCEPT ![c].pc = "run"]
      <4>1. /\ mid \in [Triggers -> [pc : {"idle", "woken", "run", "destroy"},
                                    id : 0..MaxSeq, once : BOOLEAN]]
            /\ mid[c].id = trig[c].id /\ mid[c].pc = "run"
            /\ \A d \in Triggers \ {c} : mid[d] = trig[d]
        BY <1>b
      <4>2. trig' = [mid EXCEPT ![c].once = tasks[trig[c].id].once]
        BY <1>6, <3>2 DEF ReadTask
      <4> HIDE DEF mid
      <4> QED
        BY <1>6, <4>1, <4>2 DEF ReadTask
    <3> QED
      BY <3>1, <3>2
  <2>2. trig[c].pc = "woken"
    BY <1>6 DEF ReadTask
  <2> QED
    BY <1>a, <1>b, <2>1, <2>2
<1>7. ASSUME NEW c \in Triggers, RunTask(c) PROVE TriggersAreFresh'
  BY <1>a, <1>b, <1>7 DEF RunTask, AfterRun, Goto
<1>8. ASSUME NEW c \in Triggers, SkipRun(c) PROVE TriggersAreFresh'
  BY <1>a, <1>b, <1>8 DEF SkipRun, AfterRun, Goto
<1>9. ASSUME NEW c \in Triggers, DestroyOneShot(c) PROVE TriggersAreFresh'
  <2> DEFINE mid == [trig EXCEPT ![c].pc = "idle"]
  <2>1. /\ mid \in [Triggers -> [pc : {"idle", "woken", "run", "destroy"},
                                id : 0..MaxSeq, once : BOOLEAN]]
        /\ mid[c].id = trig[c].id /\ mid[c].pc = "idle"
        /\ \A d \in Triggers \ {c} : mid[d] = trig[d]
    BY <1>b
  <2>2. trig' = [mid EXCEPT ![c].once = FALSE] /\ trig[c].pc = "destroy"
    BY <1>9 DEF DestroyOneShot
  <2>3. UNCHANGED <<exec, fired>>
    BY <1>9 DEF DestroyOneShot, BeginDelete
  <2>4. /\ \A d \in Triggers \ {c} : trig'[d] = trig[d]
        /\ trig'[c].id = trig[c].id /\ trig'[c].pc = "idle"
    <3> HIDE DEF mid
    <3> QED
      BY <2>1, <2>2
  <2> QED
    BY <1>a, <1>b, <2>2, <2>3, <2>4
<1>10. ASSUME NEW c \in Triggers, Execution(c) PROVE TriggersAreFresh'
  <2>1. Moves(c)
    BY <1>a, <1>10, ExecutionMoves
  <2> QED
    BY <1>a, <1>b, <2>1 DEF Moves
<1>11. CASE UNCHANGED vars
  BY <1>0, <1>11 DEF vars
<1> HIDE DEF TriggersAreFresh
<1> QED
  BY <1>1, <1>2, <1>3, <1>4, <1>5, <1>6, <1>7, <1>8, <1>9, <1>10, <1>11, Zenon
     DEF Next, Operation, Trigger

\* A step outside the log's own code writes no row, and moves no execution past the
\* point where it has none.
LogSteady ==
  /\ UNCHANGED <<log, logSeq, rowOf>>
  /\ \/ UNCHANGED exec
     \/ \E c \in Triggers :
          \/ exec[c] = "none" /\ exec' = [exec EXCEPT ![c] = "begin"]
          \/ exec[c] = "mark" /\ exec' = [exec EXCEPT ![c] = "check"]
          \/ exec[c] = "check" /\ exec' = [exec EXCEPT ![c] = "chat"]

\* The steps by what they do to the log.
LEMMA LogSteps ==
  ASSUME IInv, [Next]_vars
  PROVE  \/ LogSteady /\ UNCHANGED phase
         \/ LogSteady /\ Start
         \/ Boot
         \/ Crash
         \/ \E c \in Triggers : Record(c) /\ UNCHANGED phase
         \/ \E c \in Triggers :
              /\ exec[c] \in {"check", "chat"} /\ Step(c, "finish")
              /\ \E st \in {"success", "error"} : Settled(c, st)
              /\ UNCHANGED <<phase, logSeq, rowOf>>
         \/ \E c \in Triggers : Finish(c) /\ UNCHANGED <<phase, logSeq, log>>
<1> USE DEF LogSteady, logs, memory
<1>1. CASE Boot \/ Crash
  BY <1>1
<1>2. CASE Start
  BY <1>2 DEF Start
<1>3. CASE Add \/ PersistTask \/ PersistIndex \/ Return
  BY <1>3 DEF Add, PersistTask, PersistIndex, Return
<1>4. CASE \E i \in Ids : Update(i) \/ Delete(i) \/ Get(i) \/ CronFires(i) \/ RunNow(i)
  BY <1>4 DEF Update, Delete, BeginDelete, Get, CronFires, RunNow
<1>5. ASSUME NEW c \in Triggers, RunTask(c) PROVE LogSteady /\ UNCHANGED phase
  <2>1. exec[c] = "none"
    BY <1>5 DEF IInv, TriggersAreFresh, RunTask
  <2> QED
    BY <1>5, <2>1 DEF RunTask
<1>6. CASE \E c \in Triggers : ReadTask(c) \/ SkipRun(c) \/ DestroyOneShot(c)
  BY <1>6 DEF ReadTask, SkipRun, DestroyOneShot, BeginDelete
<1>7. ASSUME NEW c \in Triggers, Mark(c) \/ Allowed(c) PROVE LogSteady /\ UNCHANGED phase
  BY <1>7 DEF Mark, Allowed, Step
<1>8. CASE \E c \in Triggers : Record(c)
  BY <1>8 DEF Record
<1>9. CASE \E c \in Triggers : Denied(c) \/ Execute(c)
  BY <1>9 DEF Denied, Execute
<1>10. CASE \E c \in Triggers : Finish(c)
  BY <1>10 DEF Finish
<1>11. CASE UNCHANGED vars
  BY <1>11 DEF vars
<1> QED
  BY <1>1, <1>2, <1>3, <1>4, <1>5, <1>6, <1>7, <1>8, <1>9, <1>10, <1>11, Zenon
     DEF Next, Operation, Trigger, Execution

LEMMA BoundStep ==
  ASSUME IInv, [Next]_vars
  PROVE  LogIsBounded'
<1> USE DEF LogIsBounded
<1>a. TypeOK /\ LogIsBounded /\ exec \in [Triggers -> ExecPCs] /\ logSeq \in Nat
      /\ \A n \in Triggers : n \in Nat
  BY DEF IInv, TypeOK, Triggers
<1>b. IsFiniteSet(Recorded) /\ Cardinality(Recorded) \in Nat
  BY RecordedIsFinite
<1>f. /\ Recorded' \in SUBSET Triggers /\ IsFiniteSet(Recorded')
      /\ Cardinality(Recorded') \in Nat
  <2>1. Recorded' \in SUBSET Triggers
    BY DEF Recorded
  <2>2. IsFiniteSet(Triggers)
    BY FS_Interval DEF Triggers
  <2> QED
    BY <2>1, <2>2, FS_Subset, FS_CardinalityType
<1>c. ASSUME Recorded \subseteq Recorded' PROVE Cardinality(Recorded) <= Cardinality(Recorded')
  BY <1>c, <1>f, FS_Subset
<1>d. ASSUME Recorded \subseteq Recorded', logSeq' <= Cardinality(Recorded), logSeq' \in Nat,
             \A n \in Triggers : log'[n] # "none" => log[n] # "none"
      PROVE  LogIsBounded'
  BY <1>a, <1>b, <1>c, <1>d, <1>f
<1>1. CASE LogSteady
  <2>1. Recorded \subseteq Recorded'
    BY <1>a, <1>1 DEF LogSteady, Recorded
  <2> QED
    BY <1>a, <1>1, <1>d, <2>1 DEF LogSteady
<1>2. CASE Boot
  <2>1. Recorded' = Recorded
    BY <1>2 DEF Boot, Recorded
  <2>2. LastRow \in Nat /\ LastRow <= Cardinality(Recorded)
    BY <1>a, <1>b, LastRowIsARow DEF Triggers
  <2>3. \A n \in Triggers : log'[n] # "none" => log[n] # "none"
    BY <1>2 DEF Boot, Interrupted
  <2> QED
    BY <1>2, <1>d, <2>1, <2>2, <2>3 DEF Boot
<1>3. CASE Crash
  <2>1. Recorded \subseteq Recorded'
    BY <1>a, <1>3 DEF Crash, Recorded, Live
  <2> QED
    BY <1>b, <1>3, <1>d, <2>1 DEF Crash
<1>4. ASSUME NEW c \in Triggers, Record(c) PROVE LogIsBounded'
  <2>1. c \notin Recorded /\ Recorded' = Recorded \cup {c}
    BY <1>a, <1>4 DEF Record, Recorded, Step
  <2>2. Cardinality(Recorded') = Cardinality(Recorded) + 1
    BY <1>b, <2>1, FS_AddElement
  <2>3. \A n \in Triggers : log'[n] # "none" => log[n] # "none" \/ n = logSeq + 1
    BY <1>a, <1>4 DEF Record, Evicted
  <2>4. logSeq' = logSeq + 1
    BY <1>4 DEF Record
  <2> QED
    BY <1>a, <1>b, <2>2, <2>3, <2>4
<1>5. ASSUME NEW c \in Triggers, exec[c] \in {"check", "chat"}, Step(c, "finish"),
             NEW st \in {"success", "error"}, Settled(c, st), UNCHANGED <<logSeq, rowOf>>
      PROVE  LogIsBounded'
  <2>1. Recorded' = Recorded
    BY <1>a, <1>5 DEF Recorded, Step
  <2>2. \A n \in Triggers : log'[n] # "none" => log[n] # "none"
    BY <1>5 DEF Settled
  <2> QED
    BY <1>a, <1>5, <1>d, <2>1, <2>2
<1>6. ASSUME NEW c \in Triggers, Finish(c), UNCHANGED <<logSeq, log>> PROVE LogIsBounded'
  <2>1. Recorded' = Recorded
    BY <1>a, <1>6 DEF Recorded, Finish, Step
  <2> QED
    BY <1>a, <1>6, <1>d, <2>1
<1> HIDE DEF LogIsBounded
<1> QED
  BY <1>1, <1>2, <1>3, <1>4, <1>5, <1>6, LogSteps

LEMMA CountedStep ==
  ASSUME IInv, [Next]_vars
  PROVE  RowsAreCounted'
<1> USE DEF RowsAreCounted
<1>a. /\ RowsAreCounted /\ log \in [Triggers -> Final \cup {"none", "running"}]
      /\ logSeq \in Nat /\ \A n \in Triggers : n \in Nat
  BY DEF IInv, TypeOK, Triggers
<1>1. CASE LogSteady /\ (UNCHANGED phase \/ Start)
  BY <1>a, <1>1 DEF LogSteady, Start, Up
<1>2. CASE Boot
  <2>1. \A n \in Triggers : log[n] # "none" => n <= LastRow
    BY LastRowIsARow DEF IInv
  <2>2. LastRow \in Nat
    BY LastRowIsARow DEF IInv
  <2>3. logSeq' = LastRow /\ \A n \in Triggers : log[n] = "none" => log'[n] = "none"
    BY <1>2 DEF Boot, Interrupted
  <2> QED
    BY <1>a, <2>1, <2>2, <2>3
<1>3. CASE Crash
  BY <1>3 DEF Crash, Up
<1>4. ASSUME NEW c \in Triggers, Record(c), UNCHANGED phase PROVE RowsAreCounted'
  <2>1. \A n \in Triggers : log'[n] # "none" => log[n] # "none" \/ n = logSeq + 1
    BY <1>a, <1>4 DEF Record, Evicted
  <2>2. logSeq' = logSeq + 1
    BY <1>4 DEF Record
  <2> QED
    BY <1>a, <1>4, <2>1, <2>2 DEF Up
<1>5. ASSUME NEW c \in Triggers, NEW st \in {"success", "error"}, Settled(c, st),
             UNCHANGED <<phase, logSeq>>
      PROVE  RowsAreCounted'
  BY <1>a, <1>5 DEF Settled, Up
<1>6. ASSUME UNCHANGED <<phase, logSeq, log>> PROVE RowsAreCounted'
  BY <1>a, <1>6 DEF Up
<1> HIDE DEF RowsAreCounted
<1> QED
  BY <1>1, <1>2, <1>3, <1>4, <1>5, <1>6, LogSteps

\* Nothing begins while the process is down, and Crash leaves nothing.
LEMMA IdleStep ==
  ASSUME IInv, [Next]_vars
  PROVE  DownIsIdle'
<1> USE DEF DownIsIdle, memory
<1>a. /\ DownIsIdle /\ TypeOK /\ exec \in [Triggers -> ExecPCs]
      /\ phase \in {"down", "booted", "started"}
  BY DEF IInv, TypeOK
<1>0. CASE phase' # "down"
  BY <1>0
<1>1. CASE Boot \/ Start \/ Crash
  BY <1>a, <1>1 DEF Boot, Start, Crash, NoTrigger, Live
<1>2. CASE Add \/ PersistTask \/ PersistIndex \/ Return
  BY <1>a, <1>0, <1>2 DEF Add, Up, PersistTask, PersistIndex, Return
<1>3. CASE \E i \in Ids : Update(i) \/ Delete(i) \/ Get(i) \/ CronFires(i) \/ RunNow(i)
  BY <1>0, <1>3 DEF Update, Delete, BeginDelete, Get, CronFires, RunNow, Up
<1>4. CASE \E c \in Triggers : Trigger(c)
  BY <1>a, <1>0, <1>4 DEF Trigger, ReadTask, RunTask, SkipRun, DestroyOneShot, BeginDelete
<1>5. CASE \E c \in Triggers : Execution(c)
  <2>1. UNCHANGED phase
    BY <1>5 DEF Execution, Record, Mark, Denied, Allowed, Execute, Finish
  <2> QED
    BY <1>a, <1>0, <1>5, <2>1, ExecutionMoves DEF Moves
<1>6. CASE UNCHANGED vars
  BY <1>a, <1>6 DEF vars
<1> HIDE DEF DownIsIdle
<1> QED
  BY <1>1, <1>2, <1>3, <1>4, <1>5, <1>6, Zenon DEF Next, Operation

LEMMA TheirsStep ==
  ASSUME IInv, [Next]_vars
  PROVE  RowsAreTheirs'
<1> USE DEF RowsAreTheirs
<1>a. RowsAreTheirs /\ RowsAreCounted /\ DownIsIdle
  BY DEF IInv
<1>b. /\ log \in [Triggers -> Final \cup {"none", "running"}]
      /\ logSeq \in 0..MaxTriggers /\ rowOf \in [Triggers -> 0..MaxTriggers]
      /\ exec \in [Triggers -> ExecPCs] /\ phase \in {"down", "booted", "started"}
      /\ \A n \in Triggers : n \in Nat
  BY DEF IInv, TypeOK, Triggers
<1>c. /\ "none" \notin Final /\ "running" \notin Final
      /\ \A r \in 0..MaxTriggers : r # 0 => r \in Triggers
  BY DEF Final, Triggers
<1>1. CASE LogSteady
  BY <1>a, <1>b, <1>1 DEF LogSteady
<1>2. CASE Boot
  <2>1. LastRow \in Nat
    BY LastRowIsARow DEF IInv
  <2>2. \A c \in Triggers : rowOf'[c] = 0 /\ exec'[c] \in {"none", "done"}
    BY <1>a, <1>2 DEF Boot, DownIsIdle
  <2> QED
    BY <1>2, <2>1, <2>2 DEF Boot
<1>3. CASE Crash
  <2>1. \A c \in Triggers : rowOf'[c] = 0 /\ exec'[c] \in {"none", "done"}
    BY <1>b, <1>3 DEF Crash, Live
  <2> QED
    BY <1>3, <2>1 DEF Crash
<1>4. ASSUME NEW c \in Triggers, Record(c) PROVE RowsAreTheirs'
  <2>1. /\ logSeq' = logSeq + 1 /\ rowOf' = [rowOf EXCEPT ![c] = logSeq + 1]
        /\ exec' = [exec EXCEPT ![c] = "mark"]
    BY <1>4 DEF Record, Step
  <2>2. \A n \in Triggers : log'[n] = log[n] \/ log'[n] = "none" \/ log'[n] = "running"
    BY <1>b, <1>4 DEF Record, Evicted
  <2>3. phase # "down"
    BY <1>a, <1>4 DEF Record, DownIsIdle
  <2>4. logSeq + 1 \in Triggers
    BY <1>b, TypeStep, <2>1 DEF TypeOK, Triggers
  <2>5. log'[logSeq + 1] \notin Final
    <3>1. log'[logSeq + 1] \in {"none", "running"}
      BY <1>b, <1>4, <2>4 DEF Record, Evicted
    <3> QED
      BY <1>c, <3>1
  <2> QED
    BY <1>a, <1>b, <1>c, <2>1, <2>2, <2>4, <2>5
<1>5. ASSUME NEW c \in Triggers, exec[c] \in {"check", "chat"}, Step(c, "finish"),
             NEW st \in {"success", "error"}, Settled(c, st), UNCHANGED <<logSeq, rowOf>>
      PROVE  RowsAreTheirs'
  <2>1. \A n \in Triggers : n # rowOf[c] => log'[n] = log[n]
    BY <1>5 DEF Settled
  <2> QED
    BY <1>a, <1>b, <1>c, <1>5, <2>1 DEF Step
<1>6. ASSUME NEW c \in Triggers, Finish(c), UNCHANGED <<logSeq, log>> PROVE RowsAreTheirs'
  BY <1>a, <1>b, <1>6 DEF Finish, Step
<1> HIDE DEF RowsAreTheirs
<1> QED
  BY <1>1, <1>2, <1>3, <1>4, <1>5, <1>6, LogSteps

LEMMA RunningStep ==
  ASSUME IInv, [Next]_vars
  PROVE  RunningRowsAreLive'
<1> USE DEF RunningRowsAreLive, Live
<1>a. RunningRowsAreLive /\ RowsAreTheirs /\ RowsAreCounted
  BY DEF IInv
<1>b. /\ log \in [Triggers -> Final \cup {"none", "running"}]
      /\ logSeq \in 0..MaxTriggers /\ rowOf \in [Triggers -> 0..MaxTriggers]
      /\ exec \in [Triggers -> ExecPCs]
      /\ \A n \in Triggers : n \in Nat /\ n # 0
  BY DEF IInv, TypeOK, Triggers
<1>c. ExecPCs = {"none", "begin", "mark", "check", "chat", "finish", "done"}
  BY DEF ExecPCs
<1>1. CASE LogSteady /\ (UNCHANGED phase \/ Start)
  <2>1. Up' => Up
    BY <1>1 DEF Start, Up
  <2>2. \A c \in Triggers : c \in Live /\ exec[c] # "finish" =>
                              c \in Live' /\ exec'[c] # "finish"
    BY <1>b, <1>c, <1>1 DEF LogSteady
  <2>3. UNCHANGED <<log, rowOf>>
    BY <1>1 DEF LogSteady
  <2> QED
    BY <1>a, <2>1, <2>2, <2>3
<1>2. CASE Boot
  BY <1>2 DEF Boot, Interrupted
<1>3. CASE Crash
  BY <1>3 DEF Crash, Up
<1>4. ASSUME NEW c \in Triggers, Record(c), UNCHANGED phase PROVE RunningRowsAreLive'
  <2>1. /\ rowOf' = [rowOf EXCEPT ![c] = logSeq + 1] /\ exec[c] = "begin"
        /\ exec' = [exec EXCEPT ![c] = "mark"]
    BY <1>4 DEF Record, Step
  <2>2. \A n \in Triggers : log'[n] = "running" => log[n] = "running" \/ n = logSeq + 1
    BY <1>b, <1>4 DEF Record, Evicted
  <2>3. rowOf[c] = 0
    BY <1>a, <2>1 DEF RowsAreTheirs
  <2>4. ASSUME NEW n \in Triggers, log'[n] = "running", Up'
        PROVE  \E d \in Live' : rowOf'[d] = n /\ exec'[d] # "finish"
    <3>1. CASE n = logSeq + 1
      BY <1>b, <1>c, <2>1, <3>1
    <3>2. CASE log[n] = "running"
      <4>1. PICK d \in Live : rowOf[d] = n /\ exec[d] # "finish"
        BY <1>a, <1>4, <2>4, <3>2 DEF Up
      <4>2. d # c
        BY <1>b, <2>3, <4>1
      <4> QED
        BY <1>b, <2>1, <4>1, <4>2
    <3> QED
      BY <2>2, <2>4, <3>1, <3>2
  <2> QED
    BY <2>4
<1>5. ASSUME NEW c \in Triggers, exec[c] \in {"check", "chat"}, Step(c, "finish"),
             NEW st \in {"success", "error"}, Settled(c, st),
             UNCHANGED <<phase, logSeq, rowOf>>
      PROVE  RunningRowsAreLive'
  <2>1. \A n \in Triggers : log'[n] = "running" => log[n] = "running" /\ n # rowOf[c]
    BY <1>a, <1>5 DEF Settled, RowsAreTheirs
  <2> QED
    BY <1>a, <1>b, <1>5, <2>1 DEF Step, Up
<1>6. ASSUME NEW c \in Triggers, Finish(c), UNCHANGED <<phase, logSeq, log>>
      PROVE  RunningRowsAreLive'
  BY <1>a, <1>b, <1>6 DEF Finish, Step, Up
<1> HIDE DEF RunningRowsAreLive
<1> QED
  BY <1>1, <1>2, <1>3, <1>4, <1>5, <1>6, LogSteps

LEMMA ExclusionStep ==
  ASSUME IInv, [Next]_vars
  PROVE  OneExecutionPerTask'
<1> USE DEF OneExecutionPerTask, Live, memory
<1>a. OneExecutionPerTask /\ TriggersAreFresh /\ TypeOK
  BY DEF IInv
<1>b. /\ trig \in [Triggers -> [pc : {"idle", "woken", "run", "destroy"},
                               id : 0..MaxSeq, once : BOOLEAN]]
      /\ exec \in [Triggers -> ExecPCs] /\ \A n \in Triggers : n \in Nat
      /\ fired \in Nat
  BY <1>a DEF TypeOK, Triggers
<1>c. ExecPCs = {"none", "begin", "mark", "check", "chat", "finish", "done"}
  BY DEF ExecPCs
<1>0. ASSUME UNCHANGED <<running, exec>>, \A c \in Live : trig'[c].id = trig[c].id
      PROVE  OneExecutionPerTask'
  BY <1>a, <1>0
<1>1. CASE Boot \/ Start
  BY <1>0, <1>1 DEF Boot, Start
<1>2. CASE Crash
  <2>1. \A c \in Triggers : exec'[c] \in {"none", "done"}
    BY <1>b, <1>c, <1>2 DEF Crash
  <2> QED
    BY <1>2, <2>1 DEF Crash
<1>3. CASE Add \/ PersistTask \/ PersistIndex \/ Return
  BY <1>0, <1>3 DEF Add, PersistTask, PersistIndex, Return
<1>4. CASE \E i \in Ids : Update(i) \/ Delete(i) \/ Get(i)
  BY <1>0, <1>4 DEF Update, Delete, BeginDelete, Get
<1>5. CASE \E i \in Ids : CronFires(i) \/ RunNow(i)
  <2>1. PICK i \in Ids, p \in {"woken", "run"} :
          /\ fired < MaxTriggers /\ UNCHANGED <<running, exec>>
          /\ trig' = [trig EXCEPT ![fired + 1] = [pc |-> p, id |-> i, once |-> FALSE]]
    BY <1>5 DEF CronFires, RunNow, Next1
  <2>2. fired + 1 \in Triggers /\ exec[fired + 1] = "none"
    BY <1>a, <1>b, <2>1 DEF Triggers, TriggersAreFresh
  <2>3. \A c \in Live : trig'[c].id = trig[c].id
    BY <1>b, <2>1, <2>2
  <2> QED
    BY <1>0, <2>1, <2>3
<1>6. ASSUME NEW c \in Triggers, ReadTask(c) PROVE OneExecutionPerTask'
  <2>1. exec[c] = "none"
    BY <1>a, <1>6 DEF ReadTask, TriggersAreFresh
  <2>2. \A d \in Triggers \ {c} : trig'[d] = trig[d]
    <3>1. CASE tasks[trig[c].id] = None \/ ~tasks[trig[c].id].on
      BY <1>b, <1>6, <3>1 DEF ReadTask, Goto
    <3>2. CASE ~(tasks[trig[c].id] = None \/ ~tasks[trig[c].id].on)
      BY <1>b, <1>6, <3>2 DEF ReadTask
    <3> QED
      BY <3>1, <3>2
  <2>3. UNCHANGED <<running, exec>>
    BY <1>6 DEF ReadTask
  <2> QED
    BY <1>0, <2>1, <2>2, <2>3
<1>7. ASSUME NEW c \in Triggers, RunTask(c) PROVE OneExecutionPerTask'
  <2>1. /\ exec[c] = "none" /\ exec' = [exec EXCEPT ![c] = "begin"]
        /\ trig[c].id \notin running /\ running' = running \cup {trig[c].id}
    BY <1>a, <1>7 DEF RunTask, TriggersAreFresh
  <2>2. \A d \in Triggers : trig'[d].id = trig[d].id
    BY <1>b, <1>7 DEF RunTask, AfterRun, Goto
  <2>3. Live' = Live \cup {c} /\ c \notin Live
    BY <1>b, <1>c, <2>1
  <2> HIDE DEF Live
  <2>4. running' = {trig'[d].id : d \in Live'}
    BY <1>a, <2>1, <2>2, <2>3 DEF Live
  <2>5. \A d, e \in Live' : trig'[d].id = trig'[e].id => d = e
    BY <1>a, <2>1, <2>2, <2>3 DEF Live
  <2> QED
    BY <2>4, <2>5
<1>8. ASSUME NEW c \in Triggers, SkipRun(c) PROVE OneExecutionPerTask'
  BY <1>0, <1>b, <1>8 DEF SkipRun, AfterRun, Goto
<1>9. ASSUME NEW c \in Triggers, DestroyOneShot(c) PROVE OneExecutionPerTask'
  <2>1. UNCHANGED <<running, exec>>
    BY <1>9 DEF DestroyOneShot, BeginDelete
  <2>2. \A d \in Triggers : trig'[d].id = trig[d].id
    <3> DEFINE mid == [trig EXCEPT ![c].pc = "idle"]
    <3>1. mid \in [Triggers -> [pc : {"idle", "woken", "run", "destroy"},
                                id : 0..MaxSeq, once : BOOLEAN]]
          /\ \A d \in Triggers : mid[d].id = trig[d].id
      BY <1>b
    <3>2. trig' = [mid EXCEPT ![c].once = FALSE]
      BY <1>9 DEF DestroyOneShot
    <3> HIDE DEF mid
    <3> QED
      BY <3>1, <3>2
  <2> QED
    BY <1>0, <2>1, <2>2
<1>10. ASSUME NEW c \in Triggers,
              Record(c) \/ Mark(c) \/ Denied(c) \/ Allowed(c) \/ Execute(c)
       PROVE  OneExecutionPerTask'
  <2>1. PICK p \in {"mark", "check", "chat", "finish"} :
          /\ exec[c] \in {"begin", "mark", "check", "chat"}
          /\ exec' = [exec EXCEPT ![c] = p] /\ UNCHANGED <<running, trig>>
    BY <1>10 DEF Record, Mark, Denied, Allowed, Execute, Step
  <2>2. Live' = Live
    BY <1>b, <1>c, <2>1
  <2> QED
    BY <1>a, <2>1, <2>2
<1>11. ASSUME NEW c \in Triggers, Finish(c) PROVE OneExecutionPerTask'
  <2>1. /\ exec[c] = "finish" /\ exec' = [exec EXCEPT ![c] = "done"] /\ UNCHANGED trig
        /\ running' = running \ {trig[c].id}
    BY <1>11 DEF Finish, Step
  <2>2. Live' = Live \ {c} /\ c \in Live
    BY <1>b, <1>c, <2>1
  <2> HIDE DEF Live
  <2>3. running' = {trig'[d].id : d \in Live'}
    BY <1>a, <2>1, <2>2 DEF Live
  <2> QED
    BY <1>a, <2>1, <2>2, <2>3
<1>12. CASE UNCHANGED vars
  BY <1>0, <1>12 DEF vars
<1> HIDE DEF OneExecutionPerTask
<1> QED
  BY <1>1, <1>2, <1>3, <1>4, <1>5, <1>6, <1>7, <1>8, <1>9, <1>10, <1>11, <1>12, Zenon
     DEF Next, Operation, Trigger, Execution

LEMMA InductiveInvariant == Spec => []IInv
<1>1. Init => IInv
  <2> SUFFICES ASSUME Init PROVE IInv
    OBVIOUS
  <2>1. TypeOK
    <3>1. /\ trig \in [Triggers -> [pc : {"idle", "woken", "run", "destroy"},
                                    id : 0..MaxSeq, once : BOOLEAN]]
          /\ exec \in [Triggers -> ExecPCs]
      BY DEF Init, NoTrigger, ExecPCs
    <3>2. /\ op \in Op \cup {None} /\ jobs \in [Ids -> Nat] /\ entries \in SUBSET Ids
          /\ running \in SUBSET Ids /\ fired \in 0..MaxTriggers
          /\ acked \in [Ids -> SUBSET (Task \cup {None})]
      BY DEF Init
    <3>3. /\ phase \in {"down", "booted", "started"}
          /\ seq \in 0..MaxSeq /\ diskSeq \in 0..MaxSeq
      BY DEF Init
    <3>5. tasks \in [Ids -> Task \cup {None}] /\ diskTasks \in [Ids -> Task \cup {None}]
      BY DEF Init
    <3>6. diskIndex \in (SUBSET Ids) \cup {None}
      BY DEF Init
    <3>4. /\ log \in [Triggers -> Final \cup {"none", "running"}]
          /\ logSeq \in 0..MaxTriggers /\ rowOf \in [Triggers -> 0..MaxTriggers]
      BY DEF Init
    <3> QED
      BY <3>1, <3>2, <3>3, <3>4, <3>5, <3>6 DEF TypeOK
  <2>2. Recorded = {} /\ \A c \in Triggers : exec[c] = "none" /\ trig[c].pc = "idle"
    BY DEF Init, Recorded, NoTrigger
  <2>3. LogIsBounded
    BY <2>1, <2>2, FS_EmptySet DEF Init, LogIsBounded
  <2>4. JobsAreEntries /\ TriggersAreFresh /\ DownIsIdle
    BY <2>2 DEF Init, JobsAreEntries, TriggersAreFresh, DownIsIdle
  <2>5. RowsAreCounted /\ RunningRowsAreLive
    BY DEF Init, RowsAreCounted, RunningRowsAreLive, Up
  <2>6. RowsAreTheirs
    BY <2>2 DEF Init, RowsAreTheirs
  <2>7. OneExecutionPerTask
    BY <2>2 DEF Init, OneExecutionPerTask, Live
  <2> QED
    BY <2>1, <2>3, <2>4, <2>5, <2>6, <2>7 DEF IInv
<1>2. IInv /\ [Next]_vars => IInv'
  BY TypeStep, JobsStep, FreshStep, BoundStep, IdleStep, CountedStep, TheirsStep,
     ExclusionStep, RunningStep, Zenon DEF IInv
<1> QED
  BY <1>1, <1>2, PTL DEF Spec

\* Every variable keeps its type: no number of a task or of a row exceeds what was
\* handed out, and no entry is taken out of cron more often than it was put in.
THEOREM TypeCorrect == Spec => []TypeOK
<1>1. IInv => TypeOK
  BY DEF IInv
<1> QED
  BY <1>1, InductiveInvariant, PTL

\* The running map, the executions and the running rows of the log stay three views of
\* one set, whatever cron, RunNow, Update, Delete and crashes do.
THEOREM ExecutionsAccounted == Spec => []ExecutionsAreAccounted
<1>1. IInv => ExecutionsAreAccounted
  BY DEF IInv, ExecutionsAreAccounted
<1> QED
  BY <1>1, InductiveInvariant, PTL

\* A row with a final status is never written again, except by eviction.
THEOREM RowsStayFinal == Spec => FinalRowsStay
<1>1. ASSUME IInv, [Next]_vars, NEW n \in Triggers, log[n] \in Final
      PROVE  log'[n] \in {log[n], "none"}
  <2> USE <1>1
  <2>a. /\ log \in [Triggers -> Final \cup {"none", "running"}]
        /\ "none" \notin Final /\ "running" \notin Final
        /\ logSeq \in Nat /\ n \in Nat
    BY DEF IInv, TypeOK, Final, Triggers
  <2>1. CASE LogSteady
    BY <2>1 DEF LogSteady
  <2>2. CASE Boot
    BY <2>a, <2>2 DEF Boot, Interrupted
  <2>3. CASE Crash
    BY <2>3 DEF Crash
  <2>4. ASSUME NEW c \in Triggers, Record(c) PROVE log'[n] \in {log[n], "none"}
    <3>1. n # logSeq + 1
      BY <2>a, <2>4 DEF Record, IInv, DownIsIdle, RowsAreCounted, Up
    <3> QED
      BY <2>a, <2>4, <3>1 DEF Record, Evicted
  <2>5. ASSUME NEW c \in Triggers, exec[c] \in {"check", "chat"},
               NEW st \in {"success", "error"}, Settled(c, st)
        PROVE  log'[n] \in {log[n], "none"}
    <3>1. n # rowOf[c]
      BY <2>5 DEF IInv, RowsAreTheirs
    <3> QED
      BY <2>5, <3>1 DEF Settled
  <2>6. CASE UNCHANGED log
    BY <2>6
  <2> QED
    BY <2>1, <2>2, <2>3, <2>4, <2>5, <2>6, LogSteps
<1>2. IInv /\ [Next]_vars =>
        [\A n \in Triggers : log[n] \in Final => log'[n] \in {log[n], "none"}]_vars
  BY <1>1, Zenon
<1> QED
  BY <1>2, InductiveInvariant, PTL DEF Spec, FinalRowsStay
-------------------------------------------------------------------------------
\* A step outside the lock's own code changes nothing that is persisted, but for the
\* record of a task that exists, which is written again.
TableSteady ==
  /\ UNCHANGED <<phase, seq, tasks, entries, op, diskSeq, diskIndex, acked>>
  /\ \/ UNCHANGED diskTasks
     \/ \E i \in Ids : /\ Up /\ op = None /\ tasks[i] # None
                       /\ diskTasks' = [diskTasks EXCEPT ![i] = tasks[i]]

LEMMA TableSteps ==
  ASSUME IInv, [Next]_vars
  PROVE  \/ TableSteady \/ Boot \/ Start \/ Crash \/ Add \/ PersistTask \/ PersistIndex
         \/ Return \/ \E i \in Ids : Update(i) \/ BeginDelete(i)
<1> USE DEF TableSteady, memory, disk
<1>a. TriggersAreFresh /\ DownIsIdle /\ TypeOK
  BY DEF IInv
<1>1. CASE \E i \in Ids : Get(i) \/ RunNow(i)
  BY <1>1 DEF Get, RunNow, RefreshNext
<1>2. CASE \E i \in Ids : CronFires(i)
  BY <1>2 DEF CronFires
<1>3. CASE \E i \in Ids : Delete(i)
  BY <1>3 DEF Delete
<1>4. CASE \E c \in Triggers : ReadTask(c) \/ RunTask(c) \/ SkipRun(c)
  BY <1>4 DEF ReadTask, RunTask, SkipRun
<1>5. ASSUME NEW c \in Triggers, DestroyOneShot(c)
      PROVE  TableSteady \/ \E i \in Ids : BeginDelete(i)
  <2>1. trig[c].id \in Ids
    BY <1>a, <1>5 DEF DestroyOneShot, TriggersAreFresh
  <2> QED
    BY <1>5, <2>1 DEF DestroyOneShot
<1>6. CASE \E c \in Triggers : Record(c) \/ Denied(c) \/ Allowed(c) \/ Execute(c) \/ Finish(c)
  BY <1>6 DEF Record, Denied, Allowed, Execute, Finish
<1>7. ASSUME NEW c \in Triggers, Mark(c) PROVE TableSteady
  <2>1. Up /\ trig[c].id \in Ids
    BY <1>a, <1>7 DEF Mark, DownIsIdle, Up, TriggersAreFresh
  <2> QED
    BY <1>7, <2>1 DEF Mark
<1>8. CASE UNCHANGED vars
  BY <1>8 DEF vars
<1> QED
  BY <1>1, <1>2, <1>3, <1>4, <1>5, <1>6, <1>7, <1>8, Zenon
     DEF Next, Operation, Trigger, Execution

\* The entries of a started scheduler are those of its enabled tasks, but for the task of
\* the operation under way.
EntriesFollow ==
  phase = "started" =>
    \A i \in Ids : \/ op # None /\ op.id = i
                   \/ i \in entries <=> tasks[i] # None /\ tasks[i].on

\* Whatever Add, Update, Delete and the triggers do, each enabled task of a started
\* scheduler has exactly one cron entry, and no other has any.
THEOREM ScheduleIsKept == Spec => []ScheduleMatchesTasks
<1>1. Init => EntriesFollow
  BY DEF Init, EntriesFollow
<1>2. ASSUME IInv, EntriesFollow, [Next]_vars PROVE EntriesFollow'
  <2> USE <1>2 DEF EntriesFollow
  <2>a. TypeOK /\ TypeOK'
    BY TypeStep DEF IInv
  <2>b. /\ op \in Op \cup {None} /\ op' \in Op \cup {None} /\ entries \in SUBSET Ids
        /\ tasks \in [Ids -> Task \cup {None}]
    BY <2>a DEF TypeOK
  <2>1. CASE TableSteady
    BY <2>1 DEF TableSteady
  <2>2. CASE Boot \/ Crash
    BY <2>2 DEF Boot, Crash
  <2>3. CASE Start
    BY <2>3 DEF Start
  <2>4. ASSUME NEW j \in Ids, op' # None, op'.id = j, UNCHANGED <<phase, entries>>, op = None,
               \A i \in Ids \ {j} : tasks'[i] = tasks[i]
        PROVE  EntriesFollow'
    BY <2>4
  <2>5. CASE Add
    <3>1. seq + 1 \in Ids /\ op' = [kind |-> "add", id |-> seq + 1, at |-> "task"]
      BY <2>5, <2>a DEF Add, TypeOK, Ids
    <3>2. op' # None
      BY <3>1 DEF Op
    <3> QED
      BY <2>4, <2>5, <2>b, <3>1, <3>2 DEF Add
  <2>6. ASSUME NEW j \in Ids, Update(j) \/ BeginDelete(j) PROVE EntriesFollow'
    <3>1. PICK k \in {"update", "delete"} : op' = [kind |-> k, id |-> j, at |-> "task"]
      BY <2>6 DEF Update, BeginDelete
    <3>2. op' # None
      BY <3>1 DEF Op
    <3> QED
      BY <2>4, <2>6, <2>b, <3>1, <3>2 DEF Update, BeginDelete
  <2>7. CASE PersistTask \/ PersistIndex
    <3>1. PICK a \in {"index", "entry"} : op' = [op EXCEPT !.at = a]
      BY <2>7 DEF PersistTask, PersistIndex
    <3>2. op \in Op
      BY <2>b, <2>7 DEF PersistTask, PersistIndex
    <3>3. op' \in Op /\ op'.id = op.id
      BY <3>1, <3>2 DEF Op
    <3>4. op' # None /\ UNCHANGED <<phase, tasks, entries>>
      BY <2>7, <3>3 DEF PersistTask, PersistIndex, memory
    <3> QED
      BY <3>3, <3>4
  <2>8. CASE Return
    BY <2>b, <2>8 DEF Return, Rescheduled, Op
  <2> HIDE DEF EntriesFollow
  <2> QED
    BY <2>1, <2>2, <2>3, <2>5, <2>6, <2>7, <2>8, TableSteps
<1>3. IInv /\ EntriesFollow => ScheduleMatchesTasks
  BY DEF IInv, JobsAreEntries, EntriesFollow, ScheduleMatchesTasks
<1>4. IInv /\ EntriesFollow /\ [Next]_vars => EntriesFollow'
  BY <1>2
<1> QED
  BY <1>1, <1>3, <1>4, InductiveInvariant, PTL DEF Spec
-------------------------------------------------------------------------------
\* What a restart would find for a task.
LoadedTask(i) == IF i \in Loaded THEN diskTasks[i] ELSE None

\* The store and the table agree, but for the task of the operation under way; what was
\* answered is in both, and no number above diskSeq was ever handed out.
Persisted ==
  /\ Up => diskSeq = seq
  /\ \A i \in Ids :
       /\ i > diskSeq => acked[i] = {}
       /\ tasks[i] # None \/ diskTasks[i] # None => acked[i] # {}
       /\ acked[i] # {} => LoadedTask(i) \in acked[i]
       /\ Up /\ acked[i] # {} => tasks[i] \in acked[i]
       /\ Up /\ tasks[i] # None /\ diskTasks[i] # tasks[i] =>
            op # None /\ op.id = i /\ op.at = "task"
       /\ Up /\ LoadedTask(i) # tasks[i] => op # None /\ op.id = i /\ op.at # "entry"
  /\ op # None =>
       /\ acked[op.id] # {}
       /\ op.kind = "update" =>
            op.id \in Loaded /\ tasks[op.id] # None /\ op.at # "index"

LEMMA PersistedStep ==
  ASSUME ~WritesMayFail, IInv, Persisted, [Next]_vars
  PROVE  Persisted'
<1> USE DEF Persisted
<1>a. /\ TypeOK /\ TypeOK' /\ DownIsIdle
      /\ Outcomes = {TRUE}
  BY TypeStep DEF IInv, Outcomes
<1>b. /\ op \in Op \cup {None} /\ op' \in Op \cup {None}
      /\ tasks \in [Ids -> Task \cup {None}] /\ diskTasks \in [Ids -> Task \cup {None}]
      /\ diskIndex \in (SUBSET Ids) \cup {None}
      /\ acked \in [Ids -> SUBSET (Task \cup {None})]
      /\ seq \in Nat /\ diskSeq \in Nat /\ \A i \in Ids : i \in Nat
      /\ phase \in {"down", "booted", "started"}
  BY <1>a DEF TypeOK, Ids
<1>0. ASSUME UNCHANGED <<seq, tasks, op, diskSeq, diskTasks, diskIndex, acked>>, Up' => Up
      PROVE  Persisted'
  BY <1>0 DEF LoadedTask, Loaded
<1>1. CASE TableSteady
  <2>1. diskTasks' = diskTasks
    BY <1>1, <1>b DEF TableSteady
  <2> QED
    BY <1>0, <1>1, <2>1 DEF TableSteady, Up
<1>2. CASE Start
  BY <1>0, <1>2 DEF Start, Up, disk
<1>3. CASE Boot
  <2>1. /\ seq' = diskSeq /\ op' = None
        /\ UNCHANGED <<diskSeq, diskTasks, diskIndex>>
        /\ \A i \in Ids : tasks'[i] = LoadedTask(i)
        /\ \A i \in Ids : acked'[i] = IF tasks'[i] \in acked[i] THEN {tasks'[i]} ELSE acked[i]
    BY <1>a, <1>3 DEF Boot, DownIsIdle, disk, LoadedTask
  <2>2. \A i \in Ids : LoadedTask(i)' = LoadedTask(i) /\ LoadedTask(i) \in {None, diskTasks[i]}
    BY <2>1 DEF LoadedTask, Loaded
  <2>3. \A i \in Ids : /\ acked[i] = {} => acked'[i] = {}
                       /\ acked[i] # {} => acked'[i] = {tasks'[i]}
    BY <2>1
  <2>4. \A i \in Ids : tasks'[i] # None => diskTasks'[i] = tasks'[i]
    BY <2>1, <2>2
  <2>5. \A i \in Ids : tasks'[i] # None \/ diskTasks'[i] # None => acked[i] # {}
    BY <2>1, <2>4
  <2>6. \A i \in Ids : LoadedTask(i)' = tasks'[i]
    BY <2>1, <2>2
  <2> QED
    BY <2>1, <2>3, <2>4, <2>5, <2>6
<1>4. CASE Crash
  <2>1. /\ ~Up' /\ op' = None /\ UNCHANGED <<diskSeq, diskTasks, diskIndex, acked>>
        /\ \A i \in Ids : tasks'[i] = None
    BY <1>4 DEF Crash, Up, disk
  <2>2. \A i \in Ids : LoadedTask(i)' = LoadedTask(i)
    BY <2>1 DEF LoadedTask, Loaded
  <2> QED
    BY <2>1, <2>2
<1>5. CASE Add
  <2>1. PICK t \in Task : /\ tasks' = [tasks EXCEPT ![seq + 1] = t]
                          /\ acked' = [acked EXCEPT ![seq + 1] = {None, t}]
    BY <1>5 DEF Add
  <2>2. /\ seq + 1 \in Ids /\ Up /\ Up' /\ op = None /\ seq' = seq + 1 /\ diskSeq' = seq + 1
        /\ op' = [kind |-> "add", id |-> seq + 1, at |-> "task"]
        /\ UNCHANGED <<diskTasks, diskIndex>>
    BY <1>a, <1>b, <1>5 DEF Add, Up, Ids, TypeOK
  <2>3. op' # None /\ op'.id = seq + 1 /\ op'.at = "task" /\ op'.kind = "add"
    BY <2>2 DEF Op
  <2>4. \A i \in Ids : LoadedTask(i)' = LoadedTask(i)
    BY <2>2 DEF LoadedTask, Loaded
  <2>5. LoadedTask(seq + 1) = None
    BY <1>b, <2>2 DEF LoadedTask
  <2>6. tasks'[seq + 1] = t /\ acked'[seq + 1] = {None, t}
        /\ \A i \in Ids \ {seq + 1} : tasks'[i] = tasks[i] /\ acked'[i] = acked[i]
    BY <1>b, <2>1, <2>2
  <2>7. ASSUME NEW i \in Ids \ {seq + 1}, i > diskSeq' PROVE acked'[i] = {}
    BY <1>b, <2>2, <2>6, <2>7
  <2> QED
    BY <1>b, <2>2, <2>3, <2>4, <2>5, <2>6, <2>7
<1>6. ASSUME NEW j \in Ids, Update(j) \/ BeginDelete(j) PROVE Persisted'
  <2>1. PICK t \in Task \cup {None} :
          /\ tasks' = [tasks EXCEPT ![j] = t] /\ acked' = [acked EXCEPT ![j] = @ \cup {t}]
          /\ \/ op' = [kind |-> "update", id |-> j, at |-> "task"] /\ t # None
             \/ op' = [kind |-> "delete", id |-> j, at |-> "task"]
    <3>1. CASE Update(j)
      <4>1. PICK t \in Task \ {tasks[j]} : /\ tasks' = [tasks EXCEPT ![j] = t]
                                          /\ acked' = [acked EXCEPT ![j] = @ \cup {t}]
        BY <3>1 DEF Update
      <4>2. t # None /\ op' = [kind |-> "update", id |-> j, at |-> "task"]
        BY <3>1 DEF Update
      <4> QED
        BY <4>1, <4>2
    <3>2. CASE BeginDelete(j)
      <4>1. /\ tasks' = [tasks EXCEPT ![j] = None]
            /\ acked' = [acked EXCEPT ![j] = @ \cup {None}]
            /\ op' = [kind |-> "delete", id |-> j, at |-> "task"]
        BY <3>2 DEF BeginDelete
      <4> QED
        BY <4>1
    <3> QED
      BY <1>6, <3>1, <3>2
  <2>2. /\ Up /\ Up' /\ op = None /\ tasks[j] # None
        /\ UNCHANGED <<seq, diskSeq, diskTasks, diskIndex>>
    BY <1>6 DEF Update, BeginDelete, Up, disk
  <2>3. op' # None /\ op'.id = j /\ op'.at = "task" /\ (op'.kind = "update" => t # None)
    BY <2>1 DEF Op
  <2>4. \A i \in Ids : LoadedTask(i)' = LoadedTask(i)
    BY <2>2 DEF LoadedTask, Loaded
  <2>5. j \in Loaded /\ Loaded' = Loaded
    <3>1. LoadedTask(j) # None
      BY <2>2
    <3> QED
      BY <2>2, <3>1 DEF LoadedTask, Loaded
  <2>6. /\ tasks'[j] = t /\ acked'[j] = acked[j] \cup {t}
        /\ \A i \in Ids \ {j} : tasks'[i] = tasks[i] /\ acked'[i] = acked[i]
    BY <1>b, <2>1
  <2> QED
    BY <1>b, <2>2, <2>3, <2>4, <2>5, <2>6
<1>7. CASE PersistTask
  <2>1. /\ diskTasks' = [diskTasks EXCEPT ![op.id] = tasks[op.id]]
        /\ op # None /\ op.at = "task"
        /\ UNCHANGED <<phase, seq, tasks, diskSeq, diskIndex, acked>>
        /\ op' = [op EXCEPT !.at = IF op.kind = "update" THEN "entry" ELSE "index"]
    BY <1>a, <1>7 DEF PersistTask, memory
  <2>2. op \in Op /\ op.id \in Ids
    BY <1>b, <2>1 DEF Op
  <2>3. /\ op' # None /\ op'.id = op.id /\ op'.kind = op.kind
        /\ op'.at = IF op.kind = "update" THEN "entry" ELSE "index"
    <3>1. op' \in Op /\ op'.id = op.id /\ op'.kind = op.kind
          /\ op'.at = IF op.kind = "update" THEN "entry" ELSE "index"
      BY <2>1, <2>2 DEF Op
    <3> QED
      BY <3>1
  <2>4. Up /\ Up'
    BY <1>a, <1>b, <2>1 DEF DownIsIdle, Up
  <2>5. /\ diskTasks'[op.id] = tasks[op.id]
        /\ \A i \in Ids \ {op.id} : diskTasks'[i] = diskTasks[i]
    BY <1>b, <2>1, <2>2
  <2>6. \A i \in Ids \ {op.id} : LoadedTask(i)' = LoadedTask(i)
    BY <2>1, <2>5 DEF LoadedTask, Loaded
  <2>7. LoadedTask(op.id)' \in {tasks[op.id], LoadedTask(op.id)}
    BY <2>1, <2>2, <2>5 DEF LoadedTask, Loaded
  <2>8. op.kind = "update" => LoadedTask(op.id)' = tasks[op.id] /\ op.id \in Loaded'
    BY <2>1, <2>2, <2>5 DEF LoadedTask, Loaded
  <2> QED
    BY <1>b, <2>1, <2>2, <2>3, <2>4, <2>5, <2>6, <2>7, <2>8
<1>8. CASE PersistIndex
  <2>1. /\ diskIndex' = {i \in Ids : tasks[i] # None}
        /\ op # None /\ op.at = "index"
        /\ UNCHANGED <<phase, seq, tasks, diskSeq, diskTasks, acked>>
        /\ op' = [op EXCEPT !.at = "entry"]
    BY <1>a, <1>8 DEF PersistIndex, memory
  <2>2. op \in Op /\ op.id \in Ids /\ op.kind # "update"
    BY <1>b, <2>1 DEF Op
  <2>3. op' # None /\ op'.id = op.id /\ op'.kind = op.kind /\ op'.at = "entry"
    <3>1. op' \in Op /\ op'.id = op.id /\ op'.kind = op.kind /\ op'.at = "entry"
      BY <2>1, <2>2 DEF Op
    <3> QED
      BY <3>1
  <2>4. Up /\ Up'
    BY <1>a, <1>b, <2>1 DEF DownIsIdle, Up
  <2>5. diskIndex' # None
    <3>1. diskIndex' \in SUBSET Ids
      BY <2>1
    <3> QED
      BY <3>1
  <2>6. \A i \in Ids : LoadedTask(i)' = tasks[i]
    BY <2>1, <2>4, <2>5 DEF LoadedTask, Loaded
  <2> QED
    BY <1>b, <2>1, <2>2, <2>3, <2>4, <2>6
<1>9. CASE Return
  <2>1. /\ op # None /\ op.at = "entry" /\ op' = None
        /\ acked' = [acked EXCEPT ![op.id] = {tasks[op.id]}]
        /\ UNCHANGED <<phase, seq, tasks, diskSeq, diskTasks, diskIndex>>
    BY <1>9 DEF Return, disk
  <2>2. op.id \in Ids
    BY <1>b, <2>1 DEF Op
  <2>3. Up /\ Up'
    BY <1>a, <1>b, <2>1 DEF DownIsIdle, Up
  <2>4. /\ acked'[op.id] = {tasks[op.id]}
        /\ \A i \in Ids \ {op.id} : acked'[i] = acked[i]
    BY <1>b, <2>1, <2>2
  <2>5. \A i \in Ids : LoadedTask(i)' = LoadedTask(i)
    BY <2>1 DEF LoadedTask, Loaded
  <2> QED
    BY <1>b, <2>1, <2>2, <2>3, <2>4, <2>5
<1> HIDE DEF Persisted
<1> QED
  BY <1>1, <1>2, <1>3, <1>4, <1>5, <1>6, <1>7, <1>8, <1>9, TableSteps

\* With a store whose writes succeed, the store and the table keep agreeing.
LEMMA PersistedAlways ==
  ASSUME ~WritesMayFail
  PROVE  Spec => []Persisted
<1>1. Init => Persisted
  BY DEF Init, Persisted, LoadedTask, Loaded, Up
<1>2. IInv /\ Persisted /\ [Next]_vars => Persisted'
  BY PersistedStep
<1> QED
  BY <1>1, <1>2, InductiveInvariant, PTL DEF Spec

\* The promise of clock.go's header, that a restart loses nothing: what Add, Update or
\* Delete has answered is what the table holds, also after crashes at any point, as long
\* as the writes of the store succeed.
THEOREM AnswersAreKept ==
  ASSUME ~WritesMayFail
  PROVE  Spec => []AnsweredIsKept
<1>1. Persisted => AnsweredIsKept
  BY DEF Persisted, AnsweredIsKept
<1> QED
  BY <1>1, PersistedAlways, PTL

\* Neither the number of a task nor a finished row is ever used again, not after a
\* deletion and not after a crash.
THEOREM NothingReused ==
  ASSUME ~WritesMayFail
  PROVE  Spec => NothingIsReused
<1>1. IInv /\ Persisted /\ [Next]_vars => [Add => acked[seq + 1] = {}]_vars
  <2>1. ASSUME IInv, Persisted, Add PROVE acked[seq + 1] = {}
    BY <2>1 DEF IInv, TypeOK, Add, Persisted, Ids, Up
  <2> QED
    BY <2>1, Zenon
<1>2. Spec => NumbersAreFresh
  BY <1>1, InductiveInvariant, PersistedAlways, PTL DEF Spec, NumbersAreFresh
<1> QED
  BY <1>2, RowsStayFinal, PTL DEF NothingIsReused
===============================================================================
