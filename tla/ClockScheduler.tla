----------------------------- MODULE ClockScheduler -----------------------------
(***************************************************************************)
(* The AI scheduled tasks of pluginaichat/clock.go: the task table and its *)
(* persistence, the cron entries, the triggers (a cron job or RunNow), the *)
(* executions and their log rows (bot/component/tasklog).                  *)
(*                                                                         *)
(* All changes of the task table happen under clockManager.mu.  Its holder *)
(* is op, whose store writes are steps of their own because the process    *)
(* may die between two of them.  A task's id is its sequence number and a  *)
(* task is reduced to the two flags the scheduler looks at.                *)
(***************************************************************************)
EXTENDS Naturals, FiniteSets, FiniteSetsExt

CONSTANTS MaxSeq,        \* bound: tasks ever created
          MaxTriggers,   \* bound: cron firings and RunNow calls
          MaxLog,        \* rows the execution log keeps
          WritesMayFail, \* a store write may fail (its result is ignored)
          None

ASSUME ClockAssumption ==
  /\ MaxSeq \in Nat /\ MaxTriggers \in Nat
  /\ MaxLog \in Nat \ {0}
  /\ WritesMayFail \in BOOLEAN

Ids      == 1..MaxSeq
Triggers == 1..MaxTriggers
Task     == [on : BOOLEAN, once : BOOLEAN]
Op       == [kind : {"add", "update", "delete"}, id : Ids,
             at : {"task", "index", "entry"}]

ASSUME NoneAssumption ==
  None \notin Task /\ None \notin Op /\ \A ids \in SUBSET Ids : ids # None

VARIABLES phase,    \* "down", "booted" (newClockManager) or "started" (Start)
          seq,      \* m.seq
          tasks,    \* m.tasks: None where the id has no task
          entries,  \* ids with an entry in m.entries
          jobs,     \* jobs[id]: cron entries that fire the task
          running,  \* m.running
          op,       \* the Add, Update or Delete that holds m.mu, or None
          diskSeq, diskTasks, diskIndex,  \* the keys of the "clock:" store
          trig,     \* the triggers: pc, task id, whether to destroy the task
          exec,     \* control point of the goroutine each trigger spawned
          fired,    \* number of triggers so far
          log,      \* rows of ania_task_log: status, "none" where there is no row
          logSeq,   \* Logger.seq
          rowOf,    \* the log row of each execution
          acked     \* history: what each id may be after what callers were told

memory == <<seq, tasks, entries, jobs, running>>
disk   == <<diskSeq, diskTasks, diskIndex>>
logs   == <<log, logSeq, rowOf>>
vars   == <<phase, memory, op, disk, trig, exec, fired, logs, acked>>

\* error: also the status timeout of the code.
Final   == {"success", "error", "interrupted"}
ExecPCs == {"none", "begin", "mark", "check", "chat", "finish", "done"}
Live    == {c \in Triggers : exec[c] \in ExecPCs \ {"none", "done"}}

NoTrigger == [pc |-> "idle", id |-> 0, once |-> FALSE]

Init ==
  /\ phase = "down"
  /\ seq = 0 /\ tasks = [i \in Ids |-> None]
  /\ entries = {} /\ jobs = [i \in Ids |-> 0] /\ running = {}
  /\ op = None
  /\ diskSeq = 0 /\ diskTasks = [i \in Ids |-> None] /\ diskIndex = None
  /\ trig = [c \in Triggers |-> NoTrigger]
  /\ exec = [c \in Triggers |-> "none"] /\ fired = 0
  /\ log = [n \in Triggers |-> "none"] /\ logSeq = 0
  /\ rowOf = [c \in Triggers |-> 0]
  /\ acked = [i \in Ids |-> {}]
-------------------------------------------------------------------------------
(* The life of the process.                                                *)

\* loadAll: the ids of the index, or of all task keys if there is no index.
Loaded == IF diskIndex = None THEN {i \in Ids : diskTasks[i] # None}
                              ELSE diskIndex

\* Mutant: MarkRunningInterrupted is forgotten.
NotInterrupted == log

\* MarkRunningInterrupted.
Interrupted ==
  [n \in Triggers |-> IF log[n] = "running" THEN "interrupted" ELSE log[n]]

\* maxSeq: the greatest number of a row.
LastRow == Max({n \in Triggers : log[n] # "none"} \cup {0})

\* newClockManager: load the store, mark the rows of the last process.
Boot ==
  /\ phase = "down" /\ phase' = "booted"
  /\ tasks' = [i \in Ids |-> IF i \in Loaded THEN diskTasks[i] ELSE None]
  /\ seq' = diskSeq
  /\ log' = Interrupted
  /\ logSeq' = LastRow
  /\ acked' = [i \in Ids |-> IF tasks'[i] \in acked[i] THEN {tasks'[i]}
                                                     ELSE acked[i]]
  /\ UNCHANGED <<entries, jobs, running, op, disk, trig, exec, fired, rowOf>>

\* Start, called by Awake once the bot is there: schedule what was loaded.
\* (scheduleLocked persists NextRunAt, which is not part of Task.)
Start ==
  /\ phase = "booted" /\ op = None /\ phase' = "started"
  /\ entries' = {i \in Ids : tasks[i] # None /\ tasks[i].on}
  /\ jobs' = [i \in Ids |-> IF i \in entries' THEN 1 ELSE 0]
  /\ UNCHANGED <<seq, tasks, running, op, disk, trig, exec, fired, logs, acked>>

\* The process dies at any point; goroutines and memory are gone.
Crash ==
  /\ phase # "down" /\ phase' = "down"
  /\ seq' = 0 /\ tasks' = [i \in Ids |-> None]
  /\ entries' = {} /\ jobs' = [i \in Ids |-> 0] /\ running' = {}
  /\ op' = None
  /\ trig' = [c \in Triggers |-> NoTrigger]
  /\ exec' = [c \in Triggers |-> IF c \in Live THEN "done" ELSE exec[c]]
  /\ logSeq' = 0 /\ rowOf' = [c \in Triggers |-> 0]
  /\ UNCHANGED <<disk, fired, log, acked>>
-------------------------------------------------------------------------------
(* Add, Update and Delete, under m.mu.                                     *)

Up == phase # "down"

\* A write of the store either happens or fails unnoticed.
Outcomes == IF WritesMayFail THEN BOOLEAN ELSE {TRUE}

\* Mutant: the sequence number is not persisted.
AddSeqInMemory ==
  /\ Up /\ op = None /\ seq < MaxSeq
  /\ seq' = seq + 1
  /\ \E t \in Task : /\ tasks' = [tasks EXCEPT ![seq + 1] = t]
                    /\ acked' = [acked EXCEPT ![seq + 1] = {None, t}]
  /\ op' = [kind |-> "add", id |-> seq + 1, at |-> "task"]
  /\ UNCHANGED <<phase, entries, jobs, running, disk, trig, exec, fired, logs>>

\* Add: nextID hands out and persists the number, then the table changes.
Add ==
  /\ Up /\ op = None /\ seq < MaxSeq
  /\ seq' = seq + 1
  /\ \E ok \in Outcomes : diskSeq' = IF ok THEN seq + 1 ELSE diskSeq
  /\ \E t \in Task : /\ tasks' = [tasks EXCEPT ![seq + 1] = t]
                    /\ acked' = [acked EXCEPT ![seq + 1] = {None, t}]
  /\ op' = [kind |-> "add", id |-> seq + 1, at |-> "task"]
  /\ UNCHANGED <<phase, entries, jobs, running, diskTasks, diskIndex, trig, exec,
                 fired, logs>>

\* Update: a changed copy replaces the task.
Update(i) ==
  /\ Up /\ op = None /\ tasks[i] # None
  /\ \E t \in Task \ {tasks[i]} :
       /\ tasks' = [tasks EXCEPT ![i] = t]
       /\ acked' = [acked EXCEPT ![i] = @ \cup {t}]
  /\ op' = [kind |-> "update", id |-> i, at |-> "task"]
  /\ UNCHANGED <<phase, seq, entries, jobs, running, disk, trig, exec, fired,
                 logs>>

\* Delete, up to its first write.
BeginDelete(i) ==
  /\ Up /\ op = None /\ tasks[i] # None
  /\ tasks' = [tasks EXCEPT ![i] = None]
  /\ acked' = [acked EXCEPT ![i] = @ \cup {None}]
  /\ op' = [kind |-> "delete", id |-> i, at |-> "task"]
  /\ UNCHANGED <<phase, seq, entries, jobs, running, disk, exec, fired, logs>>

Delete(i) == BeginDelete(i) /\ UNCHANGED trig

\* Mutant: an update is not written.
PersistNewOnly ==
  /\ op # None /\ op.at = "task"
  /\ diskTasks' = IF op.kind = "update" THEN diskTasks
                  ELSE [diskTasks EXCEPT ![op.id] = tasks[op.id]]
  /\ op' = [op EXCEPT !.at = IF op.kind = "update" THEN "entry" ELSE "index"]
  /\ UNCHANGED <<phase, memory, diskSeq, diskIndex, trig, exec, fired, logs,
                 acked>>

\* persistTaskLocked, or the deletion of the task's key.
PersistTask ==
  /\ op # None /\ op.at = "task"
  /\ \E ok \in Outcomes :
       diskTasks' = IF ok THEN [diskTasks EXCEPT ![op.id] = tasks[op.id]]
                          ELSE diskTasks
  /\ op' = [op EXCEPT !.at = IF op.kind = "update" THEN "entry" ELSE "index"]
  /\ UNCHANGED <<phase, memory, diskSeq, diskIndex, trig, exec, fired, logs,
                 acked>>

\* persistIndexLocked.
PersistIndex ==
  /\ op # None /\ op.at = "index"
  /\ \E ok \in Outcomes :
       diskIndex' = IF ok THEN {i \in Ids : tasks[i] # None} ELSE diskIndex
  /\ op' = [op EXCEPT !.at = "entry"]
  /\ UNCHANGED <<phase, memory, diskSeq, diskTasks, trig, exec, fired, logs,
                 acked>>

\* Mutant: Update schedules again without unscheduling.
RescheduledTwice(i) ==
  /\ entries' = IF tasks[i] = None THEN entries \ {i} ELSE entries \cup {i}
  /\ jobs' = IF tasks[i] = None \/ ~tasks[i].on THEN [jobs EXCEPT ![i] = 0]
                                  ELSE [jobs EXCEPT ![i] = @ + 1]

\* unscheduleLocked, then scheduleLocked if the task is there and enabled.
Rescheduled(i) ==
  LET on   == tasks[i] # None /\ tasks[i].on
      left == IF i \in entries THEN jobs[i] - 1 ELSE jobs[i] IN
  /\ entries' = IF on THEN entries \cup {i} ELSE entries \ {i}
  /\ jobs' = [jobs EXCEPT ![i] = IF on THEN left + 1 ELSE left]

\* The cron entries follow if the scheduler has started; the caller is answered.
Return ==
  /\ op # None /\ op.at = "entry"
  /\ IF phase = "started" THEN Rescheduled(op.id) ELSE UNCHANGED <<entries, jobs>>
  /\ op' = None
  /\ acked' = [acked EXCEPT ![op.id] = {tasks[op.id]}]
  /\ UNCHANGED <<phase, seq, tasks, running, disk, trig, exec, fired, logs>>

\* refreshNextLocked: a scheduled task whose next firing moved is written again.
RefreshNext(i) ==
  \/ UNCHANGED diskTasks
  \/ /\ i \in entries /\ tasks[i].on
     /\ diskTasks' = [diskTasks EXCEPT ![i] = tasks[i]]

\* Get and List.
Get(i) ==
  /\ Up /\ op = None /\ tasks[i] # None
  /\ RefreshNext(i)
  /\ UNCHANGED <<phase, memory, op, diskSeq, diskIndex, trig, exec, fired, logs,
                 acked>>
-------------------------------------------------------------------------------
(* Triggers.                                                               *)

Next1 == fired + 1
Goto(c, p) == trig' = [trig EXCEPT ![c].pc = p]

\* The cron library starts a goroutine for an entry that is due.
CronFires(i) ==
  /\ phase = "started" /\ jobs[i] > 0 /\ fired < MaxTriggers
  /\ fired' = Next1
  /\ trig' = [trig EXCEPT ![Next1] =
                [pc |-> "woken", id |-> i, once |-> FALSE]]
  /\ UNCHANGED <<phase, memory, op, disk, exec, logs, acked>>

\* The cron closure reads the task's current state and lets the lock go.
ReadTask(c) ==
  /\ trig[c].pc = "woken" /\ op = None
  /\ LET t == tasks[trig[c].id] IN
       IF t = None \/ ~t.on THEN Goto(c, "idle")
       ELSE trig' = [trig EXCEPT ![c].pc = "run", ![c].once = t.once]
  /\ UNCHANGED <<phase, memory, op, disk, exec, fired, logs, acked>>

\* RunNow gets a copy of the task, enabled or not.
RunNow(i) ==
  /\ Up /\ op = None /\ tasks[i] # None /\ fired < MaxTriggers
  /\ fired' = Next1
  /\ trig' = [trig EXCEPT ![Next1] =
                [pc |-> "run", id |-> i, once |-> FALSE]]
  /\ RefreshNext(i)
  /\ UNCHANGED <<phase, memory, op, diskSeq, diskIndex, exec, logs, acked>>

\* What the trigger does after runTask.
AfterRun(c) == Goto(c, IF trig[c].once THEN "destroy" ELSE "idle")

\* runTask: tryStartTask takes the task's slot and a goroutine is spawned.
RunTask(c) ==
  /\ trig[c].pc = "run" /\ phase = "started" /\ op = None
  /\ trig[c].id \notin running
  /\ running' = running \cup {trig[c].id}
  /\ exec' = [exec EXCEPT ![c] = "begin"]
  /\ AfterRun(c)
  /\ UNCHANGED <<phase, seq, tasks, entries, jobs, op, disk, fired, logs, acked>>

\* runTask returns early: no bot yet, or the last execution still runs.
SkipRun(c) ==
  /\ trig[c].pc = "run"
  /\ phase = "booted" \/ (op = None /\ trig[c].id \in running)
  /\ AfterRun(c)
  /\ UNCHANGED <<phase, memory, op, disk, exec, fired, logs, acked>>

\* destroyOneShot: Delete, if the task is still there.
DestroyOneShot(c) ==
  /\ trig[c].pc = "destroy" /\ op = None
  /\ trig' = [trig EXCEPT ![c].pc = "idle", ![c].once = FALSE]
  /\ \/ BeginDelete(trig[c].id)
     \/ /\ tasks[trig[c].id] = None
        /\ UNCHANGED <<phase, memory, op, disk, exec, fired, logs, acked>>
-------------------------------------------------------------------------------
(* An execution, in its own goroutine.                                     *)

Step(c, p) == exec' = [exec EXCEPT ![c] = p]

\* evict: only the last MaxLog numbers keep their rows.
Evicted(rows, last) ==
  [n \in Triggers |-> IF n + MaxLog <= last THEN "none" ELSE rows[n]]

\* Logger.Record: a new row with status running; the oldest rows go.
Record(c) ==
  /\ exec[c] = "begin" /\ Step(c, "mark")
  /\ logSeq' = logSeq + 1
  /\ log' = Evicted([log EXCEPT ![logSeq + 1] = "running"], logSeq + 1)
  /\ rowOf' = [rowOf EXCEPT ![c] = logSeq + 1]
  /\ UNCHANGED <<phase, memory, op, disk, trig, fired, acked>>

\* LastRunAt is persisted with the task's current state, if it still exists.
Mark(c) ==
  /\ exec[c] = "mark" /\ op = None /\ Step(c, "check")
  /\ LET i == trig[c].id IN
     \E ok \in Outcomes :
       diskTasks' = IF ok /\ tasks[i] # None
                    THEN [diskTasks EXCEPT ![i] = tasks[i]] ELSE diskTasks
  /\ UNCHANGED <<phase, memory, op, diskSeq, diskIndex, trig, fired, logs, acked>>

\* Logger.Update: the row gets its final status if it has not been evicted.
Settled(c, st) ==
  log' = [n \in Triggers |-> IF n = rowOf[c] /\ log[n] # "none" THEN st
                                                                ELSE log[n]]

\* The quota is used up: an error row, nothing is executed.
Denied(c) ==
  /\ exec[c] = "check" /\ Step(c, "finish")
  /\ Settled(c, "error")
  /\ UNCHANGED <<phase, memory, op, disk, trig, fired, logSeq, rowOf, acked>>

Allowed(c) ==
  /\ exec[c] = "check" /\ Step(c, "chat")
  /\ UNCHANGED <<phase, memory, op, disk, trig, fired, logs, acked>>

\* executeTask returns, times out or panics; each way the row is settled.
Execute(c) ==
  /\ exec[c] = "chat" /\ Step(c, "finish")
  /\ \E st \in {"success", "error"} : Settled(c, st)
  /\ UNCHANGED <<phase, memory, op, disk, trig, fired, logSeq, rowOf, acked>>

\* finishTask, deferred: it runs on every path.
Finish(c) ==
  /\ exec[c] = "finish" /\ op = None /\ Step(c, "done")
  /\ running' = running \ {trig[c].id}
  /\ rowOf' = [rowOf EXCEPT ![c] = 0]
  /\ UNCHANGED <<phase, seq, tasks, entries, jobs, op, disk, trig, fired, log,
                 logSeq, acked>>
-------------------------------------------------------------------------------
Operation == PersistTask \/ PersistIndex \/ Return
Trigger(c) == ReadTask(c) \/ RunTask(c) \/ SkipRun(c) \/ DestroyOneShot(c)
Execution(c) == \/ Record(c) \/ Mark(c) \/ Denied(c) \/ Allowed(c)
                \/ Execute(c) \/ Finish(c)

Next ==
  \/ Boot \/ Start \/ Crash
  \/ Add \/ Operation
  \/ \E i \in Ids : Update(i) \/ Delete(i) \/ Get(i) \/ CronFires(i)
                    \/ RunNow(i)
  \/ \E c \in Triggers : Trigger(c) \/ Execution(c)

Spec == Init /\ [][Next]_vars
-------------------------------------------------------------------------------
TypeOK ==
  /\ phase \in {"down", "booted", "started"}
  /\ seq \in 0..MaxSeq /\ diskSeq \in 0..MaxSeq
  /\ tasks \in [Ids -> Task \cup {None}]
  /\ diskTasks \in [Ids -> Task \cup {None}]
  /\ diskIndex \in (SUBSET Ids) \cup {None}
  /\ entries \in SUBSET Ids /\ running \in SUBSET Ids
  /\ jobs \in [Ids -> Nat]
  /\ op \in Op \cup {None}
  /\ fired \in 0..MaxTriggers
  /\ trig \in [Triggers -> [pc : {"idle", "woken", "run", "destroy"},
                            id : 0..MaxSeq, once : BOOLEAN]]
  /\ exec \in [Triggers -> ExecPCs]
  /\ log \in [Triggers -> Final \cup {"none", "running"}]
  /\ logSeq \in 0..MaxTriggers
  /\ rowOf \in [Triggers -> 0..MaxTriggers]
  /\ acked \in [Ids -> SUBSET (Task \cup {None})]

\* The running map is exactly the set of tasks that are being executed, and no
\* task is executed twice at once, whatever cron, RunNow, Update and Delete do
\* (the mutual exclusion of tryStartTask and finishTask).
OneExecutionPerTask ==
  /\ running = {trig[c].id : c \in Live}
  /\ \A c, d \in Live : trig[c].id = trig[d].id => c = d

\* Outside an operation a started scheduler has exactly one cron entry per
\* enabled task, none for others and no forgotten ones.
ScheduleMatchesTasks ==
  phase = "started" /\ op = None =>
    \A i \in Ids : jobs[i] = IF tasks[i] # None /\ tasks[i].on THEN 1 ELSE 0

\* "All state changes are persisted under mu so that a restart loses nothing":
\* what Add, Update or Delete has answered is what the table holds, also after
\* crashes at any point; one that was cut off took effect or did not.
AnsweredIsKept ==
  Up /\ op = None =>
    \A i \in Ids : acked[i] # {} => tasks[i] \in acked[i]

\* A row with status running belongs to an execution of this process that has
\* not finished: no row stays "running" in the panel for good.
RunningRowsAreLive ==
  Up => \A n \in Triggers : log[n] = "running" =>
          \E c \in Live : rowOf[c] = n /\ exec[c] # "finish"

\* The running map, the executions and the log's running rows are three views of one
\* set: none of them keeps what the others have lost, not even after a crash.
ExecutionsAreAccounted == TypeOK /\ OneExecutionPerTask /\ RunningRowsAreLive

\* The number of a task is never handed out again, not after a deletion and not
\* after a crash, so logs and commands never meet another task under an old id.
NumbersAreFresh == [][Add => acked[seq + 1] = {}]_vars

\* A row that has its final status never changes again, except by eviction.
FinalRowsStay ==
  [][\A n \in Triggers : log[n] \in Final => log'[n] \in {log[n], "none"}]_vars

\* Neither a number nor a finished row is ever used for something else.
NothingIsReused == NumbersAreFresh /\ FinalRowsStay

\* Claim of clock.go:491 that does not hold of this model: a one-shot task is destroyed by
\* its trigger after it has been executed (a trigger that is skipped destroys it too).
OneShotsAreExecuted ==
  \A c \in Triggers : trig[c].pc = "destroy" => exec[c] # "none"

\* Claim of clock.go:514, refuted too: destroyOneShot removes tasks that are one-shot (one
\* that was changed meanwhile is removed as well).
OnlyOneShotsAreDestroyed ==
  [][\A c \in Triggers : trig[c].pc = "destroy" /\ op = None /\ op' # None
        /\ trig'[c].pc = "idle" => tasks[trig[c].id].once]_vars
================================================================================
