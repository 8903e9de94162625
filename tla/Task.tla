-------------------------------- MODULE Task --------------------------------
(***************************************************************************)
(* Background tasks of the daemon (mbbd/mbbtask.c) with the save mutex of   *)
(* the statistics pool their work hooks take (modules/stat/mbbstat.c).      *)
(*                                                                         *)
(* A client thread creates a task; a detached thread then runs the hooks    *)
(* init, work, work, ..., fini and polls the task's state between rounds.   *)
(* Other client threads look a task up in the table ht and set its flags    *)
(* run and cancel.  The table is guarded by the reader-writer lock of the   *)
(* file (plock), the flag run by the task's mutex, a paused task waits on   *)
(* the task's condition variable.                                          *)
(*                                                                         *)
(* A section that holds plock as a writer touches nothing that another      *)
(* thread can see halfway, so it is one step, taken when no reader is in.   *)
(* GStaticRWLock prefers writers: a reader enters only when no writer waits.*)
(***************************************************************************)
EXTENDS Naturals, FiniteSets

CONSTANTS
  MaxTasks,    \* bound: how many tasks are created in a behaviour
  Handlers,    \* the client threads that run task methods
  Free, Self,  \* owner of a task's mutex: nobody, the task's own thread
  NoTask       \* owner of the save mutex: nobody

Tasks == 1 .. MaxTasks

ASSUME MaxTasksAssumption == MaxTasks \in Nat \ {0}
ASSUME OwnerAssumption == Free # Self /\ Free \notin Handlers /\ Self \notin Handlers
ASSUME NoTaskAssumption == NoTask \notin Tasks

VARIABLES
  taskId,    \* static counter task_id
  ht,        \* ids in the hash table
  mem,       \* [Tasks -> "unused" | "live" | "freed"]: the struct mbb_task
  run,       \* [Tasks -> BOOLEAN]: task->run
  cancel,    \* [Tasks -> BOOLEAN]: task->cancel
  mutex,     \* [Tasks -> Handlers \cup {Free, Self}]: owner of task->mutex
  tpc,       \* [Tasks -> TaskPC]: where the task's thread is
  from,      \* [Tasks -> "loop" | "save"]: who called task_poll
  saver,     \* owner of the save mutex of mbb_stat_pool_save
  readers,   \* the handlers that hold plock as readers
  hpc,       \* [Handlers -> HandlerPC]
  op,        \* [Handlers -> Ops]: the method a handler runs
  arg,       \* [Handlers -> Tasks]: the task id it was given, or created
  late       \* [Tasks -> 0..2]: history, rounds of work begun since run was cleared

vars == <<taskId, ht, mem, run, cancel, mutex, tpc, from, saver, readers,
          hpc, op, arg, late>>

taskVars == <<tpc, from, saver, late>>
handlerVars == <<hpc, op, arg, readers>>
tableVars == <<taskId, ht, mem>>

TaskPC == {"none", "init", "work", "poll", "pause", "test", "wait", "wake",
           "check", "savelock", "record", "fini", "unlink", "free", "done"}
HandlerPC == {"idle", "new", "spawn", "unspawn", "return", "rlock", "find",
              "lock", "set", "runlock"}
Ops == {"none", "create", "run", "stop", "cancel", "show"}

TypeOK ==
  /\ taskId \in 1 .. MaxTasks + 1
  /\ ht \subseteq Tasks
  /\ mem \in [Tasks -> {"unused", "live", "freed"}]
  /\ run \in [Tasks -> BOOLEAN]
  /\ cancel \in [Tasks -> BOOLEAN]
  /\ mutex \in [Tasks -> Handlers \cup {Free, Self}]
  /\ tpc \in [Tasks -> TaskPC]
  /\ from \in [Tasks -> {"loop", "save"}]
  /\ saver \in Tasks \cup {NoTask}
  /\ readers \subseteq Handlers
  /\ hpc \in [Handlers -> HandlerPC]
  /\ op \in [Handlers -> Ops]
  /\ arg \in [Handlers -> Tasks]
  /\ late \in [Tasks -> 0 .. 2]

Init ==
  /\ taskId = 1
  /\ ht = {}
  /\ mem = [t \in Tasks |-> "unused"]
  /\ run = [t \in Tasks |-> TRUE]
  /\ cancel = [t \in Tasks |-> FALSE]
  /\ mutex = [t \in Tasks |-> Free]
  /\ tpc = [t \in Tasks |-> "none"]
  /\ from = [t \in Tasks |-> "loop"]
  /\ saver = NoTask
  /\ readers = {}
  /\ hpc = [h \in Handlers |-> "idle"]
  /\ op = [h \in Handlers |-> "none"]
  /\ arg = [h \in Handlers |-> 1]
  /\ late = [t \in Tasks |-> 0]

-----------------------------------------------------------------------------
(* The reader-writer lock of mbbplock.h, as this file uses it.             *)

\* A thread waits in mbb_plock_writer_lock.
WriterWaits ==
  \/ \E t \in Tasks : tpc[t] = "unlink"
  \/ \E h \in Handlers : hpc[h] \in {"new", "unspawn"}

MayRead == ~WriterWaits
MayWrite == readers = {}

GotoT(t, pc) == tpc' = [tpc EXCEPT ![t] = pc]
GotoH(h, pc) == hpc' = [hpc EXCEPT ![h] = pc]

\* The method returns; what it worked on is forgotten.
Return(h) ==
  /\ hpc' = [hpc EXCEPT ![h] = "idle"]
  /\ op' = [op EXCEPT ![h] = "none"]
  /\ arg' = [arg EXCEPT ![h] = 1]

-----------------------------------------------------------------------------
(* Creating a task.                                                        *)

\* A method such as netflow's feed_stat calls mbb_task_create.
BeginCreate(h) ==
  /\ hpc[h] = "idle"
  /\ taskId + Cardinality({g \in Handlers : hpc[g] = "new"}) <= MaxTasks
  /\ GotoH(h, "new")
  /\ op' = [op EXCEPT ![h] = "create"]
  /\ UNCHANGED <<tableVars, run, cancel, mutex, taskVars, arg, readers>>

\* mbb_task_new: fill the structure, enter it in the table under a new id.
TaskNew(h) ==
  /\ hpc[h] = "new"
  /\ MayWrite
  /\ taskId \in Tasks
  /\ taskId' = taskId + 1
  /\ ht' = ht \cup {taskId}
  /\ mem' = [mem EXCEPT ![taskId] = "live"]
  /\ run' = [run EXCEPT ![taskId] = TRUE]
  /\ cancel' = [cancel EXCEPT ![taskId] = FALSE]
  /\ arg' = [arg EXCEPT ![h] = taskId]
  /\ GotoH(h, "spawn")
  /\ UNCHANGED <<mutex, taskVars, op, readers>>

\* g_thread_create succeeds: the task's thread exists from now on.
Spawn(h) ==
  /\ hpc[h] = "spawn"
  /\ GotoT(arg[h], "init")
  /\ GotoH(h, "return")
  /\ UNCHANGED <<tableVars, run, cancel, mutex, from, saver, late, op, arg, readers>>

\* g_thread_create fails: hook->fini, then mbb_task_free on the way out.
SpawnFails(h) ==
  /\ hpc[h] = "spawn"
  /\ GotoH(h, "unspawn")
  /\ UNCHANGED <<tableVars, run, cancel, mutex, taskVars, op, arg, readers>>

FreeUnspawned(h) ==
  /\ hpc[h] = "unspawn"
  /\ MayWrite
  /\ ht' = ht \ {arg[h]}
  /\ mem' = [mem EXCEPT ![arg[h]] = "freed"]
  /\ Return(h)
  /\ UNCHANGED <<taskId, run, cancel, mutex, taskVars, readers>>

\* "return task->id": nothing orders this read before the end of the task, so
\* the id the client gets may come from a freed structure.
ReturnId(h) ==
  /\ hpc[h] = "return"
  /\ Return(h)
  /\ UNCHANGED <<tableVars, run, cancel, mutex, taskVars, readers>>

-----------------------------------------------------------------------------
(* The methods mbb-task-run, mbb-task-stop, mbb-task-cancel, mbb-show-tasks. *)

BeginMethod(h) ==
  /\ hpc[h] = "idle"
  /\ \/ /\ op' = [op EXCEPT ![h] = "show"]
        /\ UNCHANGED arg
     \/ \E o \in {"run", "stop", "cancel"}, t \in Tasks :
          /\ op' = [op EXCEPT ![h] = o]
          /\ arg' = [arg EXCEPT ![h] = t]
  /\ GotoH(h, "rlock")
  /\ UNCHANGED <<tableVars, run, cancel, mutex, taskVars, readers>>

ReaderLock(h) ==
  /\ hpc[h] = "rlock"
  /\ MayRead
  /\ readers' = readers \cup {h}
  /\ GotoH(h, "find")
  /\ UNCHANGED <<tableVars, run, cancel, mutex, taskVars, op, arg>>

\* mbb_task_get; an unknown id ends the method.  mbb-task-cancel sets the
\* flag before it takes the mutex.
FindTask(h) ==
  /\ hpc[h] = "find"
  /\ op[h] # "show"
  /\ IF arg[h] \in ht
       THEN /\ GotoH(h, "lock")
            /\ cancel' = [cancel EXCEPT ![arg[h]] = @ \/ op[h] = "cancel"]
       ELSE /\ GotoH(h, "runlock")
            /\ UNCHANGED cancel
  /\ UNCHANGED <<tableVars, run, mutex, taskVars, op, arg, readers>>

\* show_tasks walks the whole table through gather_task.
ShowTasks(h) ==
  /\ hpc[h] = "find"
  /\ op[h] = "show"
  /\ GotoH(h, "runlock")
  /\ UNCHANGED <<tableVars, run, cancel, mutex, taskVars, op, arg, readers>>

LockTask(h) ==
  /\ hpc[h] = "lock"
  /\ mutex[arg[h]] = Free
  /\ mutex' = [mutex EXCEPT ![arg[h]] = h]
  /\ GotoH(h, "set")
  /\ UNCHANGED <<tableVars, run, cancel, taskVars, op, arg, readers>>

\* g_cond_signal wakes the only thread that can wait, the task's own.
Signal(t) ==
  tpc' = IF tpc[t] = "wait" THEN [tpc EXCEPT ![t] = "wake"] ELSE tpc

\* Mutant: run is set again without g_cond_signal.
SetRunSilent(h) ==
  LET t == arg[h]
      value == op[h] # "stop"
  IN /\ hpc[h] = "set"
     /\ run' = [run EXCEPT ![t] = value]
     /\ late' = [late EXCEPT ![t] = IF run[t] = value THEN @ ELSE 0]
     /\ mutex' = [mutex EXCEPT ![t] = Free]
     /\ GotoH(h, "runlock")
     /\ UNCHANGED <<tableVars, cancel, tpc, from, saver, op, arg, readers>>

\* Mutant: the error path "task is already run" keeps the mutex.
SetRunKeepsMutex(h) ==
  LET t == arg[h]
      value == op[h] # "stop"
  IN /\ hpc[h] = "set"
     /\ run' = [run EXCEPT ![t] = value]
     /\ late' = [late EXCEPT ![t] = IF run[t] = value THEN @ ELSE 0]
     /\ IF value THEN Signal(t) ELSE UNCHANGED tpc
     /\ mutex' = [mutex EXCEPT ![t] = IF run[t] = value THEN @ ELSE Free]
     /\ GotoH(h, "runlock")
     /\ UNCHANGED <<tableVars, cancel, from, saver, op, arg, readers>>

\* Under the mutex: set run (unless it is set already), signal, unlock.
SetRun(h) ==
  LET t == arg[h]
      value == op[h] # "stop"
  IN /\ hpc[h] = "set"
     /\ IF run[t] = value
          THEN UNCHANGED <<run, tpc, late>>
          ELSE /\ run' = [run EXCEPT ![t] = value]
               /\ late' = [late EXCEPT ![t] = 0]
               /\ IF value THEN Signal(t) ELSE UNCHANGED tpc
     /\ mutex' = [mutex EXCEPT ![t] = Free]
     /\ GotoH(h, "runlock")
     /\ UNCHANGED <<tableVars, cancel, from, saver, op, arg, readers>>

ReaderUnlock(h) ==
  /\ hpc[h] = "runlock"
  /\ readers' = readers \ {h}
  /\ Return(h)
  /\ UNCHANGED <<tableVars, run, cancel, mutex, taskVars>>

-----------------------------------------------------------------------------
(* The task's thread, mbb_task_work.                                       *)

\* hook->init; when it fails the thread returns at once, without fini.
InitHook(t) ==
  /\ tpc[t] = "init"
  /\ \E ok \in BOOLEAN : GotoT(t, IF ok THEN "work" ELSE "unlink")
  /\ UNCHANGED <<tableVars, run, cancel, mutex, from, saver, late, handlerVars>>

\* One round of hook->work: it returns TRUE, returns FALSE, or goes on to save
\* the statistics it has gathered.
WorkHook(t) ==
  /\ tpc[t] = "work"
  /\ \E pc \in {"poll", "fini", "savelock"} : GotoT(t, pc)
  /\ from' = [from EXCEPT ![t] = "loop"]
  /\ UNCHANGED <<tableVars, run, cancel, mutex, saver, late, handlerVars>>

\* mbb_stat_pool_save: one task at a time saves, the others wait here.
SaveLock(t) ==
  /\ tpc[t] = "savelock"
  /\ saver = NoTask
  /\ saver' = t
  /\ from' = [from EXCEPT ![t] = "save"]
  /\ GotoT(t, "poll")
  /\ UNCHANGED <<tableVars, run, cancel, mutex, late, handlerVars>>

\* save_records: the next record is preceded by a poll.
NextRecord(t) ==
  /\ tpc[t] = "record"
  /\ GotoT(t, "poll")
  /\ UNCHANGED <<tableVars, run, cancel, mutex, from, saver, late, handlerVars>>

\* Mutant: mbb_stat_pool_save returns without unlocking its mutex.
SaveUnlockForgotten(t) ==
  /\ UNCHANGED saver
  /\ from' = [from EXCEPT ![t] = "loop"]
  /\ \E pc \in {"poll", "fini"} : GotoT(t, pc)

\* mbb_stat_pool_save leaves through "out": after the commit, after a failed
\* begin, after a rollback.  The hook then returns TRUE or FALSE.
SaveUnlock(t) ==
  /\ saver' = NoTask
  /\ from' = [from EXCEPT ![t] = "loop"]
  /\ \E pc \in {"poll", "fini"} : GotoT(t, pc)

SaveDone(t) ==
  /\ tpc[t] = "record"
  /\ SaveUnlock(t)
  /\ UNCHANGED <<tableVars, run, cancel, mutex, late, handlerVars>>

\* Mutant: task_poll does not look at run.
PollIgnoresRun(t) ==
  /\ tpc[t] = "poll"
  /\ GotoT(t, "check")
  /\ UNCHANGED <<tableVars, run, cancel, mutex, from, saver, late, handlerVars>>

\* task_poll reads run without the mutex.
Poll(t) ==
  /\ tpc[t] = "poll"
  /\ GotoT(t, IF run[t] THEN "check" ELSE "pause")
  /\ UNCHANGED <<tableVars, run, cancel, mutex, from, saver, late, handlerVars>>

\* mbb_task_pause: take the mutex, or take it again inside g_cond_wait.
PauseLock(t) ==
  /\ tpc[t] \in {"pause", "wake"}
  /\ mutex[t] = Free
  /\ mutex' = [mutex EXCEPT ![t] = Self]
  /\ GotoT(t, "test")
  /\ UNCHANGED <<tableVars, run, cancel, from, saver, late, handlerVars>>

\* Mutant: the loop condition of mbb_task_pause does not test cancel.
PauseTestRunOnly(t) ==
  /\ tpc[t] = "test"
  /\ GotoT(t, IF ~run[t] THEN "wait" ELSE "check")
  /\ mutex' = [mutex EXCEPT ![t] = Free]
  /\ UNCHANGED <<tableVars, run, cancel, from, saver, late, handlerVars>>

\* The loop condition under the mutex; both outcomes release it.
PauseTest(t) ==
  /\ tpc[t] = "test"
  /\ GotoT(t, IF ~run[t] /\ ~cancel[t] THEN "wait" ELSE "check")
  /\ mutex' = [mutex EXCEPT ![t] = Free]
  /\ UNCHANGED <<tableVars, run, cancel, from, saver, late, handlerVars>>

\* g_cond_wait may return without a signal.
SpuriousWakeup(t) ==
  /\ tpc[t] = "wait"
  /\ GotoT(t, "wake")
  /\ UNCHANGED <<tableVars, run, cancel, mutex, from, saver, late, handlerVars>>

\* task_poll says go on: the next round of work, or the next record.
PollContinue(t) ==
  /\ tpc[t] = "check"
  /\ ~cancel[t]
  /\ GotoT(t, IF from[t] = "loop" THEN "work" ELSE "record")
  /\ late' = [late EXCEPT ![t] = IF run[t] \/ @ = 2 THEN @ ELSE @ + 1]
  /\ UNCHANGED <<tableVars, run, cancel, mutex, from, saver, handlerVars>>

\* task_poll says stop: the loop ends, or the save is rolled back.
PollCancelled(t) ==
  /\ tpc[t] = "check"
  /\ cancel[t]
  /\ IF from[t] = "loop"
       THEN GotoT(t, "fini") /\ UNCHANGED <<from, saver>>
       ELSE SaveUnlock(t)
  /\ UNCHANGED <<tableVars, run, cancel, mutex, late, handlerVars>>

FiniHook(t) ==
  /\ tpc[t] = "fini"
  /\ GotoT(t, "unlink")
  /\ UNCHANGED <<tableVars, run, cancel, mutex, from, saver, late, handlerVars>>

\* Mutant: mbb_task_free leaves the table without the writer lock.
UnlinkUnlocked(t) ==
  /\ tpc[t] = "unlink"
  /\ ht' = ht \ {t}
  /\ GotoT(t, "free")
  /\ UNCHANGED <<taskId, mem, run, cancel, mutex, from, saver, late, handlerVars>>

\* mbb_task_free, the destructor of the thread's private data: leave the
\* table as a writer, then release everything without a lock.
Unlink(t) ==
  /\ tpc[t] = "unlink"
  /\ MayWrite
  /\ ht' = ht \ {t}
  /\ GotoT(t, "free")
  /\ UNCHANGED <<taskId, mem, run, cancel, mutex, from, saver, late, handlerVars>>

FreeTask(t) ==
  /\ tpc[t] = "free"
  /\ mem' = [mem EXCEPT ![t] = "freed"]
  /\ GotoT(t, "done")
  /\ UNCHANGED <<taskId, ht, run, cancel, mutex, from, saver, late, handlerVars>>

-----------------------------------------------------------------------------
HandlerStep(h) ==
  \/ TaskNew(h) \/ Spawn(h) \/ SpawnFails(h) \/ FreeUnspawned(h) \/ ReturnId(h)
  \/ ReaderLock(h) \/ FindTask(h) \/ ShowTasks(h) \/ LockTask(h) \/ SetRun(h)
  \/ ReaderUnlock(h)

TaskStep(t) ==
  \/ InitHook(t) \/ WorkHook(t) \/ SaveLock(t) \/ NextRecord(t) \/ SaveDone(t)
  \/ Poll(t) \/ PauseLock(t) \/ PauseTest(t) \/ PollContinue(t)
  \/ PollCancelled(t) \/ FiniHook(t) \/ Unlink(t) \/ FreeTask(t)

Next ==
  \/ \E h \in Handlers : BeginCreate(h) \/ BeginMethod(h) \/ HandlerStep(h)
  \/ \E t \in Tasks : TaskStep(t) \/ SpuriousWakeup(t)

Spec == Init /\ [][Next]_vars

(***************************************************************************)
(* Fairness.  Every thread is scheduled, hooks return, and a thread that    *)
(* waits for a lock that keeps being released gets it in the end: strong    *)
(* fairness of a thread's steps, because while it waits for a lock taking   *)
(* that lock is its only step.  The pool being saved is a finite hash       *)
(* table, so a save that is let on ends (SaveDone).  Clients owe nothing:   *)
(* no fairness for BeginCreate and BeginMethod, nor for spurious wakeups.   *)
(***************************************************************************)
Fairness ==
  /\ \A h \in Handlers : SF_vars(HandlerStep(h))
  /\ \A t \in Tasks : SF_vars(TaskStep(t)) /\ SF_vars(SaveDone(t))

FairSpec == Spec /\ Fairness

-----------------------------------------------------------------------------
(* Properties.                                                             *)

\* A method that has looked a task up, or walks the table, under plock never
\* touches a freed struct mbb_task (task_do_run, task_cancel and gather_task
\* against mbb_task_free), and no mutex is freed while somebody holds it.
NoDanglingUse ==
  /\ \A h \in Handlers :
       /\ hpc[h] \in {"lock", "set"} => mem[arg[h]] = "live"
       /\ hpc[h] = "find" => \A t \in ht : mem[t] = "live"
  /\ \A t \in Tasks : mem[t] = "freed" => mutex[t] = Free

\* No wake-up is lost: a thread sleeps in mbb_task_pause only while the task is
\* stopped and, once it has been cancelled, only as long as the thread that
\* cancelled it has not reached its g_cond_signal (the flag cancel is set
\* outside the mutex in task_cancel).
NoLostWakeup ==
  \A t \in Tasks : tpc[t] = "wait" =>
    /\ ~run[t]
    /\ cancel[t] => \E h \in Handlers :
                      hpc[h] \in {"lock", "set"} /\ op[h] = "cancel" /\ arg[h] = t

\* mbb-task-stop takes effect within one poll: a stopped task begins at most
\* one more round of work, or one more record, before it pauses (task_poll
\* reads run without the mutex).
StopTakesEffect == \A t \in Tasks : late[t] <= 1

\* The save mutex is held only by a task inside mbb_stat_pool_save: no way out
\* of it (cancelled, rolled back, committed) leaves the mutex locked.
SaveMutexReleased ==
  \A t \in Tasks :
    saver = t <=> /\ from[t] = "save"
                  /\ tpc[t] \in {"poll", "pause", "test", "wait", "wake", "check", "record"}

\* t waits for the save mutex and its owner is paused in the middle of a save.
HeldUp(t) == tpc[t] = "savelock" /\ saver \in Tasks /\ tpc[saver] = "wait"

\* A cancelled task ends and is freed (mbb-task-cancel), whatever stops and
\* resumes race with it.  The one exception is in the code: while another
\* task is paused inside mbb_stat_pool_save, whose mutex it keeps, a task
\* that waits for that mutex cannot notice its cancellation.
CancelEnds == \A t \in Tasks : cancel[t] ~> (mem[t] = "freed" \/ HeldUp(t))

\* Every task method returns: readers, waiting writers and holders of task
\* mutexes never block each other for ever.
MethodEnds == \A h \in Handlers : hpc[h] # "idle" ~> hpc[h] = "idle"
=============================================================================
