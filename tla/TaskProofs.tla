----------------------------- MODULE TaskProofs -----------------------------
(***************************************************************************)
(* Proofs about Task: its safety properties hold for every number of tasks *)
(* and every set of client threads.                                        *)
(***************************************************************************)
EXTENDS Task, TLAPS

(* The inductive invariant, in parts.                                      *)

\* Who is inside plock as a reader.
ReadersInv ==
  \A h \in Handlers : h \in readers <=> hpc[h] \in {"find", "lock", "set", "runlock"}

\* Ids are handed out in order; a task is in the table from mbb_task_new until
\* mbb_task_free, and a handler that found it there is a reader.
TableInv ==
  /\ \A t \in ht : mem[t] = "live"
  /\ \A t \in Tasks : t >= taskId => t \notin ht /\ mem[t] = "unused" /\ tpc[t] = "none"
  /\ \A t \in Tasks : tpc[t] \notin {"none", "free", "done"} => t \in ht
  /\ \A t \in Tasks : tpc[t] \in {"free", "done"} => t \notin ht
  /\ \A h \in Handlers : hpc[h] \in {"lock", "set"} => arg[h] \in ht

\* A task whose thread is not created yet belongs to one creator.
SpawnInv ==
  /\ \A h \in Handlers : hpc[h] \in {"spawn", "unspawn"} => arg[h] \in ht /\ tpc[arg[h]] = "none"
  /\ \A g, h \in Handlers :
       hpc[g] \in {"spawn", "unspawn"} /\ hpc[h] \in {"spawn", "unspawn"} /\ arg[g] = arg[h]
         => g = h

\* Who holds a task's mutex.
MutexInv ==
  /\ \A t \in Tasks : mutex[t] = Self <=> tpc[t] = "test"
  /\ \A t \in Tasks, h \in Handlers : mutex[t] = h <=> hpc[h] = "set" /\ arg[h] = t

\* What is known of the rounds begun since run was cleared.
LateInv ==
  \A t \in Tasks :
    /\ late[t] \in {0, 1}
    /\ run[t] => late[t] = 0
    /\ tpc[t] = "none" => late[t] = 0
    /\ tpc[t] = "check" /\ ~run[t] /\ ~cancel[t] => late[t] = 0

\* Records are saved inside mbb_stat_pool_save only.
RecordInv == \A t \in Tasks : tpc[t] = "record" => from[t] = "save"

IInv ==
  /\ TypeOK /\ ReadersInv /\ TableInv /\ SpawnInv /\ MutexInv
  /\ NoLostWakeup /\ LateInv /\ RecordInv /\ SaveMutexReleased

-----------------------------------------------------------------------------
LEMMA OneIsTask == 1 \in Tasks
  BY MaxTasksAssumption DEF Tasks

LEMMA TypeStep == TypeOK /\ [Next]_vars => TypeOK'
<1> SUFFICES ASSUME TypeOK, [Next]_vars PROVE TypeOK'
  OBVIOUS
<1> USE DEF TypeOK
<1>1. ASSUME NEW h \in Handlers, BeginCreate(h) PROVE TypeOK'
  BY <1>1 DEF BeginCreate, GotoH, tableVars, taskVars, HandlerPC, Ops
<1>2. ASSUME NEW h \in Handlers, TaskNew(h) PROVE TypeOK'
  BY <1>2, MaxTasksAssumption DEF TaskNew, GotoH, taskVars, Tasks, HandlerPC
<1>3. ASSUME NEW h \in Handlers, Spawn(h) PROVE TypeOK'
  BY <1>3 DEF Spawn, GotoH, GotoT, tableVars, TaskPC, HandlerPC
<1>4. ASSUME NEW h \in Handlers, SpawnFails(h) PROVE TypeOK'
  BY <1>4 DEF SpawnFails, GotoH, tableVars, taskVars, HandlerPC
<1>5. ASSUME NEW h \in Handlers, FreeUnspawned(h) PROVE TypeOK'
  BY <1>5, OneIsTask DEF FreeUnspawned, Return, taskVars, HandlerPC, Ops
<1>6. ASSUME NEW h \in Handlers, ReturnId(h) PROVE TypeOK'
  BY <1>6, OneIsTask DEF ReturnId, Return, tableVars, taskVars, HandlerPC, Ops
<1>7. ASSUME NEW h \in Handlers, BeginMethod(h) PROVE TypeOK'
  BY <1>7 DEF BeginMethod, GotoH, tableVars, taskVars, HandlerPC, Ops
<1>8. ASSUME NEW h \in Handlers, ReaderLock(h) PROVE TypeOK'
  BY <1>8 DEF ReaderLock, GotoH, tableVars, taskVars, HandlerPC
<1>9. ASSUME NEW h \in Handlers, FindTask(h) PROVE TypeOK'
  BY <1>9 DEF FindTask, GotoH, tableVars, taskVars, HandlerPC
<1>10. ASSUME NEW h \in Handlers, ShowTasks(h) PROVE TypeOK'
  BY <1>10 DEF ShowTasks, GotoH, tableVars, taskVars, HandlerPC
<1>11. ASSUME NEW h \in Handlers, LockTask(h) PROVE TypeOK'
  BY <1>11 DEF LockTask, GotoH, tableVars, taskVars, HandlerPC
<1>12. ASSUME NEW h \in Handlers, SetRun(h) PROVE TypeOK'
  <2> DEFINE t == arg[h]
  <2>1. t \in Tasks
    OBVIOUS
  <2>2. run' \in [Tasks -> BOOLEAN]
    <3>1. CASE run[t] = (op[h] # "stop")
      BY <1>12, <3>1 DEF SetRun
    <3>2. CASE run[t] # (op[h] # "stop")
      <4>1. run' = [run EXCEPT ![t] = (op[h] # "stop")]
        BY <1>12, <3>2 DEF SetRun
      <4>2. (op[h] # "stop") \in BOOLEAN
        OBVIOUS
      <4>q. QED
        BY <4>1, <4>2, Zenon
    <3>q. QED
      BY <3>1, <3>2
  <2>6. late' \in [Tasks -> 0 .. 2]
    BY <1>12, <2>1 DEF SetRun
  <2>3. tpc' \in [Tasks -> TaskPC]
    BY <1>12, <2>1 DEF SetRun, Signal, TaskPC
  <2>4. mutex' \in [Tasks -> Handlers \cup {Free, Self}]
    BY <1>12, <2>1 DEF SetRun
  <2>5. hpc' \in [Handlers -> HandlerPC]
    BY <1>12 DEF SetRun, GotoH, HandlerPC
  <2>q. QED
    BY <1>12, <2>2, <2>3, <2>4, <2>5, <2>6 DEF SetRun, tableVars
<1>13. ASSUME NEW h \in Handlers, ReaderUnlock(h) PROVE TypeOK'
  BY <1>13, OneIsTask DEF ReaderUnlock, Return, tableVars, taskVars, HandlerPC, Ops
<1>14. ASSUME NEW t \in Tasks, InitHook(t) PROVE TypeOK'
  BY <1>14 DEF InitHook, GotoT, tableVars, handlerVars, TaskPC
<1>15. ASSUME NEW t \in Tasks, WorkHook(t) PROVE TypeOK'
  BY <1>15 DEF WorkHook, GotoT, tableVars, handlerVars, TaskPC
<1>16. ASSUME NEW t \in Tasks, SaveLock(t) PROVE TypeOK'
  BY <1>16 DEF SaveLock, GotoT, tableVars, handlerVars, TaskPC
<1>17. ASSUME NEW t \in Tasks, NextRecord(t) PROVE TypeOK'
  BY <1>17 DEF NextRecord, GotoT, tableVars, handlerVars, TaskPC
<1>18. ASSUME NEW t \in Tasks, SaveDone(t) PROVE TypeOK'
  BY <1>18 DEF SaveDone, SaveUnlock, GotoT, tableVars, handlerVars, TaskPC
<1>19. ASSUME NEW t \in Tasks, Poll(t) PROVE TypeOK'
  BY <1>19 DEF Poll, GotoT, tableVars, handlerVars, TaskPC
<1>20. ASSUME NEW t \in Tasks, PauseLock(t) PROVE TypeOK'
  BY <1>20 DEF PauseLock, GotoT, tableVars, handlerVars, TaskPC
<1>21. ASSUME NEW t \in Tasks, PauseTest(t) PROVE TypeOK'
  BY <1>21 DEF PauseTest, GotoT, tableVars, handlerVars, TaskPC
<1>22. ASSUME NEW t \in Tasks, SpuriousWakeup(t) PROVE TypeOK'
  BY <1>22 DEF SpuriousWakeup, GotoT, tableVars, handlerVars, TaskPC
<1>23. ASSUME NEW t \in Tasks, PollContinue(t) PROVE TypeOK'
  BY <1>23 DEF PollContinue, GotoT, tableVars, handlerVars, TaskPC
<1>24. ASSUME NEW t \in Tasks, PollCancelled(t) PROVE TypeOK'
  BY <1>24 DEF PollCancelled, SaveUnlock, GotoT, tableVars, handlerVars, TaskPC
<1>25. ASSUME NEW t \in Tasks, FiniHook(t) PROVE TypeOK'
  BY <1>25 DEF FiniHook, GotoT, tableVars, handlerVars, TaskPC
<1>26. ASSUME NEW t \in Tasks, Unlink(t) PROVE TypeOK'
  BY <1>26 DEF Unlink, GotoT, handlerVars, TaskPC
<1>27. ASSUME NEW t \in Tasks, FreeTask(t) PROVE TypeOK'
  BY <1>27 DEF FreeTask, GotoT, handlerVars, TaskPC
<1>28. CASE UNCHANGED vars
  BY <1>28 DEF vars
<1>q. QED
  BY <1>1, <1>2, <1>3, <1>4, <1>5, <1>6, <1>7, <1>8, <1>9, <1>10, <1>11, <1>12, <1>13, <1>14, <1>15, <1>16, <1>17, <1>18, <1>19, <1>20, <1>21, <1>22, <1>23, <1>24, <1>25, <1>26, <1>27, <1>28 DEF Next, HandlerStep, TaskStep

LEMMA ReadersStep == IInv /\ [Next]_vars => ReadersInv'
<1> SUFFICES ASSUME IInv, [Next]_vars PROVE ReadersInv'
  OBVIOUS
<1> USE DEF IInv, TypeOK, ReadersInv
<1>1. ASSUME NEW h \in Handlers, BeginCreate(h) PROVE ReadersInv'
  BY <1>1 DEF BeginCreate, GotoH, tableVars, taskVars
<1>2. ASSUME NEW h \in Handlers, TaskNew(h) PROVE ReadersInv'
  BY <1>2 DEF TaskNew, GotoH, taskVars
<1>3. ASSUME NEW h \in Handlers, Spawn(h) PROVE ReadersInv'
  BY <1>3 DEF Spawn, GotoH, GotoT, tableVars
<1>4. ASSUME NEW h \in Handlers, SpawnFails(h) PROVE ReadersInv'
  BY <1>4 DEF SpawnFails, GotoH, tableVars, taskVars
<1>5. ASSUME NEW h \in Handlers, FreeUnspawned(h) PROVE ReadersInv'
  BY <1>5 DEF FreeUnspawned, Return, taskVars
<1>6. ASSUME NEW h \in Handlers, ReturnId(h) PROVE ReadersInv'
  BY <1>6 DEF ReturnId, Return, tableVars, taskVars
<1>7. ASSUME NEW h \in Handlers, BeginMethod(h) PROVE ReadersInv'
  BY <1>7 DEF BeginMethod, GotoH, tableVars, taskVars
<1>8. ASSUME NEW h \in Handlers, ReaderLock(h) PROVE ReadersInv'
  BY <1>8 DEF ReaderLock, GotoH, tableVars, taskVars
<1>9. ASSUME NEW h \in Handlers, FindTask(h) PROVE ReadersInv'
  BY <1>9 DEF FindTask, GotoH, tableVars, taskVars
<1>10. ASSUME NEW h \in Handlers, ShowTasks(h) PROVE ReadersInv'
  BY <1>10 DEF ShowTasks, GotoH, tableVars, taskVars
<1>11. ASSUME NEW h \in Handlers, LockTask(h) PROVE ReadersInv'
  BY <1>11 DEF LockTask, GotoH, tableVars, taskVars
<1>12. ASSUME NEW h \in Handlers, SetRun(h) PROVE ReadersInv'
  BY <1>12 DEF SetRun, Signal, GotoH, tableVars
<1>13. ASSUME NEW h \in Handlers, ReaderUnlock(h) PROVE ReadersInv'
  BY <1>13 DEF ReaderUnlock, Return, tableVars, taskVars
<1>14. ASSUME NEW t \in Tasks, InitHook(t) PROVE ReadersInv'
  BY <1>14 DEF InitHook, GotoT, tableVars, handlerVars
<1>15. ASSUME NEW t \in Tasks, WorkHook(t) PROVE ReadersInv'
  BY <1>15 DEF WorkHook, GotoT, tableVars, handlerVars
<1>16. ASSUME NEW t \in Tasks, SaveLock(t) PROVE ReadersInv'
  BY <1>16 DEF SaveLock, GotoT, tableVars, handlerVars
<1>17. ASSUME NEW t \in Tasks, NextRecord(t) PROVE ReadersInv'
  BY <1>17 DEF NextRecord, GotoT, tableVars, handlerVars
<1>18. ASSUME NEW t \in Tasks, SaveDone(t) PROVE ReadersInv'
  BY <1>18 DEF SaveDone, SaveUnlock, GotoT, tableVars, handlerVars
<1>19. ASSUME NEW t \in Tasks, Poll(t) PROVE ReadersInv'
  BY <1>19 DEF Poll, GotoT, tableVars, handlerVars
<1>20. ASSUME NEW t \in Tasks, PauseLock(t) PROVE ReadersInv'
  BY <1>20 DEF PauseLock, GotoT, tableVars, handlerVars
<1>21. ASSUME NEW t \in Tasks, PauseTest(t) PROVE ReadersInv'
  BY <1>21 DEF PauseTest, GotoT, tableVars, handlerVars
<1>22. ASSUME NEW t \in Tasks, SpuriousWakeup(t) PROVE ReadersInv'
  BY <1>22 DEF SpuriousWakeup, GotoT, tableVars, handlerVars
<1>23. ASSUME NEW t \in Tasks, PollContinue(t) PROVE ReadersInv'
  BY <1>23 DEF PollContinue, GotoT, tableVars, handlerVars
<1>24. ASSUME NEW t \in Tasks, PollCancelled(t) PROVE ReadersInv'
  BY <1>24 DEF PollCancelled, SaveUnlock, GotoT, tableVars, handlerVars
<1>25. ASSUME NEW t \in Tasks, FiniHook(t) PROVE ReadersInv'
  BY <1>25 DEF FiniHook, GotoT, tableVars, handlerVars
<1>26. ASSUME NEW t \in Tasks, Unlink(t) PROVE ReadersInv'
  BY <1>26 DEF Unlink, GotoT, handlerVars
<1>27. ASSUME NEW t \in Tasks, FreeTask(t) PROVE ReadersInv'
  BY <1>27 DEF FreeTask, GotoT, handlerVars
<1>28. CASE UNCHANGED vars
  BY <1>28 DEF vars
<1>q. QED
  BY <1>1, <1>2, <1>3, <1>4, <1>5, <1>6, <1>7, <1>8, <1>9, <1>10, <1>11, <1>12, <1>13, <1>14, <1>15, <1>16, <1>17, <1>18, <1>19, <1>20, <1>21, <1>22, <1>23, <1>24, <1>25, <1>26, <1>27, <1>28 DEF Next, HandlerStep, TaskStep

LEMMA TableStep == IInv /\ [Next]_vars => TableInv'
<1> SUFFICES ASSUME IInv, [Next]_vars PROVE TableInv'
  OBVIOUS
<1> USE DEF IInv, TypeOK, TableInv
<1>1. ASSUME NEW h \in Handlers, BeginCreate(h) PROVE TableInv'
  BY <1>1 DEF BeginCreate, GotoH, tableVars, taskVars
<1>2. ASSUME NEW h \in Handlers, TaskNew(h) PROVE TableInv'
  BY <1>2 DEF TaskNew, GotoH, taskVars, Tasks, MayWrite, ReadersInv
<1>3. ASSUME NEW h \in Handlers, Spawn(h) PROVE TableInv'
  BY <1>3 DEF Spawn, GotoH, GotoT, tableVars, SpawnInv
<1>4. ASSUME NEW h \in Handlers, SpawnFails(h) PROVE TableInv'
  BY <1>4 DEF SpawnFails, GotoH, tableVars, taskVars
<1>5. ASSUME NEW h \in Handlers, FreeUnspawned(h) PROVE TableInv'
  BY <1>5 DEF FreeUnspawned, Return, taskVars, MayWrite, ReadersInv, SpawnInv
<1>6. ASSUME NEW h \in Handlers, ReturnId(h) PROVE TableInv'
  BY <1>6 DEF ReturnId, Return, tableVars, taskVars
<1>7. ASSUME NEW h \in Handlers, BeginMethod(h) PROVE TableInv'
  BY <1>7 DEF BeginMethod, GotoH, tableVars, taskVars
<1>8. ASSUME NEW h \in Handlers, ReaderLock(h) PROVE TableInv'
  BY <1>8 DEF ReaderLock, GotoH, tableVars, taskVars
<1>9. ASSUME NEW h \in Handlers, FindTask(h) PROVE TableInv'
  BY <1>9 DEF FindTask, GotoH, tableVars, taskVars
<1>10. ASSUME NEW h \in Handlers, ShowTasks(h) PROVE TableInv'
  BY <1>10 DEF ShowTasks, GotoH, tableVars, taskVars
<1>11. ASSUME NEW h \in Handlers, LockTask(h) PROVE TableInv'
  BY <1>11 DEF LockTask, GotoH, tableVars, taskVars
<1>12. ASSUME NEW h \in Handlers, SetRun(h) PROVE TableInv'
  BY <1>12 DEF SetRun, Signal, GotoH, tableVars
<1>13. ASSUME NEW h \in Handlers, ReaderUnlock(h) PROVE TableInv'
  BY <1>13 DEF ReaderUnlock, Return, tableVars, taskVars
<1>14. ASSUME NEW t \in Tasks, InitHook(t) PROVE TableInv'
  BY <1>14 DEF InitHook, GotoT, tableVars, handlerVars
<1>15. ASSUME NEW t \in Tasks, WorkHook(t) PROVE TableInv'
  BY <1>15 DEF WorkHook, GotoT, tableVars, handlerVars
<1>16. ASSUME NEW t \in Tasks, SaveLock(t) PROVE TableInv'
  BY <1>16 DEF SaveLock, GotoT, tableVars, handlerVars
<1>17. ASSUME NEW t \in Tasks, NextRecord(t) PROVE TableInv'
  BY <1>17 DEF NextRecord, GotoT, tableVars, handlerVars
<1>18. ASSUME NEW t \in Tasks, SaveDone(t) PROVE TableInv'
  BY <1>18 DEF SaveDone, SaveUnlock, GotoT, tableVars, handlerVars
<1>19. ASSUME NEW t \in Tasks, Poll(t) PROVE TableInv'
  BY <1>19 DEF Poll, GotoT, tableVars, handlerVars
<1>20. ASSUME NEW t \in Tasks, PauseLock(t) PROVE TableInv'
  BY <1>20 DEF PauseLock, GotoT, tableVars, handlerVars
<1>21. ASSUME NEW t \in Tasks, PauseTest(t) PROVE TableInv'
  BY <1>21 DEF PauseTest, GotoT, tableVars, handlerVars
<1>22. ASSUME NEW t \in Tasks, SpuriousWakeup(t) PROVE TableInv'
  BY <1>22 DEF SpuriousWakeup, GotoT, tableVars, handlerVars
<1>23. ASSUME NEW t \in Tasks, PollContinue(t) PROVE TableInv'
  BY <1>23 DEF PollContinue, GotoT, tableVars, handlerVars
<1>24. ASSUME NEW t \in Tasks, PollCancelled(t) PROVE TableInv'
  BY <1>24 DEF PollCancelled, SaveUnlock, GotoT, tableVars, handlerVars
<1>25. ASSUME NEW t \in Tasks, FiniHook(t) PROVE TableInv'
  BY <1>25 DEF FiniHook, GotoT, tableVars, handlerVars
<1>26. ASSUME NEW t \in Tasks, Unlink(t) PROVE TableInv'
  BY <1>26 DEF Unlink, GotoT, handlerVars, MayWrite, ReadersInv
<1>27. ASSUME NEW t \in Tasks, FreeTask(t) PROVE TableInv'
  BY <1>27 DEF FreeTask, GotoT, handlerVars
<1>28. CASE UNCHANGED vars
  BY <1>28 DEF vars
<1>q. QED
  BY <1>1, <1>2, <1>3, <1>4, <1>5, <1>6, <1>7, <1>8, <1>9, <1>10, <1>11, <1>12, <1>13, <1>14, <1>15, <1>16, <1>17, <1>18, <1>19, <1>20, <1>21, <1>22, <1>23, <1>24, <1>25, <1>26, <1>27, <1>28 DEF Next, HandlerStep, TaskStep

LEMMA SpawnStep == IInv /\ [Next]_vars => SpawnInv'
<1> SUFFICES ASSUME IInv, [Next]_vars PROVE SpawnInv'
  OBVIOUS
<1> USE DEF IInv, TypeOK, SpawnInv
<1>1. ASSUME NEW h \in Handlers, BeginCreate(h) PROVE SpawnInv'
  BY <1>1 DEF BeginCreate, GotoH, tableVars, taskVars
<1>2. ASSUME NEW h \in Handlers, TaskNew(h) PROVE SpawnInv'
  BY <1>2 DEF TaskNew, GotoH, taskVars, TableInv, Tasks
<1>3. ASSUME NEW h \in Handlers, Spawn(h) PROVE SpawnInv'
  BY <1>3 DEF Spawn, GotoH, GotoT, tableVars
<1>4. ASSUME NEW h \in Handlers, SpawnFails(h) PROVE SpawnInv'
  BY <1>4 DEF SpawnFails, GotoH, tableVars, taskVars
<1>5. ASSUME NEW h \in Handlers, FreeUnspawned(h) PROVE SpawnInv'
  BY <1>5 DEF FreeUnspawned, Return, taskVars
<1>6. ASSUME NEW h \in Handlers, ReturnId(h) PROVE SpawnInv'
  BY <1>6 DEF ReturnId, Return, tableVars, taskVars
<1>7. ASSUME NEW h \in Handlers, BeginMethod(h) PROVE SpawnInv'
  BY <1>7 DEF BeginMethod, GotoH, tableVars, taskVars
<1>8. ASSUME NEW h \in Handlers, ReaderLock(h) PROVE SpawnInv'
  BY <1>8 DEF ReaderLock, GotoH, tableVars, taskVars
<1>9. ASSUME NEW h \in Handlers, FindTask(h) PROVE SpawnInv'
  BY <1>9 DEF FindTask, GotoH, tableVars, taskVars
<1>10. ASSUME NEW h \in Handlers, ShowTasks(h) PROVE SpawnInv'
  BY <1>10 DEF ShowTasks, GotoH, tableVars, taskVars
<1>11. ASSUME NEW h \in Handlers, LockTask(h) PROVE SpawnInv'
  BY <1>11 DEF LockTask, GotoH, tableVars, taskVars
<1>12. ASSUME NEW h \in Handlers, SetRun(h) PROVE SpawnInv'
  BY <1>12 DEF SetRun, Signal, GotoH, tableVars
<1>13. ASSUME NEW h \in Handlers, ReaderUnlock(h) PROVE SpawnInv'
  BY <1>13 DEF ReaderUnlock, Return, tableVars, taskVars
<1>14. ASSUME NEW t \in Tasks, InitHook(t) PROVE SpawnInv'
  BY <1>14 DEF InitHook, GotoT, tableVars, handlerVars
<1>15. ASSUME NEW t \in Tasks, WorkHook(t) PROVE SpawnInv'
  BY <1>15 DEF WorkHook, GotoT, tableVars, handlerVars
<1>16. ASSUME NEW t \in Tasks, SaveLock(t) PROVE SpawnInv'
  BY <1>16 DEF SaveLock, GotoT, tableVars, handlerVars
<1>17. ASSUME NEW t \in Tasks, NextRecord(t) PROVE SpawnInv'
  BY <1>17 DEF NextRecord, GotoT, tableVars, handlerVars
<1>18. ASSUME NEW t \in Tasks, SaveDone(t) PROVE SpawnInv'
  BY <1>18 DEF SaveDone, SaveUnlock, GotoT, tableVars, handlerVars
<1>19. ASSUME NEW t \in Tasks, Poll(t) PROVE SpawnInv'
  BY <1>19 DEF Poll, GotoT, tableVars, handlerVars
<1>20. ASSUME NEW t \in Tasks, PauseLock(t) PROVE SpawnInv'
  BY <1>20 DEF PauseLock, GotoT, tableVars, handlerVars
<1>21. ASSUME NEW t \in Tasks, PauseTest(t) PROVE SpawnInv'
  BY <1>21 DEF PauseTest, GotoT, tableVars, handlerVars
<1>22. ASSUME NEW t \in Tasks, SpuriousWakeup(t) PROVE SpawnInv'
  BY <1>22 DEF SpuriousWakeup, GotoT, tableVars, handlerVars
<1>23. ASSUME NEW t \in Tasks, PollContinue(t) PROVE SpawnInv'
  BY <1>23 DEF PollContinue, GotoT, tableVars, handlerVars
<1>24. ASSUME NEW t \in Tasks, PollCancelled(t) PROVE SpawnInv'
  BY <1>24 DEF PollCancelled, SaveUnlock, GotoT, tableVars, handlerVars
<1>25. ASSUME NEW t \in Tasks, FiniHook(t) PROVE SpawnInv'
  BY <1>25 DEF FiniHook, GotoT, tableVars, handlerVars
<1>26. ASSUME NEW t \in Tasks, Unlink(t) PROVE SpawnInv'
  BY <1>26 DEF Unlink, GotoT, handlerVars, TableInv
<1>27. ASSUME NEW t \in Tasks, FreeTask(t) PROVE SpawnInv'
  BY <1>27 DEF FreeTask, GotoT, handlerVars
<1>28. CASE UNCHANGED vars
  BY <1>28 DEF vars
<1>q. QED
  BY <1>1, <1>2, <1>3, <1>4, <1>5, <1>6, <1>7, <1>8, <1>9, <1>10, <1>11, <1>12, <1>13, <1>14, <1>15, <1>16, <1>17, <1>18, <1>19, <1>20, <1>21, <1>22, <1>23, <1>24, <1>25, <1>26, <1>27, <1>28 DEF Next, HandlerStep, TaskStep

LEMMA MutexStep == IInv /\ [Next]_vars => MutexInv'
<1> SUFFICES ASSUME IInv, [Next]_vars PROVE MutexInv'
  OBVIOUS
<1> USE OwnerAssumption DEF IInv, TypeOK, MutexInv
<1>1. ASSUME NEW h \in Handlers, BeginCreate(h) PROVE MutexInv'
  BY <1>1 DEF BeginCreate, GotoH, tableVars, taskVars
<1>2. ASSUME NEW h \in Handlers, TaskNew(h) PROVE MutexInv'
  BY <1>2 DEF TaskNew, GotoH, taskVars
<1>3. ASSUME NEW h \in Handlers, Spawn(h) PROVE MutexInv'
  BY <1>3 DEF Spawn, GotoH, GotoT, tableVars, SpawnInv
<1>4. ASSUME NEW h \in Handlers, SpawnFails(h) PROVE MutexInv'
  BY <1>4 DEF SpawnFails, GotoH, tableVars, taskVars
<1>5. ASSUME NEW h \in Handlers, FreeUnspawned(h) PROVE MutexInv'
  BY <1>5 DEF FreeUnspawned, Return, taskVars
<1>6. ASSUME NEW h \in Handlers, ReturnId(h) PROVE MutexInv'
  BY <1>6 DEF ReturnId, Return, tableVars, taskVars
<1>7. ASSUME NEW h \in Handlers, BeginMethod(h) PROVE MutexInv'
  BY <1>7 DEF BeginMethod, GotoH, tableVars, taskVars
<1>8. ASSUME NEW h \in Handlers, ReaderLock(h) PROVE MutexInv'
  BY <1>8 DEF ReaderLock, GotoH, tableVars, taskVars
<1>9. ASSUME NEW h \in Handlers, FindTask(h) PROVE MutexInv'
  BY <1>9 DEF FindTask, GotoH, tableVars, taskVars
<1>10. ASSUME NEW h \in Handlers, ShowTasks(h) PROVE MutexInv'
  BY <1>10 DEF ShowTasks, GotoH, tableVars, taskVars
<1>11. ASSUME NEW h \in Handlers, LockTask(h) PROVE MutexInv'
  BY <1>11 DEF LockTask, GotoH, tableVars, taskVars
<1>12. ASSUME NEW h \in Handlers, SetRun(h) PROVE MutexInv'
  BY <1>12 DEF SetRun, Signal, GotoH, tableVars
<1>13. ASSUME NEW h \in Handlers, ReaderUnlock(h) PROVE MutexInv'
  BY <1>13 DEF ReaderUnlock, Return, tableVars, taskVars
<1>14. ASSUME NEW t \in Tasks, InitHook(t) PROVE MutexInv'
  BY <1>14 DEF InitHook, GotoT, tableVars, handlerVars
<1>15. ASSUME NEW t \in Tasks, WorkHook(t) PROVE MutexInv'
  BY <1>15 DEF WorkHook, GotoT, tableVars, handlerVars
<1>16. ASSUME NEW t \in Tasks, SaveLock(t) PROVE MutexInv'
  BY <1>16 DEF SaveLock, GotoT, tableVars, handlerVars
<1>17. ASSUME NEW t \in Tasks, NextRecord(t) PROVE MutexInv'
  BY <1>17 DEF NextRecord, GotoT, tableVars, handlerVars
<1>18. ASSUME NEW t \in Tasks, SaveDone(t) PROVE MutexInv'
  BY <1>18 DEF SaveDone, SaveUnlock, GotoT, tableVars, handlerVars
<1>19. ASSUME NEW t \in Tasks, Poll(t) PROVE MutexInv'
  BY <1>19 DEF Poll, GotoT, tableVars, handlerVars
<1>20. ASSUME NEW t \in Tasks, PauseLock(t) PROVE MutexInv'
  BY <1>20 DEF PauseLock, GotoT, tableVars, handlerVars
<1>21. ASSUME NEW t \in Tasks, PauseTest(t) PROVE MutexInv'
  BY <1>21 DEF PauseTest, GotoT, tableVars, handlerVars
<1>22. ASSUME NEW t \in Tasks, SpuriousWakeup(t) PROVE MutexInv'
  BY <1>22 DEF SpuriousWakeup, GotoT, tableVars, handlerVars
<1>23. ASSUME NEW t \in Tasks, PollContinue(t) PROVE MutexInv'
  BY <1>23 DEF PollContinue, GotoT, tableVars, handlerVars
<1>24. ASSUME NEW t \in Tasks, PollCancelled(t) PROVE MutexInv'
  BY <1>24 DEF PollCancelled, SaveUnlock, GotoT, tableVars, handlerVars
<1>25. ASSUME NEW t \in Tasks, FiniHook(t) PROVE MutexInv'
  BY <1>25 DEF FiniHook, GotoT, tableVars, handlerVars
<1>26. ASSUME NEW t \in Tasks, Unlink(t) PROVE MutexInv'
  BY <1>26 DEF Unlink, GotoT, handlerVars
<1>27. ASSUME NEW t \in Tasks, FreeTask(t) PROVE MutexInv'
  BY <1>27 DEF FreeTask, GotoT, handlerVars
<1>28. CASE UNCHANGED vars
  BY <1>28 DEF vars
<1>q. QED
  BY <1>1, <1>2, <1>3, <1>4, <1>5, <1>6, <1>7, <1>8, <1>9, <1>10, <1>11, <1>12, <1>13, <1>14, <1>15, <1>16, <1>17, <1>18, <1>19, <1>20, <1>21, <1>22, <1>23, <1>24, <1>25, <1>26, <1>27, <1>28 DEF Next, HandlerStep, TaskStep

LEMMA WaitStep == IInv /\ [Next]_vars => NoLostWakeup'
<1> SUFFICES ASSUME IInv, [Next]_vars PROVE NoLostWakeup'
  OBVIOUS
<1> USE DEF IInv, TypeOK, NoLostWakeup
<1>1. ASSUME NEW h \in Handlers, BeginCreate(h) PROVE NoLostWakeup'
  BY <1>1 DEF BeginCreate, GotoH, tableVars, taskVars
<1>2. ASSUME NEW h \in Handlers, TaskNew(h) PROVE NoLostWakeup'
  BY <1>2 DEF TaskNew, GotoH, taskVars, TableInv
<1>3. ASSUME NEW h \in Handlers, Spawn(h) PROVE NoLostWakeup'
  BY <1>3 DEF Spawn, GotoH, GotoT, tableVars
<1>4. ASSUME NEW h \in Handlers, SpawnFails(h) PROVE NoLostWakeup'
  BY <1>4 DEF SpawnFails, GotoH, tableVars, taskVars
<1>5. ASSUME NEW h \in Handlers, FreeUnspawned(h) PROVE NoLostWakeup'
  BY <1>5 DEF FreeUnspawned, Return, taskVars
<1>6. ASSUME NEW h \in Handlers, ReturnId(h) PROVE NoLostWakeup'
  BY <1>6 DEF ReturnId, Return, tableVars, taskVars
<1>7. ASSUME NEW h \in Handlers, BeginMethod(h) PROVE NoLostWakeup'
  BY <1>7 DEF BeginMethod, GotoH, tableVars, taskVars
<1>8. ASSUME NEW h \in Handlers, ReaderLock(h) PROVE NoLostWakeup'
  BY <1>8 DEF ReaderLock, GotoH, tableVars, taskVars
<1>9. ASSUME NEW h \in Handlers, FindTask(h) PROVE NoLostWakeup'
  BY <1>9 DEF FindTask, GotoH, tableVars, taskVars
<1>10. ASSUME NEW h \in Handlers, ShowTasks(h) PROVE NoLostWakeup'
  BY <1>10 DEF ShowTasks, GotoH, tableVars, taskVars
<1>11. ASSUME NEW h \in Handlers, LockTask(h) PROVE NoLostWakeup'
  BY <1>11 DEF LockTask, GotoH, tableVars, taskVars
<1>12. ASSUME NEW h \in Handlers, SetRun(h) PROVE NoLostWakeup'
  BY <1>12 DEF SetRun, Signal, GotoH, tableVars
<1>13. ASSUME NEW h \in Handlers, ReaderUnlock(h) PROVE NoLostWakeup'
  BY <1>13 DEF ReaderUnlock, Return, tableVars, taskVars
<1>14. ASSUME NEW t \in Tasks, InitHook(t) PROVE NoLostWakeup'
  BY <1>14 DEF InitHook, GotoT, tableVars, handlerVars
<1>15. ASSUME NEW t \in Tasks, WorkHook(t) PROVE NoLostWakeup'
  BY <1>15 DEF WorkHook, GotoT, tableVars, handlerVars
<1>16. ASSUME NEW t \in Tasks, SaveLock(t) PROVE NoLostWakeup'
  BY <1>16 DEF SaveLock, GotoT, tableVars, handlerVars
<1>17. ASSUME NEW t \in Tasks, NextRecord(t) PROVE NoLostWakeup'
  BY <1>17 DEF NextRecord, GotoT, tableVars, handlerVars
<1>18. ASSUME NEW t \in Tasks, SaveDone(t) PROVE NoLostWakeup'
  BY <1>18 DEF SaveDone, SaveUnlock, GotoT, tableVars, handlerVars
<1>19. ASSUME NEW t \in Tasks, Poll(t) PROVE NoLostWakeup'
  BY <1>19 DEF Poll, GotoT, tableVars, handlerVars
<1>20. ASSUME NEW t \in Tasks, PauseLock(t) PROVE NoLostWakeup'
  BY <1>20 DEF PauseLock, GotoT, tableVars, handlerVars
<1>21. ASSUME NEW t \in Tasks, PauseTest(t) PROVE NoLostWakeup'
  BY <1>21 DEF PauseTest, GotoT, tableVars, handlerVars
<1>22. ASSUME NEW t \in Tasks, SpuriousWakeup(t) PROVE NoLostWakeup'
  BY <1>22 DEF SpuriousWakeup, GotoT, tableVars, handlerVars
<1>23. ASSUME NEW t \in Tasks, PollContinue(t) PROVE NoLostWakeup'
  BY <1>23 DEF PollContinue, GotoT, tableVars, handlerVars
<1>24. ASSUME NEW t \in Tasks, PollCancelled(t) PROVE NoLostWakeup'
  BY <1>24 DEF PollCancelled, SaveUnlock, GotoT, tableVars, handlerVars
<1>25. ASSUME NEW t \in Tasks, FiniHook(t) PROVE NoLostWakeup'
  BY <1>25 DEF FiniHook, GotoT, tableVars, handlerVars
<1>26. ASSUME NEW t \in Tasks, Unlink(t) PROVE NoLostWakeup'
  BY <1>26 DEF Unlink, GotoT, handlerVars
<1>27. ASSUME NEW t \in Tasks, FreeTask(t) PROVE NoLostWakeup'
  BY <1>27 DEF FreeTask, GotoT, handlerVars
<1>28. CASE UNCHANGED vars
  BY <1>28 DEF vars
<1>q. QED
  BY <1>1, <1>2, <1>3, <1>4, <1>5, <1>6, <1>7, <1>8, <1>9, <1>10, <1>11, <1>12, <1>13, <1>14, <1>15, <1>16, <1>17, <1>18, <1>19, <1>20, <1>21, <1>22, <1>23, <1>24, <1>25, <1>26, <1>27, <1>28 DEF Next, HandlerStep, TaskStep

LEMMA LateStep == IInv /\ [Next]_vars => LateInv'
<1> SUFFICES ASSUME IInv, [Next]_vars PROVE LateInv'
  OBVIOUS
<1> USE DEF IInv, TypeOK, LateInv
<1>1. ASSUME NEW h \in Handlers, BeginCreate(h) PROVE LateInv'
  BY <1>1 DEF BeginCreate, GotoH, tableVars, taskVars
<1>2. ASSUME NEW h \in Handlers, TaskNew(h) PROVE LateInv'
  BY <1>2 DEF TaskNew, GotoH, taskVars, TableInv
<1>3. ASSUME NEW h \in Handlers, Spawn(h) PROVE LateInv'
  BY <1>3 DEF Spawn, GotoH, GotoT, tableVars, SpawnInv
<1>4. ASSUME NEW h \in Handlers, SpawnFails(h) PROVE LateInv'
  BY <1>4 DEF SpawnFails, GotoH, tableVars, taskVars
<1>5. ASSUME NEW h \in Handlers, FreeUnspawned(h) PROVE LateInv'
  BY <1>5 DEF FreeUnspawned, Return, taskVars
<1>6. ASSUME NEW h \in Handlers, ReturnId(h) PROVE LateInv'
  BY <1>6 DEF ReturnId, Return, tableVars, taskVars
<1>7. ASSUME NEW h \in Handlers, BeginMethod(h) PROVE LateInv'
  BY <1>7 DEF BeginMethod, GotoH, tableVars, taskVars
<1>8. ASSUME NEW h \in Handlers, ReaderLock(h) PROVE LateInv'
  BY <1>8 DEF ReaderLock, GotoH, tableVars, taskVars
<1>9. ASSUME NEW h \in Handlers, FindTask(h) PROVE LateInv'
  BY <1>9 DEF FindTask, GotoH, tableVars, taskVars
<1>10. ASSUME NEW h \in Handlers, ShowTasks(h) PROVE LateInv'
  BY <1>10 DEF ShowTasks, GotoH, tableVars, taskVars
<1>11. ASSUME NEW h \in Handlers, LockTask(h) PROVE LateInv'
  BY <1>11 DEF LockTask, GotoH, tableVars, taskVars
<1>12. ASSUME NEW h \in Handlers, SetRun(h) PROVE LateInv'
  BY <1>12 DEF SetRun, Signal, GotoH, tableVars
<1>13. ASSUME NEW h \in Handlers, ReaderUnlock(h) PROVE LateInv'
  BY <1>13 DEF ReaderUnlock, Return, tableVars, taskVars
<1>14. ASSUME NEW t \in Tasks, InitHook(t) PROVE LateInv'
  BY <1>14 DEF InitHook, GotoT, tableVars, handlerVars
<1>15. ASSUME NEW t \in Tasks, WorkHook(t) PROVE LateInv'
  BY <1>15 DEF WorkHook, GotoT, tableVars, handlerVars
<1>16. ASSUME NEW t \in Tasks, SaveLock(t) PROVE LateInv'
  BY <1>16 DEF SaveLock, GotoT, tableVars, handlerVars
<1>17. ASSUME NEW t \in Tasks, NextRecord(t) PROVE LateInv'
  BY <1>17 DEF NextRecord, GotoT, tableVars, handlerVars
<1>18. ASSUME NEW t \in Tasks, SaveDone(t) PROVE LateInv'
  BY <1>18 DEF SaveDone, SaveUnlock, GotoT, tableVars, handlerVars
<1>19. ASSUME NEW t \in Tasks, Poll(t) PROVE LateInv'
  BY <1>19 DEF Poll, GotoT, tableVars, handlerVars
<1>20. ASSUME NEW t \in Tasks, PauseLock(t) PROVE LateInv'
  BY <1>20 DEF PauseLock, GotoT, tableVars, handlerVars
<1>21. ASSUME NEW t \in Tasks, PauseTest(t) PROVE LateInv'
  BY <1>21 DEF PauseTest, GotoT, tableVars, handlerVars
<1>22. ASSUME NEW t \in Tasks, SpuriousWakeup(t) PROVE LateInv'
  BY <1>22 DEF SpuriousWakeup, GotoT, tableVars, handlerVars
<1>23. ASSUME NEW t \in Tasks, PollContinue(t) PROVE LateInv'
  BY <1>23 DEF PollContinue, GotoT, tableVars, handlerVars
<1>24. ASSUME NEW t \in Tasks, PollCancelled(t) PROVE LateInv'
  BY <1>24 DEF PollCancelled, SaveUnlock, GotoT, tableVars, handlerVars
<1>25. ASSUME NEW t \in Tasks, FiniHook(t) PROVE LateInv'
  BY <1>25 DEF FiniHook, GotoT, tableVars, handlerVars
<1>26. ASSUME NEW t \in Tasks, Unlink(t) PROVE LateInv'
  BY <1>26 DEF Unlink, GotoT, handlerVars
<1>27. ASSUME NEW t \in Tasks, FreeTask(t) PROVE LateInv'
  BY <1>27 DEF FreeTask, GotoT, handlerVars
<1>28. CASE UNCHANGED vars
  BY <1>28 DEF vars
<1>q. QED
  BY <1>1, <1>2, <1>3, <1>4, <1>5, <1>6, <1>7, <1>8, <1>9, <1>10, <1>11, <1>12, <1>13, <1>14, <1>15, <1>16, <1>17, <1>18, <1>19, <1>20, <1>21, <1>22, <1>23, <1>24, <1>25, <1>26, <1>27, <1>28 DEF Next, HandlerStep, TaskStep

LEMMA RecordStep == IInv /\ [Next]_vars => RecordInv'
<1> SUFFICES ASSUME IInv, [Next]_vars PROVE RecordInv'
  OBVIOUS
<1> USE DEF IInv, TypeOK, RecordInv
<1>1. ASSUME NEW h \in Handlers, BeginCreate(h) PROVE RecordInv'
  BY <1>1 DEF BeginCreate, GotoH, tableVars, taskVars
<1>2. ASSUME NEW h \in Handlers, TaskNew(h) PROVE RecordInv'
  BY <1>2 DEF TaskNew, GotoH, taskVars
<1>3. ASSUME NEW h \in Handlers, Spawn(h) PROVE RecordInv'
  BY <1>3 DEF Spawn, GotoH, GotoT, tableVars
<1>4. ASSUME NEW h \in Handlers, SpawnFails(h) PROVE RecordInv'
  BY <1>4 DEF SpawnFails, GotoH, tableVars, taskVars
<1>5. ASSUME NEW h \in Handlers, FreeUnspawned(h) PROVE RecordInv'
  BY <1>5 DEF FreeUnspawned, Return, taskVars
<1>6. ASSUME NEW h \in Handlers, ReturnId(h) PROVE RecordInv'
  BY <1>6 DEF ReturnId, Return, tableVars, taskVars
<1>7. ASSUME NEW h \in Handlers, BeginMethod(h) PROVE RecordInv'
  BY <1>7 DEF BeginMethod, GotoH, tableVars, taskVars
<1>8. ASSUME NEW h \in Handlers, ReaderLock(h) PROVE RecordInv'
  BY <1>8 DEF ReaderLock, GotoH, tableVars, taskVars
<1>9. ASSUME NEW h \in Handlers, FindTask(h) PROVE RecordInv'
  BY <1>9 DEF FindTask, GotoH, tableVars, taskVars
<1>10. ASSUME NEW h \in Handlers, ShowTasks(h) PROVE RecordInv'
  BY <1>10 DEF ShowTasks, GotoH, tableVars, taskVars
<1>11. ASSUME NEW h \in Handlers, LockTask(h) PROVE RecordInv'
  BY <1>11 DEF LockTask, GotoH, tableVars, taskVars
<1>12. ASSUME NEW h \in Handlers, SetRun(h) PROVE RecordInv'
  BY <1>12 DEF SetRun, Signal, GotoH, tableVars
<1>13. ASSUME NEW h \in Handlers, ReaderUnlock(h) PROVE RecordInv'
  BY <1>13 DEF ReaderUnlock, Return, tableVars, taskVars
<1>14. ASSUME NEW t \in Tasks, InitHook(t) PROVE RecordInv'
  BY <1>14 DEF InitHook, GotoT, tableVars, handlerVars
<1>15. ASSUME NEW t \in Tasks, WorkHook(t) PROVE RecordInv'
  BY <1>15 DEF WorkHook, GotoT, tableVars, handlerVars
<1>16. ASSUME NEW t \in Tasks, SaveLock(t) PROVE RecordInv'
  BY <1>16 DEF SaveLock, GotoT, tableVars, handlerVars
<1>17. ASSUME NEW t \in Tasks, NextRecord(t) PROVE RecordInv'
  BY <1>17 DEF NextRecord, GotoT, tableVars, handlerVars
<1>18. ASSUME NEW t \in Tasks, SaveDone(t) PROVE RecordInv'
  BY <1>18 DEF SaveDone, SaveUnlock, GotoT, tableVars, handlerVars
<1>19. ASSUME NEW t \in Tasks, Poll(t) PROVE RecordInv'
  BY <1>19 DEF Poll, GotoT, tableVars, handlerVars
<1>20. ASSUME NEW t \in Tasks, PauseLock(t) PROVE RecordInv'
  BY <1>20 DEF PauseLock, GotoT, tableVars, handlerVars
<1>21. ASSUME NEW t \in Tasks, PauseTest(t) PROVE RecordInv'
  BY <1>21 DEF PauseTest, GotoT, tableVars, handlerVars
<1>22. ASSUME NEW t \in Tasks, SpuriousWakeup(t) PROVE RecordInv'
  BY <1>22 DEF SpuriousWakeup, GotoT, tableVars, handlerVars
<1>23. ASSUME NEW t \in Tasks, PollContinue(t) PROVE RecordInv'
  BY <1>23 DEF PollContinue, GotoT, tableVars, handlerVars
<1>24. ASSUME NEW t \in Tasks, PollCancelled(t) PROVE RecordInv'
  BY <1>24 DEF PollCancelled, SaveUnlock, GotoT, tableVars, handlerVars
<1>25. ASSUME NEW t \in Tasks, FiniHook(t) PROVE RecordInv'
  BY <1>25 DEF FiniHook, GotoT, tableVars, handlerVars
<1>26. ASSUME NEW t \in Tasks, Unlink(t) PROVE RecordInv'
  BY <1>26 DEF Unlink, GotoT, handlerVars
<1>27. ASSUME NEW t \in Tasks, FreeTask(t) PROVE RecordInv'
  BY <1>27 DEF FreeTask, GotoT, handlerVars
<1>28. CASE UNCHANGED vars
  BY <1>28 DEF vars
<1>q. QED
  BY <1>1, <1>2, <1>3, <1>4, <1>5, <1>6, <1>7, <1>8, <1>9, <1>10, <1>11, <1>12, <1>13, <1>14, <1>15, <1>16, <1>17, <1>18, <1>19, <1>20, <1>21, <1>22, <1>23, <1>24, <1>25, <1>26, <1>27, <1>28 DEF Next, HandlerStep, TaskStep

LEMMA SaveStep == IInv /\ [Next]_vars => SaveMutexReleased'
<1> SUFFICES ASSUME IInv, [Next]_vars PROVE SaveMutexReleased'
  OBVIOUS
<1> USE NoTaskAssumption DEF IInv, TypeOK, SaveMutexReleased
<1>1. ASSUME NEW h \in Handlers, BeginCreate(h) PROVE SaveMutexReleased'
  BY <1>1 DEF BeginCreate, GotoH, tableVars, taskVars
<1>2. ASSUME NEW h \in Handlers, TaskNew(h) PROVE SaveMutexReleased'
  BY <1>2 DEF TaskNew, GotoH, taskVars
<1>3. ASSUME NEW h \in Handlers, Spawn(h) PROVE SaveMutexReleased'
  BY <1>3 DEF Spawn, GotoH, GotoT, tableVars, SpawnInv
<1>4. ASSUME NEW h \in Handlers, SpawnFails(h) PROVE SaveMutexReleased'
  BY <1>4 DEF SpawnFails, GotoH, tableVars, taskVars
<1>5. ASSUME NEW h \in Handlers, FreeUnspawned(h) PROVE SaveMutexReleased'
  BY <1>5 DEF FreeUnspawned, Return, taskVars
<1>6. ASSUME NEW h \in Handlers, ReturnId(h) PROVE SaveMutexReleased'
  BY <1>6 DEF ReturnId, Return, tableVars, taskVars
<1>7. ASSUME NEW h \in Handlers, BeginMethod(h) PROVE SaveMutexReleased'
  BY <1>7 DEF BeginMethod, GotoH, tableVars, taskVars
<1>8. ASSUME NEW h \in Handlers, ReaderLock(h) PROVE SaveMutexReleased'
  BY <1>8 DEF ReaderLock, GotoH, tableVars, taskVars
<1>9. ASSUME NEW h \in Handlers, FindTask(h) PROVE SaveMutexReleased'
  BY <1>9 DEF FindTask, GotoH, tableVars, taskVars
<1>10. ASSUME NEW h \in Handlers, ShowTasks(h) PROVE SaveMutexReleased'
  BY <1>10 DEF ShowTasks, GotoH, tableVars, taskVars
<1>11. ASSUME NEW h \in Handlers, LockTask(h) PROVE SaveMutexReleased'
  BY <1>11 DEF LockTask, GotoH, tableVars, taskVars
<1>12. ASSUME NEW h \in Handlers, SetRun(h) PROVE SaveMutexReleased'
  BY <1>12 DEF SetRun, Signal, GotoH, tableVars
<1>13. ASSUME NEW h \in Handlers, ReaderUnlock(h) PROVE SaveMutexReleased'
  BY <1>13 DEF ReaderUnlock, Return, tableVars, taskVars
<1>14. ASSUME NEW t \in Tasks, InitHook(t) PROVE SaveMutexReleased'
  BY <1>14 DEF InitHook, GotoT, tableVars, handlerVars
<1>15. ASSUME NEW t \in Tasks, WorkHook(t) PROVE SaveMutexReleased'
  BY <1>15 DEF WorkHook, GotoT, tableVars, handlerVars
<1>16. ASSUME NEW t \in Tasks, SaveLock(t) PROVE SaveMutexReleased'
  BY <1>16 DEF SaveLock, GotoT, tableVars, handlerVars
<1>17. ASSUME NEW t \in Tasks, NextRecord(t) PROVE SaveMutexReleased'
  BY <1>17 DEF NextRecord, GotoT, tableVars, handlerVars
<1>18. ASSUME NEW t \in Tasks, SaveDone(t) PROVE SaveMutexReleased'
  BY <1>18 DEF SaveDone, SaveUnlock, GotoT, tableVars, handlerVars, RecordInv
<1>19. ASSUME NEW t \in Tasks, Poll(t) PROVE SaveMutexReleased'
  BY <1>19 DEF Poll, GotoT, tableVars, handlerVars
<1>20. ASSUME NEW t \in Tasks, PauseLock(t) PROVE SaveMutexReleased'
  BY <1>20 DEF PauseLock, GotoT, tableVars, handlerVars
<1>21. ASSUME NEW t \in Tasks, PauseTest(t) PROVE SaveMutexReleased'
  BY <1>21 DEF PauseTest, GotoT, tableVars, handlerVars
<1>22. ASSUME NEW t \in Tasks, SpuriousWakeup(t) PROVE SaveMutexReleased'
  BY <1>22 DEF SpuriousWakeup, GotoT, tableVars, handlerVars
<1>23. ASSUME NEW t \in Tasks, PollContinue(t) PROVE SaveMutexReleased'
  BY <1>23 DEF PollContinue, GotoT, tableVars, handlerVars
<1>24. ASSUME NEW t \in Tasks, PollCancelled(t) PROVE SaveMutexReleased'
  BY <1>24 DEF PollCancelled, SaveUnlock, GotoT, tableVars, handlerVars
<1>25. ASSUME NEW t \in Tasks, FiniHook(t) PROVE SaveMutexReleased'
  BY <1>25 DEF FiniHook, GotoT, tableVars, handlerVars
<1>26. ASSUME NEW t \in Tasks, Unlink(t) PROVE SaveMutexReleased'
  BY <1>26 DEF Unlink, GotoT, handlerVars
<1>27. ASSUME NEW t \in Tasks, FreeTask(t) PROVE SaveMutexReleased'
  BY <1>27 DEF FreeTask, GotoT, handlerVars
<1>28. CASE UNCHANGED vars
  BY <1>28 DEF vars
<1>q. QED
  BY <1>1, <1>2, <1>3, <1>4, <1>5, <1>6, <1>7, <1>8, <1>9, <1>10, <1>11, <1>12, <1>13, <1>14, <1>15, <1>16, <1>17, <1>18, <1>19, <1>20, <1>21, <1>22, <1>23, <1>24, <1>25, <1>26, <1>27, <1>28 DEF Next, HandlerStep, TaskStep

-----------------------------------------------------------------------------
LEMMA InitInv == Init => IInv
<1> SUFFICES ASSUME Init PROVE IInv
  OBVIOUS
<1> USE DEF Init
<1>1. TypeOK
  BY OneIsTask, MaxTasksAssumption DEF TypeOK, TaskPC, HandlerPC, Ops, Tasks
<1>2. ReadersInv /\ TableInv /\ SpawnInv
  BY DEF ReadersInv, TableInv, SpawnInv
<1>3. MutexInv
  BY OwnerAssumption DEF MutexInv
<1>4. NoLostWakeup /\ LateInv /\ RecordInv /\ SaveMutexReleased
  BY NoTaskAssumption DEF NoLostWakeup, LateInv, RecordInv, SaveMutexReleased
<1>q. QED
  BY <1>1, <1>2, <1>3, <1>4 DEF IInv

LEMMA IInvHolds == Spec => []IInv
<1>1. IInv /\ [Next]_vars => IInv'
  BY TypeStep, ReadersStep, TableStep, SpawnStep, MutexStep, WaitStep, LateStep,
     RecordStep, SaveStep DEF IInv
<1>q. QED
  BY InitInv, <1>1, PTL DEF Spec

\* Every variable of the task table keeps its type, for any number of tasks and
\* client threads.
THEOREM TaskTypeOK == Spec => []TypeOK
<1>1. IInv => TypeOK
  BY DEF IInv
<1>q. QED
  BY IInvHolds, <1>1, PTL

\* No task method works on a freed struct mbb_task and no held mutex is freed.
THEOREM TaskNoDanglingUse == Spec => []NoDanglingUse
<1>1. ASSUME IInv PROVE NoDanglingUse
  <2> USE <1>1 DEF IInv
  <2>1. ASSUME NEW h \in Handlers, hpc[h] \in {"lock", "set"} PROVE mem[arg[h]] = "live"
    BY <2>1 DEF TableInv
  <2>2. \A t \in ht : mem[t] = "live"
    BY DEF TableInv
  <2>3. ASSUME NEW t \in Tasks, mem[t] = "freed", mutex[t] # Free PROVE FALSE
    <3>1. t \notin ht
      BY <2>3 DEF TableInv
    <3>2. CASE mutex[t] = Self
      BY <3>1, <3>2 DEF MutexInv, TableInv, TypeOK
    <3>3. CASE \E h \in Handlers : mutex[t] = h
      BY <3>1, <3>3 DEF MutexInv, TableInv, TypeOK
    <3>q. QED
      BY <2>3, <3>2, <3>3 DEF TypeOK
  <2>q. QED
    BY <2>1, <2>2, <2>3 DEF NoDanglingUse
<1>q. QED
  BY IInvHolds, <1>1, PTL

\* No wake-up of a paused task is lost.
THEOREM TaskNoLostWakeup == Spec => []NoLostWakeup
<1>1. IInv => NoLostWakeup
  BY DEF IInv
<1>q. QED
  BY IInvHolds, <1>1, PTL

\* A stopped task begins at most one more round.
THEOREM TaskStopTakesEffect == Spec => []StopTakesEffect
<1>1. IInv => StopTakesEffect
  BY DEF IInv, LateInv, StopTakesEffect
<1>q. QED
  BY IInvHolds, <1>1, PTL

\* The save mutex is never left locked.
THEOREM TaskSaveMutexReleased == Spec => []SaveMutexReleased
<1>1. IInv => SaveMutexReleased
  BY DEF IInv
<1>q. QED
  BY IInvHolds, <1>1, PTL
=============================================================================
