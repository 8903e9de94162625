----------------------------- MODULE StatProofs -----------------------------
(***************************************************************************)
(* Proofs about Stat, for every set of tasks, clients, files and faults:    *)
(* the shared database connection and the memory of the netflow tasks; the  *)
(* agreement of the three tables; and what an update leaves in them.        *)
(***************************************************************************)
EXTENDS Stat, FiniteSetTheorems, NaturalsInduction, WellFoundedInduction, TLAPS

(* The inductive invariant, in parts.                                      *)

JobPC == {"none", "init", "begin", "wipe", "wait", "open", "read", "record", "out", "fini",
          "done", "dead", "refused", "unfed"}
ClientPC == {"idle", "begin", "wipe", "wait", "query"}

\* What the two arguments need of the types.  Files and pools may hold anything.
TypeInv ==
  /\ pc \in [Threads -> JobPC \cup ClientPC]
  /\ \A j \in Jobs : pc[j] \in JobPC
  /\ \A c \in Clients : pc[c] \in ClientPC
  /\ DOMAIN job = Jobs
  /\ \A j \in Jobs : DOMAIN job[j] = DOMAIN NoJob /\ job[j].ptr \in BOOLEAN
  /\ heap \in [Jobs -> {"none", "live", "freed", "twice"}]
  /\ frees \in [Jobs -> Nat]
  /\ query \in [owner : Clients \cup {None, Gone}, depth : Nat]
  /\ kept \in Nat

\* A task has a pool from the time it opens a file until it has saved it.
PoolInv ==
  \A j \in Jobs :
    /\ pc[j] \in {"read", "record", "out"} => heap[j] = "live"
    /\ pc[j] \notin {"read", "record", "out", "fini"} => heap[j] # "live"

\* A task has a connection of its own from its init hook to its end.
OwnInv ==
  \A j \in Jobs :
    pc[j] \in {"begin", "wipe", "wait", "open", "read", "record", "out", "fini"} => j \in own

\* The clients inside query_mutex.
Users == {c \in Clients \ own : pc[c] \in {"wipe", "wait", "query"}}

MutexInv ==
  /\ Users \subseteq {query.owner}
  /\ Shared \in tx <=> \E c \in Users : pc[c] \in {"wipe", "wait"}
  /\ query.depth = kept + (IF Users = {} THEN 0 ELSE 1)

IInv == TypeInv /\ PoolInv /\ FreedOnce /\ OwnInv /\ MutexInv

-----------------------------------------------------------------------------

\* The fields of a task's data, at first without a pool.
LEMMA InitialJob == DOMAIN NoJob = {"kind", "files", "cur", "flow", "pool", "ptr", "rest"} /\ NoJob.ptr = FALSE
  BY DEF NoJob

\* db_query_lock: a client that gets the mutex of the shared connection finds nobody inside.
LEMMA LockedQuery ==
  ASSUME IInv, NEW x \in Threads, pc[x] \in {"idle", "begin"}, MayQuery(x), QueryLock(x)
  PROVE  /\ query' \in [owner : Clients \cup {None, Gone}, depth : Nat]
         /\ x \in own => query' = query
         /\ x \notin own => /\ x \in Clients /\ Users = {}
                            /\ query'.owner = x /\ query'.depth = kept + 1
<1> USE ThreadsAssumption DEF IInv, TypeInv, Threads, JobPC
<1>1. CASE x \in own
  BY <1>1 DEF QueryLock
<1>2. CASE x \notin own
  <2>1. x \in Clients
    BY <1>2 DEF OwnInv
  <2>2. Users = {}
    BY <1>2 DEF MayQuery, Users, MutexInv
  <2>3. query' = [owner |-> x, depth |-> query.depth + 1] /\ query.depth = kept
    BY <1>2, <2>2 DEF QueryLock, MutexInv
  <2>q. QED
    BY <1>2, <2>1, <2>2, <2>3
<1>q. QED
  BY <1>1, <1>2

\* db_query_unlock: it is the thread inside that lets go.
LEMMA UnlockedQuery ==
  ASSUME IInv, NEW x \in Threads, pc[x] \in {"wipe", "wait", "query"}, QueryUnlock(x)
  PROVE  /\ query' \in [owner : Clients \cup {None, Gone}, depth : Nat]
         /\ x \in own => query' = query
         /\ x \notin own => x \in Clients /\ Users = {x} /\ query'.depth = kept
<1> USE ThreadsAssumption DEF IInv, TypeInv, Threads, JobPC
<1>1. CASE x \in own
  BY <1>1 DEF QueryUnlock
<1>2. CASE x \notin own
  <2>1. x \in Clients
    BY <1>2 DEF OwnInv
  <2>2. Users = {x} /\ query.depth = kept + 1
    BY <1>2, <2>1 DEF Users, MutexInv
  <2>3. CASE query.depth = 1
    <3>1. query' = [owner |-> None, depth |-> 0] /\ kept = 0
      BY <1>2, <2>2, <2>3 DEF QueryUnlock
    <3>q. QED
      BY <1>2, <2>1, <2>2, <3>1
  <2>4. CASE query.depth # 1
    <3>1. query' = [query EXCEPT !.depth = query.depth - 1]
      BY <1>2, <2>4 DEF QueryUnlock
    <3>q. QED
      BY <1>2, <2>1, <2>2, <3>1
  <2>q. QED
    BY <2>3, <2>4
<1>q. QED
  BY <1>1, <1>2

\* A wipe that has failed: the method has answered, or the task is over.
LEMMA WipeFails ==
  ASSUME IInv, NEW x \in Threads, pc[x] \in {"begin", "wipe", "wait"}, WipeFailed(x)
  PROVE  /\ DOMAIN job' = Jobs
         /\ \A j \in Jobs : DOMAIN job'[j] = DOMAIN NoJob /\ job'[j].ptr = job[j].ptr
         /\ pc' = [pc EXCEPT ![x] = IF x \in Jobs THEN "dead" ELSE "idle"]
         /\ own' \cap Clients = own \cap Clients
         /\ \A j \in Jobs : j # x => (j \in own' <=> j \in own)
<1> USE ThreadsAssumption DEF IInv, TypeInv, Threads, JobPC
<1>1. CASE x \in Jobs
  <2>1. ~ job[x].ptr
    BY <1>1 DEF PoolInv, FreedOnce
  <2>2. job' = [job EXCEPT ![x] = NoJob] /\ pc' = [pc EXCEPT ![x] = "dead"] /\ own' = own \ {x}
    BY <1>1 DEF WipeFailed, Ended, Goto
  <2>3. job[x].ptr = FALSE /\ job'[x].ptr = FALSE
    BY <1>1, <2>1, <2>2, InitialJob
  <2>q. QED
    <3>1. \A j \in Jobs : j # x => job'[j] = job[j]
      BY <2>2
    <3>2. DOMAIN job' = Jobs /\ job'[x] = NoJob /\ x \notin Clients
      BY <1>1, <2>2
    <3>q. QED
      BY ONLY <1>1, <2>2, <2>3, <3>1, <3>2, TypeInv DEF TypeInv
<1>2. CASE x \notin Jobs
  BY <1>2 DEF WipeFailed, Goto
<1>q. QED
  BY <1>1, <1>2

\* path_tree_open_next: with a file comes a pool.
LEMMA OpensNext ==
  ASSUME IInv, NEW j \in Jobs, OpenNext(j)
  PROVE  /\ DOMAIN job' = Jobs
         /\ \A i \in Jobs : i # j => job'[i] = job[i]
         /\ DOMAIN job'[j] = DOMAIN NoJob
         /\ pc[j] = "open"
         /\ \E l \in {"read", "open", "fini"} :
              /\ pc' = [pc EXCEPT ![j] = l]
              /\ \/ job'[j].ptr = TRUE /\ heap' = [heap EXCEPT ![j] = "live"] /\ l # "open"
                 \/ job'[j].ptr = job[j].ptr /\ heap' = heap /\ l # "read"
<1> USE InitialJob DEF IInv, TypeInv, Threads
<1> DEFINE next == [job[j] EXCEPT !.cur = @ + 1]
<1>1. pc[j] = "open" /\ DOMAIN next = DOMAIN NoJob /\ next.ptr = job[j].ptr
  BY DEF OpenNext
<1>2. CASE /\ job' = [job EXCEPT ![j] =
                       [next EXCEPT !.flow = Files[next.files[next.cur]], !.pool = <<>>, !.ptr = TRUE]]
           /\ heap' = [heap EXCEPT ![j] = "live"]
           /\ Polled(j, "read")
  <2> HIDE DEF next
  <2>q. QED
    BY <1>1, <1>2 DEF Polled, Goto
<1>3. CASE /\ job' = [job EXCEPT ![j] = next]
           /\ Polled(j, "open")
           /\ UNCHANGED heap
  <2> HIDE DEF next
  <2>q. QED
    BY <1>1, <1>3 DEF Polled, Goto
<1>q. QED
  BY <1>2, <1>3 DEF OpenNext

\* Every step keeps the account of pools and frees.
LEMMA PoolStep == IInv /\ [Next]_vars => (PoolInv /\ FreedOnce)'
<1> SUFFICES ASSUME IInv, [Next]_vars PROVE (PoolInv /\ FreedOnce)'
  OBVIOUS
<1> USE DEF IInv, TypeInv, PoolInv, FreedOnce, NoJob, Threads, JobPC, ClientPC
<1>1. ASSUME NEW x \in Threads, WipeBegin(x) PROVE (PoolInv /\ FreedOnce)'
  BY <1>1 DEF WipeBegin, MayQuery, QueryLock, Goto, taskVars
<1>2. ASSUME NEW x \in Threads, WipeBeginFails(x) PROVE (PoolInv /\ FreedOnce)'
  <2>1. pc[x] = "begin" /\ UNCHANGED <<heap, frees>>
    BY <1>2 DEF WipeBeginFails
  <2>q. QED
    BY <1>2, <2>1, WipeFails DEF WipeBeginFails
<1>3. ASSUME NEW x \in Threads, WipeTable(x) PROVE (PoolInv /\ FreedOnce)'
  BY <1>3 DEF WipeTable, Cleaned, Goto, taskVars, connVars
<1>4. ASSUME NEW x \in Threads, WipeWaits(x) PROVE (PoolInv /\ FreedOnce)'
  BY <1>4 DEF WipeWaits, Goto, taskVars, connVars, dbVars
<1>5. ASSUME NEW x \in Threads, WipeResumes(x) PROVE (PoolInv /\ FreedOnce)'
  BY <1>5 DEF WipeResumes, Cleaned, Goto, taskVars, connVars
<1>6. ASSUME NEW x \in Threads, WipeRollback(x) PROVE (PoolInv /\ FreedOnce)'
  <2>1. pc[x] \in {"begin", "wipe", "wait"} /\ UNCHANGED <<heap, frees>>
    BY <1>6 DEF WipeRollback
  <2>2. WipeFailed(x)
    BY <1>6 DEF WipeRollback
  <2>3. DOMAIN job' = Jobs /\ (\A j \in Jobs : job'[j].ptr = job[j].ptr)
        /\ pc' = [pc EXCEPT ![x] = IF x \in Jobs THEN "dead" ELSE "idle"]
    BY <2>1, <2>2, WipeFails
  <2>q. QED
    BY <2>1, <2>3
<1>7. ASSUME NEW x \in Threads, WipeCommit(x) PROVE (PoolInv /\ FreedOnce)'
  <2>1. pc[x] = "wipe" /\ pc' = [pc EXCEPT ![x] = IF x \in Jobs THEN "open" ELSE "idle"]
        /\ UNCHANGED <<heap, frees, job>>
    BY <1>7 DEF WipeCommit, Goto, taskVars
  <2>q. QED
    BY <2>1
<1>8. ASSUME NEW j \in Jobs, Create(j) PROVE (PoolInv /\ FreedOnce)'
  BY <1>8 DEF Create, Goto, connVars, dbVars
<1>9. ASSUME NEW j \in Jobs, CreateFails(j) PROVE (PoolInv /\ FreedOnce)'
  BY <1>9 DEF CreateFails, Goto, connVars, dbVars
<1>10. ASSUME NEW j \in Jobs, InitHook(j) PROVE (PoolInv /\ FreedOnce)'
  <2>1. pc[j] = "init" /\ UNCHANGED frees /\ DOMAIN job[j] = DOMAIN NoJob
    BY <1>10 DEF InitHook
  <2>2. CASE job[j].kind = "feed"
    <3>1. /\ job' = [job EXCEPT ![j] = [job[j] EXCEPT !.pool = <<>>, !.ptr = TRUE]]
          /\ heap' = [heap EXCEPT ![j] = "live"]
          /\ pc' = [pc EXCEPT ![j] = "read"]
      BY <1>10, <2>2 DEF InitHook, Goto
    <3>2. job'[j].ptr = TRUE
      BY <2>1, <3>1
    <3>q. QED
      BY <2>1, <3>1, <3>2
  <2>3. CASE job[j].kind # "feed"
    BY <1>10, <2>1, <2>3 DEF InitHook, Goto
  <2>q. QED
    BY <2>2, <2>3
<1>11. ASSUME NEW j \in Jobs, InitFails(j) PROVE (PoolInv /\ FreedOnce)'
  BY <1>11 DEF InitFails, Ended, Goto, dbVars
<1>12. ASSUME NEW j \in Jobs, OpenNext(j) PROVE (PoolInv /\ FreedOnce)'
  <2>1. PICK l \in {"read", "open", "fini"} :
          /\ pc' = [pc EXCEPT ![j] = l]
          /\ \/ job'[j].ptr = TRUE /\ heap' = [heap EXCEPT ![j] = "live"] /\ l # "open"
             \/ job'[j].ptr = job[j].ptr /\ heap' = heap /\ l # "read"
    BY <1>12, OpensNext
  <2>2. pc[j] = "open" /\ \A i \in Jobs : i # j => job'[i] = job[i]
    BY <1>12, OpensNext
  <2>3. UNCHANGED frees
    BY <1>12 DEF OpenNext
  <2>4. CASE l # "open" /\ job'[j].ptr = TRUE /\ heap' = [heap EXCEPT ![j] = "live"]
    BY <2>1, <2>2, <2>3, <2>4
  <2>5. CASE l # "read" /\ job'[j].ptr = job[j].ptr /\ heap' = heap
    BY <2>1, <2>2, <2>3, <2>5
  <2>q. QED
    BY <2>1, <2>4, <2>5
<1>13. ASSUME NEW j \in Jobs, NoMoreFiles(j) PROVE (PoolInv /\ FreedOnce)'
  BY <1>13 DEF NoMoreFiles, Goto, taskVars, connVars, dbVars
<1>14. ASSUME NEW j \in Jobs, ReadFlow(j) PROVE (PoolInv /\ FreedOnce)'
  BY <1>14 DEF ReadFlow, Polled, Goto, connVars, dbVars
<1>15. ASSUME NEW j \in Jobs, SaveBegin(j) PROVE (PoolInv /\ FreedOnce)'
  <2>1. pc[j] = "read" /\ UNCHANGED <<frees, heap>> /\ DOMAIN job[j] = DOMAIN NoJob
    BY <1>15 DEF SaveBegin
  <2>2. pc' = [pc EXCEPT ![j] = "record"] \/ pc' = [pc EXCEPT ![j] = "out"]
    BY <1>15 DEF SaveBegin, Goto
  <2>3. job' = job \/ job' = [job EXCEPT ![j] = [job[j] EXCEPT !.rest = DOMAIN job[j].pool]]
    BY <1>15 DEF SaveBegin
  <2>4. job'[j].ptr = job[j].ptr /\ \A i \in Jobs : i # j => job'[i] = job[i]
    BY <2>1, <2>3
  <2>q. QED
    BY <2>1, <2>2, <2>4
<1>16. ASSUME NEW j \in Jobs, SaveRecord(j) PROVE (PoolInv /\ FreedOnce)'
  BY <1>16 DEF SaveRecord, connVars
<1>17. ASSUME NEW j \in Jobs, SaveRollback(j) PROVE (PoolInv /\ FreedOnce)'
  BY <1>17 DEF SaveRollback, DbEnd, Goto, connVars
<1>18. ASSUME NEW j \in Jobs, SaveCommit(j) PROVE (PoolInv /\ FreedOnce)'
  BY <1>18 DEF SaveCommit, DbEnd, Goto, taskVars, connVars
<1>19. ASSUME NEW j \in Jobs, SaveOut(j) PROVE (PoolInv /\ FreedOnce)'
  BY <1>19 DEF SaveOut, PoolFree, ForgetPool, Polled, Goto, connVars, dbVars
<1>20. ASSUME NEW j \in Jobs, FiniHook(j) PROVE (PoolInv /\ FreedOnce)'
  BY <1>20 DEF FiniHook, PoolFree, Ended, Goto, dbVars
<1>21. ASSUME NEW c \in Clients, StatCommon(c) PROVE (PoolInv /\ FreedOnce)'
  BY <1>21 DEF StatCommon, Call, taskVars, dbVars
<1>22. ASSUME NEW c \in Clients, StatWipe(c) PROVE (PoolInv /\ FreedOnce)'
  BY <1>22 DEF StatWipe, Call, Goto, taskVars, connVars, dbVars
<1>23. ASSUME NEW c \in Clients, Query(c) PROVE (PoolInv /\ FreedOnce)'
  BY <1>23 DEF Query, Call, MayQuery, QueryLock, Goto, taskVars, dbVars
<1>24. ASSUME NEW c \in Clients, QueryDone(c) PROVE (PoolInv /\ FreedOnce)'
  BY <1>24 DEF QueryDone, QueryUnlock, Goto, taskVars, dbVars
<1>25. ASSUME NEW c \in Clients, Disconnect(c) PROVE (PoolInv /\ FreedOnce)'
  BY <1>25 DEF Disconnect, taskVars, dbVars
<1>26. CASE UNCHANGED vars
  BY <1>26 DEF vars, taskVars, connVars, dbVars
<1>q. QED
  BY <1>1, <1>2, <1>3, <1>4, <1>5, <1>6, <1>7, <1>8, <1>9, <1>10, <1>11, <1>12, <1>13, <1>14, <1>15, <1>16, <1>17, <1>18, <1>19, <1>20, <1>21, <1>22, <1>23, <1>24, <1>25, <1>26 DEF Next, Wipe, Job, Client

\* Every step keeps the types.
LEMMA TypeStep == IInv /\ [Next]_vars => TypeInv'
<1> SUFFICES ASSUME IInv, [Next]_vars PROVE TypeInv'
  OBVIOUS
<1> USE ThreadsAssumption DEF IInv, TypeInv, NoJob, Threads, JobPC, ClientPC
<1>1. ASSUME NEW x \in Threads, WipeBegin(x) PROVE TypeInv'
  <2>1. query' \in [owner : Clients \cup {None, Gone}, depth : Nat]
    BY <1>1, LockedQuery DEF WipeBegin
  <2>q. QED
    BY <1>1, <2>1 DEF WipeBegin, Goto, taskVars
<1>2. ASSUME NEW x \in Threads, WipeBeginFails(x) PROVE TypeInv'
  <2>1. query' \in [owner : Clients \cup {None, Gone}, depth : Nat]
    BY <1>2, LockedQuery DEF WipeBeginFails
  <2>2. kept' \in Nat /\ UNCHANGED <<heap, frees>> /\ pc[x] = "begin" /\ WipeFailed(x)
    BY <1>2 DEF WipeBeginFails
  <2>q. QED
    BY <2>1, <2>2, WipeFails
<1>3. ASSUME NEW x \in Threads, WipeTable(x) PROVE TypeInv'
  BY <1>3 DEF WipeTable, Cleaned, Goto, taskVars, connVars
<1>4. ASSUME NEW x \in Threads, WipeWaits(x) PROVE TypeInv'
  BY <1>4 DEF WipeWaits, Goto, taskVars, connVars, dbVars
<1>5. ASSUME NEW x \in Threads, WipeResumes(x) PROVE TypeInv'
  BY <1>5 DEF WipeResumes, Cleaned, Goto, taskVars, connVars
<1>6. ASSUME NEW x \in Threads, WipeRollback(x) PROVE TypeInv'
  <2>1. query' \in [owner : Clients \cup {None, Gone}, depth : Nat]
    BY <1>6, UnlockedQuery DEF WipeRollback
  <2>2. kept' \in Nat /\ UNCHANGED <<heap, frees>> /\ pc[x] \in {"wipe", "wait"} /\ WipeFailed(x)
    BY <1>6 DEF WipeRollback
  <2>q. QED
    BY <2>1, <2>2, WipeFails
<1>7. ASSUME NEW x \in Threads, WipeCommit(x) PROVE TypeInv'
  <2>1. query' \in [owner : Clients \cup {None, Gone}, depth : Nat]
    BY <1>7, UnlockedQuery DEF WipeCommit
  <2>2. pc[x] = "wipe" /\ pc' = [pc EXCEPT ![x] = IF x \in Jobs THEN "open" ELSE "idle"]
        /\ UNCHANGED <<heap, frees, job, kept>>
    BY <1>7 DEF WipeCommit, Goto, taskVars
  <2>q. QED
    BY <2>1, <2>2
<1>8. ASSUME NEW j \in Jobs, Create(j) PROVE TypeInv'
  BY <1>8 DEF Create, Goto, connVars, dbVars
<1>9. ASSUME NEW j \in Jobs, CreateFails(j) PROVE TypeInv'
  BY <1>9 DEF CreateFails, Goto, connVars, dbVars
<1>10. ASSUME NEW j \in Jobs, InitHook(j) PROVE TypeInv'
  <2>1. CASE job[j].kind = "feed"
    <3>1. job' = [job EXCEPT ![j].pool = <<>>, ![j].ptr = TRUE]
      BY <1>10, <2>1 DEF InitHook
    <3>2. DOMAIN job'[j] = DOMAIN NoJob /\ job'[j].ptr = TRUE
      BY <3>1, InitialJob
    <3>3. DOMAIN job' = Jobs /\ \A i \in Jobs : i # j => job'[i] = job[i]
      BY <3>1
    <3>4. heap' = [heap EXCEPT ![j] = "live"] /\ pc' = [pc EXCEPT ![j] = "read"]
          /\ UNCHANGED <<frees, query, kept>>
      BY <1>10, <2>1 DEF InitHook, Goto
    <3>q. QED
      BY <3>2, <3>3, <3>4
  <2>2. CASE job[j].kind # "feed"
    BY <1>10, <2>2 DEF InitHook, Goto
  <2>q. QED
    BY <2>1, <2>2
<1>11. ASSUME NEW j \in Jobs, InitFails(j) PROVE TypeInv'
  BY <1>11 DEF InitFails, Ended, Goto, dbVars
<1>12. ASSUME NEW j \in Jobs, OpenNext(j) PROVE TypeInv'
  <2>1. UNCHANGED <<frees, query, kept>>
    BY <1>12 DEF OpenNext, connVars
  <2>2. /\ DOMAIN job' = Jobs
        /\ \A i \in Jobs : i # j => job'[i] = job[i]
        /\ DOMAIN job'[j] = DOMAIN NoJob
    BY <1>12, OpensNext
  <2>6. PICK l \in {"read", "open", "fini"} :
          /\ pc' = [pc EXCEPT ![j] = l]
          /\ \/ job'[j].ptr = TRUE /\ heap' = [heap EXCEPT ![j] = "live"] /\ l # "open"
             \/ job'[j].ptr = job[j].ptr /\ heap' = heap /\ l # "read"
    BY <1>12, OpensNext
  <2>3. job'[j].ptr \in BOOLEAN
    BY <2>6
  <2>4. pc' \in [Threads -> JobPC \cup ClientPC] /\ (\A i \in Jobs : pc'[i] \in JobPC)
        /\ (\A c \in Clients : pc'[c] \in ClientPC)
    BY <2>6
  <2>5. heap' \in [Jobs -> {"none", "live", "freed", "twice"}]
    BY <2>6
  <2>q. QED
    BY <2>1, <2>2, <2>3, <2>4, <2>5
<1>13. ASSUME NEW j \in Jobs, NoMoreFiles(j) PROVE TypeInv'
  BY <1>13 DEF NoMoreFiles, Goto, taskVars, connVars, dbVars
<1>14. ASSUME NEW j \in Jobs, ReadFlow(j) PROVE TypeInv'
  BY <1>14 DEF ReadFlow, Polled, Goto, connVars, dbVars
<1>15. ASSUME NEW j \in Jobs, SaveBegin(j) PROVE TypeInv'
  <2>1. pc' = [pc EXCEPT ![j] = "record"] \/ pc' = [pc EXCEPT ![j] = "out"]
    BY <1>15 DEF SaveBegin, Goto
  <2>2. job' = job \/ job' = [job EXCEPT ![j] = [job[j] EXCEPT !.rest = DOMAIN job[j].pool]]
    BY <1>15 DEF SaveBegin
  <2>3. DOMAIN job' = Jobs /\ \A i \in Jobs : DOMAIN job'[i] = DOMAIN NoJob /\ job'[i].ptr \in BOOLEAN
    BY <2>2, InitialJob
  <2>q. QED
    BY <1>15, <2>1, <2>3 DEF SaveBegin, connVars
<1>16. ASSUME NEW j \in Jobs, SaveRecord(j) PROVE TypeInv'
  BY <1>16 DEF SaveRecord, connVars
<1>17. ASSUME NEW j \in Jobs, SaveRollback(j) PROVE TypeInv'
  BY <1>17 DEF SaveRollback, DbEnd, Goto, connVars
<1>18. ASSUME NEW j \in Jobs, SaveCommit(j) PROVE TypeInv'
  BY <1>18 DEF SaveCommit, DbEnd, Goto, taskVars, connVars
<1>19. ASSUME NEW j \in Jobs, SaveOut(j) PROVE TypeInv'
  <2>1. DOMAIN job' = Jobs /\ \A i \in Jobs : DOMAIN job'[i] = DOMAIN NoJob /\ job'[i].ptr \in BOOLEAN
    BY <1>19, InitialJob DEF SaveOut, ForgetPool
  <2>2. heap' \in [Jobs -> {"none", "live", "freed", "twice"}]
    BY <1>19 DEF SaveOut, PoolFree
  <2>3. pc' = [pc EXCEPT ![j] = "fini"] \/ pc' = [pc EXCEPT ![j] = "open"]
    BY <1>19 DEF SaveOut, Polled, Goto
  <2>q. QED
    BY <1>19, <2>1, <2>2, <2>3 DEF SaveOut, connVars
<1>20. ASSUME NEW j \in Jobs, FiniHook(j) PROVE TypeInv'
  <2>1. DOMAIN job' = Jobs /\ \A i \in Jobs : DOMAIN job'[i] = DOMAIN NoJob /\ job'[i].ptr \in BOOLEAN
    BY <1>20, InitialJob DEF FiniHook, Ended
  <2>2. heap' \in [Jobs -> {"none", "live", "freed", "twice"}]
    BY <1>20 DEF FiniHook, PoolFree
  <2>3. frees' \in [Jobs -> Nat] /\ pc' = [pc EXCEPT ![j] = "done"]
    BY <1>20 DEF FiniHook, Ended, Goto
  <2>q. QED
    BY <1>20, <2>1, <2>2, <2>3 DEF FiniHook
<1>21. ASSUME NEW c \in Clients, StatCommon(c) PROVE TypeInv'
  BY <1>21 DEF StatCommon, Call, taskVars, dbVars
<1>22. ASSUME NEW c \in Clients, StatWipe(c) PROVE TypeInv'
  BY <1>22 DEF StatWipe, Call, Goto, taskVars, connVars, dbVars
<1>23. ASSUME NEW c \in Clients, Query(c) PROVE TypeInv'
  BY <1>23 DEF Query, Call, MayQuery, QueryLock, Goto, taskVars, dbVars
<1>24. ASSUME NEW c \in Clients, QueryDone(c) PROVE TypeInv'
  <2>1. query' \in [owner : Clients \cup {None, Gone}, depth : Nat]
    BY <1>24, UnlockedQuery DEF QueryDone
  <2>q. QED
    BY <1>24, <2>1 DEF QueryDone, Goto, taskVars
<1>25. ASSUME NEW c \in Clients, Disconnect(c) PROVE TypeInv'
  BY <1>25 DEF Disconnect, taskVars, dbVars
<1>26. CASE UNCHANGED vars
  BY <1>26 DEF vars, taskVars, connVars, dbVars
<1>q. QED
  BY <1>1, <1>2, <1>3, <1>4, <1>5, <1>6, <1>7, <1>8, <1>9, <1>10, <1>11, <1>12, <1>13, <1>14, <1>15, <1>16, <1>17, <1>18, <1>19, <1>20, <1>21, <1>22, <1>23, <1>24, <1>25, <1>26 DEF Next, Wipe, Job, Client

\* Every step keeps the connections and the mutex of the shared one.
LEMMA ConnStep == IInv /\ [Next]_vars => (OwnInv /\ MutexInv)'
<1> SUFFICES ASSUME IInv, [Next]_vars PROVE (OwnInv /\ MutexInv)'
  OBVIOUS
<1> USE ThreadsAssumption DEF IInv, TypeInv, OwnInv, MutexInv, Users, Threads, JobPC, ClientPC, ConnOf
<1>1. ASSUME NEW x \in Threads, WipeBegin(x) PROVE (OwnInv /\ MutexInv)'
  BY <1>1 DEF WipeBegin, MayQuery, QueryLock, Goto, taskVars
<1>2. ASSUME NEW x \in Threads, WipeBeginFails(x) PROVE (OwnInv /\ MutexInv)'
  BY <1>2 DEF WipeBeginFails, MayQuery, QueryLock, Fault, WipeFailed, Ended, Goto, dbVars
<1>3. ASSUME NEW x \in Threads, WipeTable(x) PROVE (OwnInv /\ MutexInv)'
  BY <1>3 DEF WipeTable, Cleaned, Goto, taskVars, connVars
<1>4. ASSUME NEW x \in Threads, WipeWaits(x) PROVE (OwnInv /\ MutexInv)'
  BY <1>4 DEF WipeWaits, Goto, taskVars, connVars, dbVars
<1>5. ASSUME NEW x \in Threads, WipeResumes(x) PROVE (OwnInv /\ MutexInv)'
  BY <1>5 DEF WipeResumes, Cleaned, Goto, taskVars, connVars
<1>6. ASSUME NEW x \in Threads, WipeRollback(x) PROVE (OwnInv /\ MutexInv)'
  <2>1. /\ x \in own => query' = query
        /\ x \notin own => x \in Clients /\ Users = {x} /\ query'.depth = kept
    BY <1>6, UnlockedQuery DEF WipeRollback
  <2>2. pc[x] \in {"wipe", "wait"} /\ tx' = tx \ {ConnOf(x)} /\ UNCHANGED kept
    BY <1>6 DEF WipeRollback, DbEnd
  <2>3. /\ pc' = [pc EXCEPT ![x] = IF x \in Jobs THEN "dead" ELSE "idle"]
        /\ own' \cap Clients = own \cap Clients
        /\ \A j \in Jobs : j # x => (j \in own' <=> j \in own)
    BY <1>6, WipeFails DEF WipeRollback
  <2>4. OwnInv'
    BY <2>3
  <2>5. CASE x \in own
    <3>1. Users' = Users /\ \A c \in Users : (pc'[c] \in {"wipe", "wait"} <=> pc[c] \in {"wipe", "wait"})
      BY <2>3, <2>5
    <3>2. Shared \in tx' <=> Shared \in tx
      BY <2>2, <2>5
    <3>q. QED
      BY <2>1, <2>2, <2>4, <2>5, <3>1, <3>2
  <2>6. CASE x \notin own
    <3>1. Users' = {}
      BY <2>1, <2>3, <2>6
    <3>2. Shared \notin tx'
      BY <2>2, <2>6
    <3>q. QED
      BY <2>1, <2>2, <2>4, <2>6, <3>1, <3>2
  <2>q. QED
    BY <2>5, <2>6
<1>7. ASSUME NEW x \in Threads, WipeCommit(x) PROVE (OwnInv /\ MutexInv)'
  <2>1. /\ x \in own => query' = query
        /\ x \notin own => x \in Clients /\ Users = {x} /\ query'.depth = kept
    BY <1>7, UnlockedQuery DEF WipeCommit
  <2>2. pc[x] \in {"wipe", "wait"} /\ tx' = tx \ {ConnOf(x)} /\ UNCHANGED kept
    BY <1>7 DEF WipeCommit, DbEnd
  <2>3. /\ pc' = [pc EXCEPT ![x] = IF x \in Jobs THEN "open" ELSE "idle"]
        /\ own' = own
    BY <1>7 DEF WipeCommit, Goto
  <2>4. OwnInv'
    BY <2>2, <2>3
  <2>5. CASE x \in own
    <3>1. Users' = Users /\ \A c \in Users : (pc'[c] \in {"wipe", "wait"} <=> pc[c] \in {"wipe", "wait"})
      BY <2>3, <2>5
    <3>2. Shared \in tx' <=> Shared \in tx
      BY <2>2, <2>5
    <3>q. QED
      BY <2>1, <2>2, <2>4, <2>5, <3>1, <3>2
  <2>6. CASE x \notin own
    <3>1. Users' = {}
      BY <2>1, <2>3, <2>6
    <3>2. Shared \notin tx'
      BY <2>2, <2>6
    <3>q. QED
      BY <2>1, <2>2, <2>4, <2>6, <3>1, <3>2
  <2>q. QED
    BY <2>5, <2>6
<1>8. ASSUME NEW j \in Jobs, Create(j) PROVE (OwnInv /\ MutexInv)'
  BY <1>8 DEF Create, Goto, connVars, dbVars
<1>9. ASSUME NEW j \in Jobs, CreateFails(j) PROVE (OwnInv /\ MutexInv)'
  BY <1>9 DEF CreateFails, Goto, connVars, dbVars
<1>10. ASSUME NEW j \in Jobs, InitHook(j) PROVE (OwnInv /\ MutexInv)'
  BY <1>10 DEF InitHook, Goto, dbVars
<1>11. ASSUME NEW j \in Jobs, InitFails(j) PROVE (OwnInv /\ MutexInv)'
  BY <1>11 DEF InitFails, Ended, Goto, dbVars
<1>12. ASSUME NEW j \in Jobs, OpenNext(j) PROVE (OwnInv /\ MutexInv)'
  BY <1>12 DEF OpenNext, Polled, Goto, connVars, dbVars
<1>13. ASSUME NEW j \in Jobs, NoMoreFiles(j) PROVE (OwnInv /\ MutexInv)'
  BY <1>13 DEF NoMoreFiles, Goto, taskVars, connVars, dbVars
<1>14. ASSUME NEW j \in Jobs, ReadFlow(j) PROVE (OwnInv /\ MutexInv)'
  BY <1>14 DEF ReadFlow, Polled, Goto, connVars, dbVars
<1>15. ASSUME NEW j \in Jobs, SaveBegin(j) PROVE (OwnInv /\ MutexInv)'
  <2>1. pc[j] = "read" /\ pc' = [pc EXCEPT ![j] = pc'[j]] /\ pc'[j] \in {"record", "out"} /\ UNCHANGED <<own, query, kept>>
    BY <1>15 DEF SaveBegin, Goto, connVars
  <2>2. Shared \in tx' <=> Shared \in tx
    BY <1>15 DEF SaveBegin
  <2>q. QED
    BY <2>1, <2>2
<1>16. ASSUME NEW j \in Jobs, SaveRecord(j) PROVE (OwnInv /\ MutexInv)'
  BY <1>16 DEF SaveRecord, connVars
<1>17. ASSUME NEW j \in Jobs, SaveRollback(j) PROVE (OwnInv /\ MutexInv)'
  BY <1>17 DEF SaveRollback, DbEnd, Goto, connVars
<1>18. ASSUME NEW j \in Jobs, SaveCommit(j) PROVE (OwnInv /\ MutexInv)'
  BY <1>18 DEF SaveCommit, DbEnd, Goto, taskVars, connVars
<1>19. ASSUME NEW j \in Jobs, SaveOut(j) PROVE (OwnInv /\ MutexInv)'
  BY <1>19 DEF SaveOut, PoolFree, ForgetPool, Polled, Goto, connVars, dbVars
<1>20. ASSUME NEW j \in Jobs, FiniHook(j) PROVE (OwnInv /\ MutexInv)'
  BY <1>20 DEF FiniHook, PoolFree, Ended, Goto, dbVars
<1>21. ASSUME NEW c \in Clients, StatCommon(c) PROVE (OwnInv /\ MutexInv)'
  BY <1>21 DEF StatCommon, Call, taskVars, dbVars
<1>22. ASSUME NEW c \in Clients, StatWipe(c) PROVE (OwnInv /\ MutexInv)'
  BY <1>22 DEF StatWipe, Call, Goto, taskVars, connVars, dbVars
<1>23. ASSUME NEW c \in Clients, Query(c) PROVE (OwnInv /\ MutexInv)'
  BY <1>23 DEF Query, Call, MayQuery, QueryLock, Goto, taskVars, dbVars
<1>24. ASSUME NEW c \in Clients, QueryDone(c) PROVE (OwnInv /\ MutexInv)'
  <2>1. /\ c \in own => query' = query
        /\ c \notin own => Users = {c} /\ query'.depth = kept
    BY <1>24, UnlockedQuery DEF QueryDone
  <2>2. pc[c] = "query" /\ pc' = [pc EXCEPT ![c] = "idle"] /\ UNCHANGED <<own, kept, tx>>
    BY <1>24 DEF QueryDone, Goto, dbVars
  <2>3. CASE c \in own
    BY <2>1, <2>2, <2>3
  <2>4. CASE c \notin own
    <3>1. Users' = {} /\ Shared \notin tx
      BY <2>1, <2>2, <2>4
    <3>q. QED
      BY <2>1, <2>2, <2>4, <3>1
  <2>q. QED
    BY <2>3, <2>4
<1>25. ASSUME NEW c \in Clients, Disconnect(c) PROVE (OwnInv /\ MutexInv)'
  BY <1>25 DEF Disconnect, taskVars, dbVars
<1>26. CASE UNCHANGED vars
  BY <1>26 DEF vars, taskVars, connVars, dbVars
<1>q. QED
  BY <1>1, <1>2, <1>3, <1>4, <1>5, <1>6, <1>7, <1>8, <1>9, <1>10, <1>11, <1>12, <1>13, <1>14, <1>15, <1>16, <1>17, <1>18, <1>19, <1>20, <1>21, <1>22, <1>23, <1>24, <1>25, <1>26 DEF Next, Wipe, Job, Client

\* The invariant holds when the daemon starts ...
LEMMA IInvInit == Init => IInv
<1> SUFFICES ASSUME Init PROVE IInv
  OBVIOUS
<1> USE ThreadsAssumption DEF Init, Threads
<1>1. TypeInv
  BY InitialJob DEF TypeInv, JobPC, ClientPC
<1>2. PoolInv /\ FreedOnce
  BY InitialJob DEF PoolInv, FreedOnce
<1>3. OwnInv
  BY DEF OwnInv
<1>4. query = [owner |-> None, depth |-> 0] /\ kept = 0 /\ tx = {} /\ Users = {}
  BY DEF Users
<1> HIDE DEF Init
<1>5. MutexInv
  BY <1>4 DEF MutexInv
<1>q. QED
  BY <1>1, <1>2, <1>3, <1>5 DEF IInv

\* ... and always.
LEMMA IInvHolds == Spec => []IInv
<1>1. IInv /\ [Next]_vars => IInv'
  BY TypeStep, PoolStep, ConnStep DEF IInv
<1>q. QED
  BY IInvInit, <1>1, PTL DEF Spec

-----------------------------------------------------------------------------
\* A transaction on the shared connection is one client's alone, and query_mutex is
\* held only by who is inside, but for what failed BEGINs leave behind (make_call,
\* db_query_lock, db_query_unlock), however many clients and tasks there are.
THEOREM StatSharedConnection == Spec => []SharedConnection
<1>1. IInv => SharedConnection
  <2> SUFFICES ASSUME IInv PROVE SharedConnection
    OBVIOUS
  <2> USE DEF IInv, TypeInv
  <2>1. Users \subseteq {query.owner}
    BY DEF MutexInv
  <2>2. CASE Users = {}
    BY <2>2, FS_EmptySet DEF SharedConnection, MutexInv, Users
  <2>3. CASE Users # {}
    <3>1. Cardinality(Users) = 1
      <4>1. Users = {query.owner}
        BY <2>1, <2>3
      <4>q. QED
        BY <4>1, FS_Singleton
    <3>q. QED
      BY <2>3, <3>1 DEF SharedConnection, MutexInv, Users
  <2>q. QED
    BY <2>2, <2>3
<1>q. QED
  BY IInvHolds, <1>1, PTL

\* Every pool and the data of every task are freed once, with the two exceptions the
\* property names (mbb_stat_pool_save, base_task_free, feed_stat_free, feed_stat),
\* however many tasks, files and faults there are.
THEOREM StatFreedOnce == Spec => []FreedOnce
<1>1. IInv => FreedOnce
  BY DEF IInv
<1>q. QED
  BY IInvHolds, <1>1, PTL

-----------------------------------------------------------------------------
(* Sums over finite sets.                                                  *)

\* A set of natural numbers that is not empty has a least element.
LEMMA Least ==
  ASSUME NEW T, T \subseteq Nat, T # {}
  PROVE  \E n \in T : \A m \in T : n <= m
<1> DEFINE R == {ss \in Nat \X Nat : ss[1] < ss[2]}
<1>1. IsWellFoundedOn(R, Nat)
  BY NatLessThanWellFounded, Zenon DEF OpToRel
<1>2. \A i, j \in Nat : i < j => <<i, j>> \in R
  OBVIOUS
<1> HIDE DEF R
<1>3. PICK n \in T : \A m \in T : ~ (<<m, n>> \in R)
  BY <1>1, WFMin
<1>4. n \in Nat /\ \A m \in T : m \in Nat /\ ~ (m < n)
  BY <1>2, <1>3
<1>5. \A m \in T : n <= m
  BY <1>4
<1>q. QED
  BY <1>5

\* Of the finite sets that lack something, one is such that all with fewer elements have it:
\* Bad is the set of the sets that lack it.
LEMMA LeastSet ==
  ASSUME NEW Bad, Bad # {}, \A s \in Bad : IsFiniteSet(s)
  PROVE  \E s \in Bad : \A r \in Bad : Cardinality(s) <= Cardinality(r)
<1> DEFINE T == {n \in Nat : \E s \in Bad : Cardinality(s) = n}
<1>1. \A s \in Bad : Cardinality(s) \in Nat
  BY FS_CardinalityType
<1>2. T # {} /\ T \subseteq Nat
  BY <1>1
<1>3. PICK n \in T : \A m \in T : n <= m
  <2> HIDE DEF T
  <2>q. QED
    BY <1>2, Least
<1>4. PICK s \in Bad : Cardinality(s) = n
  BY <1>3
<1>5. \A r \in Bad : Cardinality(r) \in T
  BY <1>1
<1>q. QED
  BY <1>3, <1>4, <1>5

\* Some element, always the same of the same set.
Pick(s) == CHOOSE x \in s : TRUE

\* The element that is picked is one of the set.
LEMMA Picked == ASSUME NEW s, s # {} PROVE Pick(s) \in s
  BY DEF Pick

\* A finite set without one of its elements is finite and has one less.
LEMMA Smaller ==
  ASSUME NEW s, IsFiniteSet(s), NEW x \in s
  PROVE  /\ IsFiniteSet(s \ {x})
         /\ Cardinality(s \ {x}) \in Nat /\ Cardinality(s) \in Nat
         /\ Cardinality(s \ {x}) = Cardinality(s) - 1
         /\ ~ (Cardinality(s) <= Cardinality(s \ {x}))
<1>1. IsFiniteSet(s \ {x}) /\ Cardinality(s \ {x}) = Cardinality(s) - 1
  BY FS_RemoveElement
<1>2. Cardinality(s \ {x}) \in Nat /\ Cardinality(s) \in Nat
  BY <1>1, FS_CardinalityType
<1>q. QED
  BY <1>1, <1>2

\* iter is the sum of f over every set in D.
SumBy(f, D, iter) ==
  iter = [s \in D |-> IF s = {} THEN 0 ELSE f[Pick(s)] + iter[s \ {Pick(s)}]]

\* The same over all subsets of S.
Sums(f, S, iter) == SumBy(f, SUBSET S, iter)

\* The sum of f over S.
SumOf(f, S) == (CHOOSE iter : Sums(f, S, iter))[S]

\* A function that is a sum takes one element after the other.
LEMMA SumSteps ==
  ASSUME NEW f, NEW D, NEW iter, SumBy(f, D, iter)
  PROVE  /\ {} \in D => iter[{}] = 0
         /\ \A s \in D : s # {} => iter[s] = f[Pick(s)] + iter[s \ {Pick(s)}]
<1>1. \A s \in D : iter[s] = IF s = {} THEN 0 ELSE f[Pick(s)] + iter[s \ {Pick(s)}]
  BY ONLY SumBy(f, D, iter), Zenon DEF SumBy
<1>q. QED
  BY <1>1, Zenon

\* A finite set has a sum: there is a function that is one for all its subsets.
LEMMA SumExists ==
  ASSUME NEW f, NEW S, IsFiniteSet(S)
  PROVE  \E iter : Sums(f, S, iter)
<1> DEFINE D(n) == {s \in SUBSET S : Cardinality(s) <= n}
           T == {n \in Nat : ~ \E iter : SumBy(f, D(n), iter)}
<1>1. ASSUME NEW s \in SUBSET S
      PROVE  IsFiniteSet(s) /\ Cardinality(s) \in Nat /\ Cardinality(s) <= Cardinality(S)
  BY FS_Subset, FS_CardinalityType
<1>2. T = {}
  <2>1. SUFFICES ASSUME T # {} PROVE FALSE
    OBVIOUS
  <2>2. T \subseteq Nat
    OBVIOUS
  <2>3. PICK k \in T : \A m \in T : k <= m
    <3> HIDE DEF T
    <3>q. QED
      BY <2>1, <2>2, Least
  <2>4. k # 0
    <3>1. D(0) = {{}}
      BY <1>1, FS_EmptySet
    <3>2. SumBy(f, D(0), [s \in D(0) |-> 0])
      BY <3>1 DEF SumBy
    <3>q. QED
      BY <2>3, <3>2
  <2>5. PICK m \in Nat : k = m + 1
    BY <2>3, <2>4
  <2>6. PICK g : SumBy(f, D(m), g)
    <3>1. m \notin T
      <4>1. k \in Nat /\ ~ (k <= m)
        BY <2>3, <2>5
      <4> HIDE DEF T
      <4>q. QED
        BY <2>3, <4>1
    <3> HIDE DEF D
    <3>q. QED
      BY <3>1
  <2>7. /\ {} \in D(m) => g[{}] = 0
        /\ \A s \in D(m) : s # {} => g[s] = f[Pick(s)] + g[s \ {Pick(s)}]
    <3> HIDE DEF D
    <3>q. QED
      BY <2>6, SumSteps
  <2> DEFINE h == [s \in D(k) |-> IF s \in D(m) THEN g[s] ELSE f[Pick(s)] + g[s \ {Pick(s)}]]
  <2>8. {} \in D(m) /\ {} \in D(k)
    BY <2>5, <1>1, FS_EmptySet
  <2>9. ASSUME NEW s \in D(k), s # {}
        PROVE  s \ {Pick(s)} \in D(m) /\ s \ {Pick(s)} \in D(k)
    <3>1. IsFiniteSet(s) /\ Pick(s) \in s /\ Cardinality(s) <= m + 1
      BY <1>1, <2>5, <2>9, Picked
    <3>2. Cardinality(s \ {Pick(s)}) = Cardinality(s) - 1 /\ Cardinality(s) \in Nat
      BY <3>1, Smaller
    <3>q. QED
      BY <2>5, <3>1, <3>2
  <2>10. \A s \in D(k) : s # {} => h[s] = f[Pick(s)] + h[s \ {Pick(s)}]
    <3> HIDE DEF D
    <3>q. QED
      BY <2>7, <2>9
  <2>11. h[{}] = 0
    <3> HIDE DEF D
    <3>q. QED
      BY <2>7, <2>8
  <2>12. h = [s \in D(k) |-> h[s]]
    OBVIOUS
  <2>13. SumBy(f, D(k), h)
    <3> HIDE DEF h, D
    <3>q. QED
      BY <2>10, <2>11, <2>12 DEF SumBy
  <2>q. QED
    BY <2>3, <2>13
<1>3. Cardinality(S) \in Nat
  BY FS_CardinalityType
<1>4. D(Cardinality(S)) = SUBSET S
  BY <1>1
<1>5. Cardinality(S) \notin T
  BY <1>2
<1>q. QED
  BY <1>3, <1>4, <1>5 DEF Sums

\* What a sum is does not depend on the sets it is defined for.
LEMMA SumUnique ==
  ASSUME NEW f, NEW S, IsFiniteSet(S), NEW R \in SUBSET S,
         NEW i, Sums(f, S, i), NEW j, Sums(f, R, j)
  PROVE  i[R] = j[R]
<1> DEFINE Bad == {s \in SUBSET R : i[s] # j[s]}
<1>1. SUFFICES ASSUME Bad # {} PROVE FALSE
  OBVIOUS
<1>2. \A s \in SUBSET R : IsFiniteSet(s)
  BY FS_Subset
<1>3. PICK s \in Bad : \A r \in Bad : Cardinality(s) <= Cardinality(r)
  <2>1. \A s \in Bad : IsFiniteSet(s)
    BY <1>2
  <2> HIDE DEF Bad
  <2>q. QED
    BY <1>1, <2>1, LeastSet
<1>4. /\ {} \in SUBSET S => i[{}] = 0
      /\ \A r \in SUBSET S : r # {} => i[r] = f[Pick(r)] + i[r \ {Pick(r)}]
  BY SumSteps DEF Sums
<1>5. /\ {} \in SUBSET R => j[{}] = 0
      /\ \A r \in SUBSET R : r # {} => j[r] = f[Pick(r)] + j[r \ {Pick(r)}]
  BY SumSteps DEF Sums
<1>6. s # {}
  BY <1>3, <1>4, <1>5
<1>7. PICK r : r = s \ {Pick(s)}
  OBVIOUS
<1>8. r \in SUBSET R /\ ~ (Cardinality(s) <= Cardinality(r))
  BY <1>2, <1>3, <1>6, <1>7, Picked, Smaller
<1>9. i[r] = j[r]
  BY <1>3, <1>8
<1>q. QED
  BY <1>3, <1>4, <1>5, <1>6, <1>7, <1>9

\* The sum of a subset can be read off any function that is a sum.
LEMMA SumOfBy ==
  ASSUME NEW f, NEW S, IsFiniteSet(S), NEW R \in SUBSET S, NEW i, Sums(f, S, i)
  PROVE  SumOf(f, R) = i[R]
<1>1. IsFiniteSet(R)
  BY FS_Subset
<1>2. PICK j : j = CHOOSE iter : Sums(f, R, iter)
  OBVIOUS
<1>3. Sums(f, R, j)
  BY <1>1, <1>2, SumExists
<1>4. SumOf(f, R) = j[R]
  BY <1>2 DEF SumOf
<1>q. QED
  <2>1. i[R] = j[R]
    BY <1>3, SumUnique
  <2>q. QED
    BY <1>4, <2>1

\* The sum of nothing.
LEMMA SumEmpty == ASSUME NEW f PROVE SumOf(f, {}) = 0
<1>1. PICK i : Sums(f, {}, i)
  BY FS_EmptySet, SumExists
<1>2. SumOf(f, {}) = i[{}]
  <2>1. {} \in SUBSET {}
    OBVIOUS
  <2>q. QED
    BY <1>1, <2>1, FS_EmptySet, SumOfBy
<1>3. i[{}] = 0
  BY <1>1, SumSteps DEF Sums
<1>q. QED
  BY <1>2, <1>3

\* The sum of a set is what the element that is picked has, and the sum of the rest.
LEMMA SumPick ==
  ASSUME NEW f, NEW S, IsFiniteSet(S), S # {}
  PROVE  SumOf(f, S) = f[Pick(S)] + SumOf(f, S \ {Pick(S)})
<1>1. PICK i : Sums(f, S, i)
  BY SumExists
<1>2. SumOf(f, S) = i[S] /\ SumOf(f, S \ {Pick(S)}) = i[S \ {Pick(S)}]
  BY <1>1, SumOfBy
<1>3. i[S] = f[Pick(S)] + i[S \ {Pick(S)}]
  <2>1. S \in SUBSET S
    OBVIOUS
  <2>q. QED
    <3>1. \A s \in SUBSET S : s # {} => i[s] = f[Pick(s)] + i[s \ {Pick(s)}]
      BY <1>1, SumSteps DEF Sums
    <3>q. QED
      BY <2>1, <3>1, Zenon
<1>q. QED
  BY <1>2, <1>3

\* Sums of integers are integers.
LEMMA SumType ==
  ASSUME NEW f, NEW S, IsFiniteSet(S), \A x \in S : f[x] \in Int
  PROVE  SumOf(f, S) \in Int
<1> DEFINE Bad == {s \in SUBSET S : SumOf(f, s) \notin Int}
<1>1. SUFFICES ASSUME Bad # {} PROVE FALSE
  OBVIOUS
<1>2. \A s \in SUBSET S : IsFiniteSet(s)
  BY FS_Subset
<1>3. PICK s \in Bad : \A r \in Bad : Cardinality(s) <= Cardinality(r)
  <2>1. \A s \in Bad : IsFiniteSet(s)
    BY <1>2
  <2> HIDE DEF Bad
  <2>q. QED
    BY <1>1, <2>1, LeastSet
<1>4. s # {}
  BY <1>3, SumEmpty
<1>5. PICK r : r = s \ {Pick(s)}
  OBVIOUS
<1>6. r \in SUBSET S /\ ~ (Cardinality(s) <= Cardinality(r)) /\ Pick(s) \in S
  BY <1>2, <1>3, <1>4, <1>5, Picked, Smaller
<1>7. SumOf(f, r) \in Int
  BY <1>3, <1>6
<1>8. SumOf(f, s) = f[Pick(s)] + SumOf(f, r)
  BY <1>2, <1>3, <1>4, <1>5, SumPick
<1>q. QED
  BY <1>3, <1>6, <1>7, <1>8

\* The order does not matter.
LEMMA SumAny ==
  ASSUME NEW f, NEW S, IsFiniteSet(S), \A x \in S : f[x] \in Int
  PROVE  \A x \in S : SumOf(f, S) = f[x] + SumOf(f, S \ {x})
<1> DEFINE Bad == {s \in SUBSET S : \E x \in s : SumOf(f, s) # f[x] + SumOf(f, s \ {x})}
<1>1. SUFFICES ASSUME Bad # {} PROVE FALSE
  OBVIOUS
<1>2. \A s \in SUBSET S : IsFiniteSet(s)
  BY FS_Subset
<1>3. PICK s \in Bad : \A r \in Bad : Cardinality(s) <= Cardinality(r)
  <2>1. \A s \in Bad : IsFiniteSet(s)
    BY <1>2
  <2> HIDE DEF Bad
  <2>q. QED
    BY <1>1, <2>1, LeastSet
<1>4. PICK x \in s : SumOf(f, s) # f[x] + SumOf(f, s \ {x})
  BY <1>3
<1>5. PICK y : y = Pick(s) /\ y \in s
  BY <1>4, Picked
<1>6. SumOf(f, s) = f[y] + SumOf(f, s \ {y})
  BY <1>2, <1>3, <1>5, SumPick
<1>7. x # y
  BY <1>4, <1>6
<1>8. PICK a : a = s \ {x}
  OBVIOUS
<1>9. PICK b : b = s \ {y}
  OBVIOUS
<1>10. PICK c : c = a \ {y} /\ c = b \ {x}
  BY <1>8, <1>9
<1>11. IsFiniteSet(s) /\ ~ (Cardinality(s) <= Cardinality(a)) /\ ~ (Cardinality(s) <= Cardinality(b))
  BY <1>2, <1>3, <1>5, <1>8, <1>9, Smaller
<1>12. a \in SUBSET S /\ b \in SUBSET S /\ c \in SUBSET S /\ a \notin Bad /\ b \notin Bad
  BY <1>3, <1>8, <1>9, <1>10, <1>11
<1>13. y \in a /\ x \in b
  BY <1>5, <1>7, <1>8, <1>9
<1>14. SumOf(f, a) = f[y] + SumOf(f, c)
  BY <1>10, <1>12, <1>13
<1>15. SumOf(f, b) = f[x] + SumOf(f, c)
  BY <1>10, <1>12, <1>13
<1>16. f[x] \in Int /\ f[y] \in Int /\ SumOf(f, c) \in Int
  BY <1>2, <1>3, <1>5, <1>12, SumType
<1>q. QED
  BY <1>4, <1>6, <1>8, <1>9, <1>14, <1>15, <1>16

\* On S, h is v on A and w on B together.
Adds(S, h, A, v, B, w) ==
  /\ \A x \in S \cap A : v[x] \in Int
  /\ \A x \in S \cap B : w[x] \in Int
  /\ \A x \in S : h[x] = (IF x \in A THEN v[x] ELSE 0) + (IF x \in B THEN w[x] ELSE 0)

\* The sum of a sum of two, where what is missing of the two counts nothing.
LEMMA SumAdd ==
  ASSUME NEW S, IsFiniteSet(S), NEW A, NEW B, NEW h, NEW v, NEW w, Adds(S, h, A, v, B, w)
  PROVE  SumOf(h, S) = SumOf(v, S \cap A) + SumOf(w, S \cap B)
<1> DEFINE Bad == {s \in SUBSET S : SumOf(h, s) # SumOf(v, s \cap A) + SumOf(w, s \cap B)}
<1>1. SUFFICES ASSUME Bad # {} PROVE FALSE
  OBVIOUS
<1>2. \A s \in SUBSET S : IsFiniteSet(s)
  BY FS_Subset
<1>3. PICK s \in Bad : \A r \in Bad : Cardinality(s) <= Cardinality(r)
  <2>1. \A s \in Bad : IsFiniteSet(s)
    BY <1>2
  <2> HIDE DEF Bad
  <2>q. QED
    BY <1>1, <2>1, LeastSet
<1>4. s # {}
  <2>1. {} \cap A = {} /\ {} \cap B = {}
    OBVIOUS
  <2>q. QED
    BY <1>3, <2>1, SumEmpty
<1>5. PICK x : x = Pick(s) /\ x \in s
  BY <1>4, Picked
<1>6. PICK r : r = s \ {x}
  OBVIOUS
<1>7. r \in SUBSET S /\ ~ (Cardinality(s) <= Cardinality(r)) /\ x \in S
  BY <1>2, <1>3, <1>5, <1>6, Smaller
<1>8. SumOf(h, r) = SumOf(v, r \cap A) + SumOf(w, r \cap B)
  BY <1>3, <1>7
<1>9. SumOf(h, s) = h[x] + SumOf(h, r)
  BY <1>2, <1>3, <1>4, <1>5, <1>6, SumPick
<1>10. ASSUME NEW C, NEW u, \A z \in S \cap C : u[z] \in Int
       PROVE  /\ SumOf(u, s \cap C) = (IF x \in C THEN u[x] ELSE 0) + SumOf(u, r \cap C)
              /\ SumOf(u, r \cap C) \in Int
              /\ (IF x \in C THEN u[x] ELSE 0) \in Int
  <2>1. IsFiniteSet(s \cap C) /\ IsFiniteSet(r \cap C)
    BY <1>2, <1>3, <1>7
  <2>2. SumOf(u, r \cap C) \in Int
    BY <1>7, <1>10, <2>1, SumType
  <2>3. CASE x \in C
    <3>1. x \in s \cap C /\ r \cap C = (s \cap C) \ {x} /\ \A z \in s \cap C : u[z] \in Int
      BY <1>3, <1>5, <1>6, <1>10, <2>3
    <3>2. SumOf(u, s \cap C) = u[x] + SumOf(u, (s \cap C) \ {x})
      BY <2>1, <3>1, SumAny
    <3>q. QED
      BY <2>2, <2>3, <3>1, <3>2
  <2>4. CASE x \notin C
    <3>1. r \cap C = s \cap C
      BY <1>6, <2>4
    <3>2. SumOf(u, s \cap C) = 0 + SumOf(u, r \cap C)
      <4>1. PICK z \in Int : z = SumOf(u, r \cap C)
        BY <2>2
      <4>q. QED
        BY <3>1, <4>1
    <3>q. QED
      BY <2>2, <2>4, <3>2
  <2>q. QED
    BY <2>3, <2>4
<1>a. /\ \A z \in S \cap A : v[z] \in Int
      /\ \A z \in S \cap B : w[z] \in Int
      /\ h[x] = (IF x \in A THEN v[x] ELSE 0) + (IF x \in B THEN w[x] ELSE 0)
  BY <1>7 DEF Adds
<1>11. /\ SumOf(v, s \cap A) = (IF x \in A THEN v[x] ELSE 0) + SumOf(v, r \cap A)
       /\ SumOf(v, r \cap A) \in Int /\ (IF x \in A THEN v[x] ELSE 0) \in Int
  BY <1>10, <1>a
<1>12. /\ SumOf(w, s \cap B) = (IF x \in B THEN w[x] ELSE 0) + SumOf(w, r \cap B)
       /\ SumOf(w, r \cap B) \in Int /\ (IF x \in B THEN w[x] ELSE 0) \in Int
  BY <1>10, <1>a
<1>14. SumOf(h, s) = SumOf(v, s \cap A) + SumOf(w, s \cap B)
  BY <1>8, <1>9, <1>11, <1>12, <1>a
<1>q. QED
  BY <1>3, <1>14

-----------------------------------------------------------------------------
(* Tables that agree: what a row of a unit, or of a link, sums up.         *)

\* The columns of the tables.
Fields == {"in", "out"}

\* The keys of the three tables.
KeyOk(k) ==
  /\ k = [table |-> k.table, point |-> k.point, unit |-> k.unit, link |-> k.link]
  /\ k.table \in {"unit_stat", "link_stat", "unit_link_stat"}
  /\ k.table = "unit_stat" => k.link = None
  /\ k.table = "link_stat" => k.unit = None

\* A finite table, or pool, of octets.
RowsOk(f) ==
  /\ IsFiniteSet(DOMAIN f)
  /\ \A k \in DOMAIN f : KeyOk(k) /\ f[k] \in [in : Int, out : Int]

\* The row k of a unit, or of a link, counts what the row i of both counts.
Covers(k, i) ==
  /\ i.table = "unit_link_stat" /\ i.point = k.point
  /\ \/ k.table = "unit_stat" /\ i.unit = k.unit
     \/ k.table = "link_stat" /\ i.link = k.link

\* The rows of both that k sums up.
Parts(f, k) == {i \in DOMAIN f : Covers(k, i)}

\* One field of all rows.
Column(f, c) == [k \in DOMAIN f |-> f[k][c]]

\* Nothing of a unit and a link without the unit, and the link; and the sums are right.
AgreeAt(f, p) ==
  /\ \A i \in DOMAIN f : i.table = "unit_link_stat" /\ i.point = p =>
       /\ \E k \in DOMAIN f : k.table = "unit_stat" /\ Covers(k, i)
       /\ \E k \in DOMAIN f : k.table = "link_stat" /\ Covers(k, i)
  /\ \A k \in DOMAIN f : k.table # "unit_link_stat" /\ k.point = p =>
       \A c \in Fields : f[k][c] = SumOf(Column(f, c), Parts(f, k))

\* Rows that agree at every hour.
Good(f) == RowsOk(f) /\ \A p : AgreeAt(f, p)

\* h is what f and g count together.
Together(h, f, g) ==
  /\ DOMAIN h = DOMAIN f \cup DOMAIN g
  /\ \A k \in DOMAIN h : h[k] = Plus(Row(f, k), Row(g, k))

\* There is one row of a unit that covers a row of both, and one of a link.
LEMMA OneCover ==
  ASSUME NEW k, NEW m, NEW i, KeyOk(k), KeyOk(m), Covers(k, i), Covers(m, i), k.table = m.table
  PROVE  k = m
  BY DEF KeyOk, Covers

\* Two lots of rows together are rows, and add up in each field.
LEMMA TogetherFields ==
  ASSUME NEW f, NEW g, NEW h, RowsOk(f), RowsOk(g), Together(h, f, g)
  PROVE  /\ RowsOk(h)
         /\ \A c \in Fields : \A k \in DOMAIN h :
              h[k][c] = (IF k \in DOMAIN f THEN f[k][c] ELSE 0) + (IF k \in DOMAIN g THEN g[k][c] ELSE 0)
         /\ \A c \in Fields : /\ \A k \in DOMAIN f : f[k][c] \in Int
                              /\ \A k \in DOMAIN g : g[k][c] \in Int
<1>1. IsFiniteSet(DOMAIN h)
  <2>1. IsFiniteSet(DOMAIN f) /\ IsFiniteSet(DOMAIN g) /\ DOMAIN h = DOMAIN f \cup DOMAIN g
    BY DEF RowsOk, Together
  <2>2. IsFiniteSet(DOMAIN f \cup DOMAIN g)
    BY ONLY <2>1, FS_Union
  <2>q. QED
    BY <2>1, <2>2
<1>2. ASSUME NEW k \in DOMAIN h
      PROVE  /\ KeyOk(k) /\ h[k] \in [in : Int, out : Int]
             /\ \A c \in Fields : h[k][c] = (IF k \in DOMAIN f THEN f[k][c] ELSE 0)
                                            + (IF k \in DOMAIN g THEN g[k][c] ELSE 0)
  <2>1. h[k] = Plus(Row(f, k), Row(g, k)) /\ (k \in DOMAIN f \/ k \in DOMAIN g)
    BY DEF Together
  <2>2. KeyOk(k)
    BY <2>1 DEF RowsOk
  <2>3. Row(f, k) \in [in : Int, out : Int] /\ Row(g, k) \in [in : Int, out : Int]
    BY DEF RowsOk, Row, Zero
  <2>4. h[k] \in [in : Int, out : Int]
    BY <2>1, <2>3 DEF Plus
  <2>5. h[k].in = Row(f, k).in + Row(g, k).in /\ h[k].out = Row(f, k).out + Row(g, k).out
    BY <2>1 DEF Plus
  <2>q. QED
    BY <2>2, <2>4, <2>5 DEF Row, Zero, Fields
<1>3. RowsOk(h)
  BY <1>1, <1>2 DEF RowsOk
<1>q. QED
  BY <1>2, <1>3 DEF RowsOk, Fields

\* If two lots of rows agree at an hour, so do they together.
LEMMA TogetherAgree ==
  ASSUME NEW f, NEW g, NEW h, NEW p, RowsOk(f), RowsOk(g), Together(h, f, g),
         AgreeAt(f, p), AgreeAt(g, p)
  PROVE  AgreeAt(h, p)
<1>1. DOMAIN h = DOMAIN f \cup DOMAIN g /\ RowsOk(h)
  BY TogetherFields DEF Together
<1>2. \A i \in DOMAIN h : i.table = "unit_link_stat" /\ i.point = p =>
        /\ \E k \in DOMAIN h : k.table = "unit_stat" /\ Covers(k, i)
        /\ \E k \in DOMAIN h : k.table = "link_stat" /\ Covers(k, i)
  BY <1>1 DEF AgreeAt
<1>3. ASSUME NEW k \in DOMAIN h, k.table # "unit_link_stat", k.point = p, NEW c \in Fields
      PROVE  h[k][c] = SumOf(Column(h, c), Parts(h, k))
  <2>1. PICK S : S = Parts(h, k)
    OBVIOUS
  <2>2. IsFiniteSet(S) /\ S \subseteq DOMAIN h
    BY <1>1, <2>1, FS_Subset DEF Parts, RowsOk
  <2>3. S \cap DOMAIN f = Parts(f, k) /\ S \cap DOMAIN g = Parts(g, k)
    BY <1>1, <2>1 DEF Parts
  <2>4. PICK v : v = Column(f, c)
    OBVIOUS
  <2>5. PICK w : w = Column(g, c)
    OBVIOUS
  <2>6. PICK u : u = Column(h, c)
    OBVIOUS
  <2>7. Adds(S, u, DOMAIN f, v, DOMAIN g, w)
    BY <2>2, <2>4, <2>5, <2>6, TogetherFields DEF Column, Adds
  <2>8. SumOf(u, S) = SumOf(v, S \cap DOMAIN f) + SumOf(w, S \cap DOMAIN g)
    BY ONLY <2>2, <2>7, SumAdd
  <2>9. ASSUME NEW e, RowsOk(e), AgreeAt(e, p), NEW x, x = Column(e, c)
        PROVE  SumOf(x, Parts(e, k)) = IF k \in DOMAIN e THEN e[k][c] ELSE 0
    <3>1. CASE k \in DOMAIN e
      BY <1>3, <2>9, <3>1 DEF AgreeAt
    <3>2. CASE k \notin DOMAIN e
      <4>1. SUFFICES ASSUME NEW i \in Parts(e, k) PROVE FALSE
        <5>1. Parts(e, k) = {} => SumOf(x, Parts(e, k)) = 0
          BY SumEmpty
        <5>q. QED
          BY <3>2, <5>1
      <4>2. i \in DOMAIN e /\ Covers(k, i) /\ KeyOk(k) /\ i.table = "unit_link_stat" /\ i.point = p
        BY <1>1, <1>3, <4>1 DEF Parts, Covers, RowsOk
      <4>3. k.table \in {"unit_stat", "link_stat"}
        BY <4>2 DEF Covers
      <4>4. PICK m \in DOMAIN e : m.table = k.table /\ Covers(m, i)
        BY <2>9, <4>2, <4>3 DEF AgreeAt
      <4>5. KeyOk(m)
        BY <2>9, <4>4 DEF RowsOk
      <4>6. k = m
        BY ONLY <4>2, <4>4, <4>5, OneCover
      <4>q. QED
        BY <3>2, <4>4, <4>6
    <3>q. QED
      BY <3>1, <3>2
  <2>10. SumOf(v, Parts(f, k)) = IF k \in DOMAIN f THEN f[k][c] ELSE 0
    BY <2>4, <2>9
  <2>11. SumOf(w, Parts(g, k)) = IF k \in DOMAIN g THEN g[k][c] ELSE 0
    BY <2>5, <2>9
  <2>12. h[k][c] = (IF k \in DOMAIN f THEN f[k][c] ELSE 0) + (IF k \in DOMAIN g THEN g[k][c] ELSE 0)
    BY TogetherFields
  <2>q. QED
    BY <2>1, <2>3, <2>6, <2>8, <2>10, <2>11, <2>12
<1>q. QED
  BY <1>2, <1>3 DEF AgreeAt

\* Rows set to zero: whole groups of them, at the hour p.
LEMMA ZeroAgree ==
  ASSUME NEW f, NEW h, NEW W, NEW p, RowsOk(f), AgreeAt(f, p),
         DOMAIN h = DOMAIN f,
         \A k \in DOMAIN f : h[k] = IF k \in W THEN Zero ELSE f[k],
         \A k, i \in DOMAIN f : k.point = p /\ Covers(k, i) => (i \in W <=> k \in W)
  PROVE  RowsOk(h) /\ AgreeAt(h, p)
<1>1. RowsOk(h)
  BY DEF RowsOk, Zero
<1>2. \A i \in DOMAIN h : i.table = "unit_link_stat" /\ i.point = p =>
        /\ \E k \in DOMAIN h : k.table = "unit_stat" /\ Covers(k, i)
        /\ \E k \in DOMAIN h : k.table = "link_stat" /\ Covers(k, i)
  BY DEF AgreeAt
<1>3. ASSUME NEW k \in DOMAIN h, k.table # "unit_link_stat", k.point = p, NEW c \in Fields
      PROVE  h[k][c] = SumOf(Column(h, c), Parts(h, k))
  <2>1. PICK S : S = Parts(f, k)
    OBVIOUS
  <2>2. IsFiniteSet(S) /\ S \subseteq DOMAIN f /\ S = Parts(h, k)
    BY <2>1, FS_Subset DEF Parts, RowsOk
  <2>3. PICK v : v = Column(f, c)
    OBVIOUS
  <2>4. PICK u : u = Column(h, c)
    OBVIOUS
  <2>5. \A x \in DOMAIN f : v[x] = f[x][c] /\ u[x] = h[x][c] /\ v[x] \in Int
    BY <2>3, <2>4 DEF Column, RowsOk, Fields
  <2>6. f[k][c] = SumOf(v, S) /\ f[k][c] \in Int
    BY <1>3, <2>1, <2>3, <2>5 DEF AgreeAt
  <2>7. \A i \in S : i \in W <=> k \in W
    BY <1>3, <2>1 DEF Parts
  <2>8. CASE k \in W
    <3>1. \A x \in S : u[x] = 0
      BY <2>2, <2>5, <2>7, <2>8 DEF Zero, Fields
    <3>2. Adds(S, u, {}, v, {}, v)
      BY <3>1 DEF Adds
    <3>3. SumOf(u, S) = SumOf(v, S \cap {}) + SumOf(v, S \cap {}) /\ S \cap {} = {}
      BY ONLY <2>2, <3>2, SumAdd
    <3>4. SumOf(u, S) = 0
      BY <3>3, SumEmpty
    <3>5. h[k][c] = 0
      BY <2>8 DEF Zero, Fields
    <3>q. QED
      BY <2>2, <2>4, <3>4, <3>5
  <2>9. CASE k \notin W
    <3>1. \A x \in S : u[x] = v[x]
      BY <2>2, <2>5, <2>7, <2>9
    <3>2. Adds(S, u, S, v, {}, v)
      BY <2>2, <2>5, <3>1 DEF Adds
    <3>3. SumOf(u, S) = SumOf(v, S \cap S) + SumOf(v, S \cap {}) /\ S \cap {} = {} /\ S \cap S = S
      BY ONLY <2>2, <3>2, SumAdd
    <3>4. SumOf(u, S) = SumOf(v, S)
      <4>1. PICK q \in Int : q = SumOf(v, S)
        BY <2>6
      <4>2. SumOf(u, S) = q + 0
        BY <3>3, <4>1, SumEmpty
      <4>q. QED
        BY <4>1, <4>2
    <3>5. h[k][c] = f[k][c]
      BY <2>9
    <3>q. QED
      BY <2>2, <2>4, <2>6, <3>4, <3>5
  <2>q. QED
    BY <2>8, <2>9
<1>q. QED
  BY <1>1, <1>2, <1>3 DEF AgreeAt

-----------------------------------------------------------------------------
\* The octets of an entry.
Data(entry) == [in |-> entry.in, out |-> entry.out]

\* What one entry counts.
Single(entry) ==
  [k \in {Key("unit_stat", entry), Key("link_stat", entry), Key("unit_link_stat", entry)} |-> Data(entry)]

\* They are numbers.
EntryOk(entry) == entry.in \in Int /\ entry.out \in Int

\* The keys of an entry, mbb_stat_feed.
LEMMA KeyFields ==
  ASSUME NEW t \in {"unit_stat", "link_stat", "unit_link_stat"}, NEW entry
  PROVE  /\ KeyOk(Key(t, entry)) /\ Key(t, entry).table = t
         /\ Key(t, entry).point = ExtractHour(entry.point)
         /\ t # "link_stat" => Key(t, entry).unit = entry.unit
         /\ t # "unit_stat" => Key(t, entry).link = entry.link
  BY DEF Key, KeyOk

\* The three records of one entry agree.
LEMMA SingleGood ==
  ASSUME NEW entry, EntryOk(entry)
  PROVE  Good(Single(entry))
<1>1. PICK a : a = Key("unit_stat", entry)
  OBVIOUS
<1>2. PICK b : b = Key("link_stat", entry)
  OBVIOUS
<1>3. PICK d : d = Key("unit_link_stat", entry)
  OBVIOUS
<1>4. PICK g : g = Single(entry)
  OBVIOUS
<1>5. DOMAIN g = {a, b, d} /\ \A k \in {a, b, d} : g[k] = Data(entry)
  BY <1>1, <1>2, <1>3, <1>4 DEF Single
<1>6. /\ KeyOk(a) /\ a.table = "unit_stat" /\ KeyOk(b) /\ b.table = "link_stat"
      /\ KeyOk(d) /\ d.table = "unit_link_stat"
      /\ a.point = d.point /\ b.point = d.point /\ a.unit = d.unit /\ b.link = d.link
  BY <1>1, <1>2, <1>3, KeyFields
<1>7. Data(entry) \in [in : Int, out : Int]
  BY DEF EntryOk, Data
<1>8. IsFiniteSet({a, b, d})
  <2>1. IsFiniteSet({a} \cup {b}) /\ IsFiniteSet({d})
    BY FS_Singleton, FS_Union
  <2>2. IsFiniteSet(({a} \cup {b}) \cup {d})
    BY <2>1, FS_Union
  <2>3. ({a} \cup {b}) \cup {d} = {a, b, d}
    OBVIOUS
  <2>q. QED
    BY <2>2, <2>3
<1>9. RowsOk(g)
  BY <1>5, <1>6, <1>7, <1>8 DEF RowsOk
<1>10. Covers(a, d) /\ Covers(b, d)
  BY <1>6 DEF Covers
<1>11. ASSUME NEW p PROVE AgreeAt(g, p)
  <2>1. \A i \in DOMAIN g : i.table = "unit_link_stat" => i = d
    BY <1>5, <1>6
  <2>2. ASSUME NEW k \in DOMAIN g, k.table # "unit_link_stat", NEW c \in Fields
        PROVE  g[k][c] = SumOf(Column(g, c), Parts(g, k))
    <3>1. Parts(g, k) = {d}
      BY <1>5, <1>6, <1>10, <2>1, <2>2 DEF Parts, Covers
    <3>2. PICK v : v = Column(g, c)
      OBVIOUS
    <3>3. v[d] = g[d][c] /\ g[d][c] = g[k][c] /\ v[d] \in Int
      BY <1>5, <1>7, <3>2 DEF Column, Fields
    <3>4. SumOf(v, {d}) = v[d] + SumOf(v, {d} \ {d})
      <4>1. IsFiniteSet({d}) /\ (\A x \in {d} : v[x] \in Int) /\ d \in {d}
        BY <3>3, FS_Singleton
      <4>q. QED
        BY ONLY <4>1, SumAny
    <3>5. {d} \ {d} = {}
      OBVIOUS
    <3>q. QED
      BY <3>1, <3>2, <3>3, <3>4, <3>5, SumEmpty
  <2>q. QED
    BY <1>5, <1>6, <1>10, <2>1, <2>2 DEF AgreeAt
<1>q. QED
  BY <1>4, <1>9, <1>11 DEF Good

\* Zero is neutral.
LEMMA PlusZero == ASSUME NEW a \in [in : Int, out : Int] PROVE Plus(a, Zero) = a
  BY DEF Plus, Zero

\* mbb_stat_feed adds one entry.
LEMMA FeedTogether ==
  ASSUME NEW f, RowsOk(f), NEW entry, EntryOk(entry)
  PROVE  Together(StatFeed(f, entry), f, Single(entry))
<1>1. PICK a : a = Key("unit_stat", entry)
  OBVIOUS
<1>2. PICK b : b = Key("link_stat", entry)
  OBVIOUS
<1>3. PICK d : d = Key("unit_link_stat", entry)
  OBVIOUS
<1>4. a # b /\ a # d /\ b # d
  BY <1>1, <1>2, <1>3, KeyFields
<1>5. PICK z : z = Data(entry)
  OBVIOUS
<1>6. PICK f1 : f1 = RecUpdate(f, a, z)
  OBVIOUS
<1>7. PICK f2 : f2 = RecUpdate(f1, b, z)
  OBVIOUS
<1>8. PICK f3 : f3 = RecUpdate(f2, d, z)
  OBVIOUS
<1>9. StatFeed(f, entry) = f3
  BY <1>1, <1>2, <1>3, <1>5, <1>6, <1>7, <1>8 DEF StatFeed, Tables, Data
<1>10. DOMAIN f1 = DOMAIN f \cup {a} /\ Row(f1, a) = Plus(Row(f, a), z) /\ \A i : i # a => Row(f1, i) = Row(f, i)
  BY <1>6 DEF RecUpdate, Row
<1>11. DOMAIN f2 = DOMAIN f1 \cup {b} /\ Row(f2, b) = Plus(Row(f1, b), z) /\ \A i : i # b => Row(f2, i) = Row(f1, i)
  BY <1>7 DEF RecUpdate, Row
<1>12. DOMAIN f3 = DOMAIN f2 \cup {d} /\ Row(f3, d) = Plus(Row(f2, d), z) /\ \A i : i # d => Row(f3, i) = Row(f2, i)
  BY <1>8 DEF RecUpdate, Row
<1>13. PICK g : g = Single(entry)
  OBVIOUS
<1>14. DOMAIN g = {a, b, d} /\ \A k : Row(g, k) = IF k \in {a, b, d} THEN z ELSE Zero
  BY <1>1, <1>2, <1>3, <1>5, <1>13 DEF Single, Row
<1>15. DOMAIN f3 = DOMAIN f \cup DOMAIN g
  BY <1>10, <1>11, <1>12, <1>14
<1>16. ASSUME NEW k \in DOMAIN f3 PROVE Row(f3, k) = Plus(Row(f, k), Row(g, k))
  <2>1. CASE k \in {a, b, d}
    BY <1>4, <1>10, <1>11, <1>12, <1>14, <2>1
  <2>2. CASE k \notin {a, b, d}
    <3>1. Row(f3, k) = Row(f, k) /\ Row(g, k) = Zero
      BY <1>10, <1>11, <1>12, <1>14, <2>2
    <3>2. Row(f, k) \in [in : Int, out : Int]
      BY DEF RowsOk, Row, Zero
    <3>q. QED
      BY <3>1, <3>2, PlusZero
  <2>q. QED
    BY <2>1, <2>2
<1>17. \A k \in DOMAIN f3 : f3[k] = Row(f3, k)
  BY DEF Row
<1>18. Together(f3, f, g)
  BY <1>15, <1>16, <1>17 DEF Together
<1>q. QED
  BY <1>9, <1>13, <1>18

\* Rows that agree at every hour do so together.
LEMMA TogetherGood ==
  ASSUME NEW f, NEW g, NEW h, Good(f), Good(g), Together(h, f, g)
  PROVE  Good(h)
  BY TogetherFields, TogetherAgree DEF Good

\* mbb_stat_feed leaves a pool that agrees.
LEMMA FeedGood ==
  ASSUME NEW f, Good(f), NEW entry, EntryOk(entry)
  PROVE  Good(StatFeed(f, entry))
<1>1. RowsOk(f) /\ Good(Single(entry))
  BY SingleGood DEF Good
<1>2. Together(StatFeed(f, entry), f, Single(entry))
  BY ONLY <1>1, EntryOk(entry), FeedTogether
<1>q. QED
  BY ONLY <1>1, <1>2, Good(f), TogetherGood

\* So does the empty pool, which is where each begins.
LEMMA EmptyGood == Good(<<>>) /\ DOMAIN <<>> = {}
<1>1. DOMAIN <<>> = {}
  OBVIOUS
<1>q. QED
  BY <1>1, FS_EmptySet DEF Good, RowsOk, AgreeAt

\* process_flow_data leaves a pool that agrees, whatever the flow counts for.
LEMMA ProcessGood ==
  ASSUME NEW f, Good(f), NEW x, x.nbytes \in Nat
  PROVE  Good(ProcessFlow(f, x))
<1> DEFINE Entry(u, l, in, out) == [point |-> x.begin, unit |-> u, link |-> l, in |-> in, out |-> out]
<1>1. PICK s : s = IF x.una # None /\ x.unb \notin Local /\ x.output # None
                   THEN StatFeed(f, Entry(x.una, x.output, 0, x.nbytes)) ELSE f
  OBVIOUS
<1>2. EntryOk(Entry(x.una, x.output, 0, x.nbytes)) /\ EntryOk(Entry(x.unb, x.input, x.nbytes, 0))
  BY DEF EntryOk
<1>3. ProcessFlow(f, x) = IF x.unb # None /\ x.una \notin Local /\ x.input # None
       THEN StatFeed(s, Entry(x.unb, x.input, x.nbytes, 0)) ELSE s
  BY <1>1 DEF ProcessFlow
<1> HIDE DEF Entry
<1>4. Good(s)
  BY <1>1, <1>2, FeedGood
<1>q. QED
  BY <1>2, <1>3, <1>4, FeedGood

-----------------------------------------------------------------------------
(* What files count for.                                                   *)

\* c[i] is what is counted after i flows, f before them.
FlowsBy(f, flows, period, n, c) ==
  c = [i \in 0 .. n |-> IF i = 0 THEN f ELSE CountFlow(c[i - 1], flows[i], period)]

\* Such a c takes the flows one after the other.
LEMMA FlowsSteps ==
  ASSUME NEW f, NEW flows, NEW period, NEW n \in Nat, NEW c, FlowsBy(f, flows, period, n, c)
  PROVE  c[0] = f /\ \A m \in 0 .. n : m < n => c[m + 1] = CountFlow(c[m], flows[m + 1], period)
<1>1. \A i \in 0 .. n : c[i] = IF i = 0 THEN f ELSE CountFlow(c[i - 1], flows[i], period)
  BY ONLY FlowsBy(f, flows, period, n, c), Zenon DEF FlowsBy
<1>2. \A m \in 0 .. n : m < n => m + 1 \in 0 .. n /\ m + 1 # 0 /\ (m + 1) - 1 = m
  OBVIOUS
<1>3. 0 \in 0 .. n
  OBVIOUS
<1>q. QED
  BY <1>1, <1>2, <1>3, Zenon

\* There is one, for any number of flows.
LEMMA FlowsExist ==
  ASSUME NEW f, NEW flows, NEW period, NEW n \in Nat
  PROVE  \E c : FlowsBy(f, flows, period, n, c)
<1> DEFINE T == {k \in Nat : ~ \E c : FlowsBy(f, flows, period, k, c)}
<1>1. SUFFICES ASSUME T # {} PROVE FALSE
  OBVIOUS
<1>2. T \subseteq Nat
  OBVIOUS
<1>3. PICK k \in T : \A m \in T : k <= m
  <2> HIDE DEF T
  <2>q. QED
    BY <1>1, <1>2, Least
<1>4. k # 0
  <2>1. FlowsBy(f, flows, period, 0, [i \in 0 .. 0 |-> f])
    BY DEF FlowsBy
  <2>q. QED
    BY <1>3, <2>1
<1>5. PICK m \in Nat : k = m + 1
  BY <1>3, <1>4
<1>6. PICK c : FlowsBy(f, flows, period, m, c)
  BY <1>3, <1>5
<1>7. c[0] = f /\ \A i \in 0 .. m : i < m => c[i + 1] = CountFlow(c[i], flows[i + 1], period)
  BY ONLY <1>5, <1>6, FlowsSteps
<1> DEFINE d == [i \in 0 .. k |-> IF i <= m THEN c[i] ELSE CountFlow(c[m], flows[k], period)]
<1>8. d[0] = f
  BY <1>5, <1>7
<1>9. ASSUME NEW i \in 0 .. k, i # 0 PROVE d[i] = CountFlow(d[i - 1], flows[i], period)
  <2>1. PICK j \in 0 .. m : i = j + 1 /\ i - 1 = j
    BY <1>5, <1>9
  <2>2. d[i - 1] = c[j]
    BY <1>5, <2>1
  <2>3. CASE j < m
    BY <1>5, <1>7, <2>1, <2>2, <2>3
  <2>4. CASE j = m
    BY <1>5, <2>1, <2>2, <2>4
  <2>q. QED
    BY <2>1, <2>3, <2>4
<1>10. d = [i \in 0 .. k |-> d[i]]
  OBVIOUS
<1>11. FlowsBy(f, flows, period, k, d)
  <2> HIDE DEF d
  <2>q. QED
    BY <1>8, <1>9, <1>10 DEF FlowsBy
<1>q. QED
  BY <1>3, <1>11

\* c[i] is what is counted after i files.
FilesBy(names, period, n, c) ==
  c = [i \in 0 .. n |-> IF i = 0 THEN <<>> ELSE CountFlows(c[i - 1], Files[names[i]], period)]

\* Such a c takes the files one after the other.
LEMMA FilesSteps ==
  ASSUME NEW names, NEW period, NEW n \in Nat, NEW c, FilesBy(names, period, n, c)
  PROVE  c[0] = <<>> /\ \A m \in 0 .. n : m < n => c[m + 1] = CountFlows(c[m], Files[names[m + 1]], period)
<1>1. \A i \in 0 .. n : c[i] = IF i = 0 THEN <<>> ELSE CountFlows(c[i - 1], Files[names[i]], period)
  BY ONLY FilesBy(names, period, n, c), Zenon DEF FilesBy
<1>2. \A m \in 0 .. n : m < n => m + 1 \in 0 .. n /\ m + 1 # 0 /\ (m + 1) - 1 = m
  OBVIOUS
<1>3. 0 \in 0 .. n
  OBVIOUS
<1>q. QED
  BY <1>1, <1>2, <1>3, Zenon

\* There is one, for any number of files.
LEMMA FilesExist ==
  ASSUME NEW names, NEW period, NEW n \in Nat
  PROVE  \E c : FilesBy(names, period, n, c)
<1> DEFINE T == {k \in Nat : ~ \E c : FilesBy(names, period, k, c)}
<1>1. SUFFICES ASSUME T # {} PROVE FALSE
  OBVIOUS
<1>2. T \subseteq Nat
  OBVIOUS
<1>3. PICK k \in T : \A m \in T : k <= m
  <2> HIDE DEF T
  <2>q. QED
    BY <1>1, <1>2, Least
<1>4. k # 0
  <2>1. FilesBy(names, period, 0, [i \in 0 .. 0 |-> <<>>])
    BY DEF FilesBy
  <2>q. QED
    BY <1>3, <2>1
<1>5. PICK m \in Nat : k = m + 1
  BY <1>3, <1>4
<1>6. PICK c : FilesBy(names, period, m, c)
  BY <1>3, <1>5
<1>7. c[0] = <<>> /\ \A i \in 0 .. m : i < m => c[i + 1] = CountFlows(c[i], Files[names[i + 1]], period)
  BY ONLY <1>5, <1>6, FilesSteps
<1> DEFINE d == [i \in 0 .. k |-> IF i <= m THEN c[i] ELSE CountFlows(c[m], Files[names[k]], period)]
<1>8. d[0] = <<>>
  BY <1>5, <1>7
<1>9. ASSUME NEW i \in 0 .. k, i # 0 PROVE d[i] = CountFlows(d[i - 1], Files[names[i]], period)
  <2>1. PICK j \in 0 .. m : i = j + 1 /\ i - 1 = j
    BY <1>5, <1>9
  <2>2. d[i - 1] = c[j]
    BY <1>5, <2>1
  <2>3. CASE j < m
    BY <1>5, <1>7, <2>1, <2>2, <2>3
  <2>4. CASE j = m
    BY <1>5, <2>1, <2>2, <2>4
  <2>q. QED
    BY <2>1, <2>3, <2>4
<1>10. d = [i \in 0 .. k |-> d[i]]
  OBVIOUS
<1>11. FilesBy(names, period, k, d)
  <2> HIDE DEF d
  <2>q. QED
    BY <1>8, <1>9, <1>10 DEF FilesBy
<1>q. QED
  BY <1>3, <1>11

\* The functions that the two recursive definitions define.
FlowsCounted(f, flows, period) == CHOOSE c : FlowsBy(f, flows, period, Len(flows), c)
FilesCounted(names, period) == CHOOSE c : FilesBy(names, period, Len(names), c)

\* CountFlows is the last member of a sequence of counts, one per flow.
LEMMA CountFlowsSteps ==
  ASSUME NEW f, NEW flows, NEW period, Len(flows) \in Nat, NEW c, c = FlowsCounted(f, flows, period)
  PROVE  /\ CountFlows(f, flows, period) = c[Len(flows)]
         /\ c[0] = f
         /\ \A m \in 0 .. Len(flows) : m < Len(flows) => c[m + 1] = CountFlow(c[m], flows[m + 1], period)
<1>1. CountFlows(f, flows, period) = c[Len(flows)]
  BY DEF CountFlows, FlowsBy, FlowsCounted
<1>2. FlowsBy(f, flows, period, Len(flows), c)
  BY FlowsExist DEF FlowsCounted
<1>3. c[0] = f /\ \A m \in 0 .. Len(flows) : m < Len(flows) => c[m + 1] = CountFlow(c[m], flows[m + 1], period)
  BY ONLY <1>2, Len(flows) \in Nat, FlowsSteps
<1>q. QED
  BY <1>1, <1>3

\* CountFiles is the last member of a sequence of counts, one per file.
LEMMA CountFilesSteps ==
  ASSUME NEW names, NEW period, Len(names) \in Nat, NEW c, c = FilesCounted(names, period)
  PROVE  /\ CountFiles(names, period) = c[Len(names)]
         /\ c[0] = <<>>
         /\ \A m \in 0 .. Len(names) : m < Len(names) => c[m + 1] = CountFlows(c[m], Files[names[m + 1]], period)
<1>1. CountFiles(names, period) = c[Len(names)]
  BY DEF CountFiles, FilesBy, FilesCounted
<1>2. FilesBy(names, period, Len(names), c)
  BY FilesExist DEF FilesCounted
<1>3. c[0] = <<>> /\ \A m \in 0 .. Len(names) : m < Len(names) => c[m + 1] = CountFlows(c[m], Files[names[m + 1]], period)
  BY ONLY <1>2, Len(names) \in Nat, FilesSteps
<1>q. QED
  BY <1>1, <1>3

\* What holds of the first of a sequence, and of the next with every one, holds of all.
LEMMA Climb ==
  ASSUME NEW n \in Nat, NEW T, 0 \in T, \A m \in 0 .. n : m < n /\ m \in T => m + 1 \in T
  PROVE  \A m \in 0 .. n : m \in T
<1> DEFINE B == {m \in 0 .. n : m \notin T}
<1>1. SUFFICES ASSUME B # {} PROVE FALSE
  OBVIOUS
<1>2. B \subseteq Nat
  OBVIOUS
<1>3. PICK k \in B : \A m \in B : k <= m
  <2> HIDE DEF B
  <2>q. QED
    BY <1>1, <1>2, Least
<1>4. k - 1 \in 0 .. n /\ k - 1 < n /\ k - 1 \notin B /\ (k - 1) + 1 = k
  BY <1>3
<1>5. k - 1 \in T
  BY <1>4
<1>6. (k - 1) + 1 \in T
  BY <1>4, <1>5
<1>q. QED
  BY <1>3, <1>4, <1>6

\* What is counted of a file agrees after every flow ...
LEMMA FlowsGood ==
  ASSUME NEW f, Good(f), NEW flows \in Seq(Flows), NEW period
  PROVE  \A m \in 0 .. Len(flows) : Good(FlowsCounted(f, flows, period)[m])
<1>1. PICK c : c = FlowsCounted(f, flows, period)
  OBVIOUS
<1>2. Len(flows) \in Nat /\ \A m \in 0 .. Len(flows) : m < Len(flows) => flows[m + 1] \in Flows
  OBVIOUS
<1>3. c[0] = f /\ \A m \in 0 .. Len(flows) : m < Len(flows) => c[m + 1] = CountFlow(c[m], flows[m + 1], period)
  BY <1>1, <1>2, CountFlowsSteps
<1>4. PICK T : T = {m \in 0 .. Len(flows) : Good(c[m])}
  OBVIOUS
<1>5. 0 \in T
  BY <1>2, <1>3, <1>4
<1>6. ASSUME NEW m \in 0 .. Len(flows), m < Len(flows), m \in T PROVE m + 1 \in T
  <2>1. PICK x \in Flows : x = flows[m + 1]
    BY <1>2, <1>6
  <2>2. Good(c[m]) /\ x.nbytes \in Nat
    BY <1>4, <1>6, FilesAssumption
  <2>3. Good(CountFlow(c[m], x, period))
    BY <2>2, ProcessGood DEF CountFlow
  <2>q. QED
    BY <1>2, <1>3, <1>4, <1>6, <2>1, <2>3
<1>7. \A m \in 0 .. Len(flows) : m \in T
  BY ONLY <1>2, <1>5, <1>6, Climb
<1>q. QED
  BY <1>1, <1>4, <1>7

\* ... and at its end ...
LEMMA CountFlowsGood ==
  ASSUME NEW f, Good(f), NEW flows \in Seq(Flows), NEW period
  PROVE  Good(CountFlows(f, flows, period))
<1>1. Len(flows) \in Nat /\ Len(flows) \in 0 .. Len(flows)
  OBVIOUS
<1>2. CountFlows(f, flows, period) = FlowsCounted(f, flows, period)[Len(flows)]
  BY <1>1, CountFlowsSteps
<1>q. QED
  BY <1>1, <1>2, FlowsGood

\* ... and so does what is counted of several files.
LEMMA FilesGood ==
  ASSUME NEW names \in Seq(DOMAIN Files), NEW period
  PROVE  /\ \A m \in 0 .. Len(names) : Good(FilesCounted(names, period)[m])
         /\ Good(CountFiles(names, period))
<1>1. PICK c : c = FilesCounted(names, period)
  OBVIOUS
<1>2. /\ Len(names) \in Nat /\ Len(names) \in 0 .. Len(names)
      /\ \A m \in 0 .. Len(names) : m < Len(names) => names[m + 1] \in DOMAIN Files
  OBVIOUS
<1>3. /\ CountFiles(names, period) = c[Len(names)]
      /\ c[0] = <<>>
      /\ \A m \in 0 .. Len(names) : m < Len(names) => c[m + 1] = CountFlows(c[m], Files[names[m + 1]], period)
  BY <1>1, <1>2, CountFilesSteps
<1>4. PICK T : T = {m \in 0 .. Len(names) : Good(c[m])}
  OBVIOUS
<1>5. 0 \in T
  BY <1>2, <1>3, <1>4, EmptyGood
<1>6. ASSUME NEW m \in 0 .. Len(names), m < Len(names), m \in T PROVE m + 1 \in T
  <2>1. PICK x \in Seq(Flows) : x = Files[names[m + 1]]
    BY <1>2, <1>6, FilesAssumption
  <2>2. Good(c[m])
    BY <1>4, <1>6
  <2>3. Good(CountFlows(c[m], x, period))
    BY ONLY <2>1, <2>2, CountFlowsGood
  <2>q. QED
    BY <1>2, <1>3, <1>4, <1>6, <2>1, <2>3
<1>7. \A m \in 0 .. Len(names) : m \in T
  BY ONLY <1>2, <1>5, <1>6, Climb
<1>q. QED
  BY <1>1, <1>2, <1>3, <1>4, <1>7

-----------------------------------------------------------------------------
\* A sum of one column, as MapThenSumSet has it.
SumIn(f, S, c, iter) ==
  iter = [s \in SUBSET S |-> IF s = {} THEN 0 ELSE f[Pick(s)][c] + iter[s \ {Pick(s)}]]

\* The totals that TablesAgree compares are sums of the two columns.
LEMMA TotalIs ==
  ASSUME NEW S \in SUBSET DOMAIN rows, IsFiniteSet(S)
  PROVE  Total(S) = <<SumOf(Column(rows, "in"), S), SumOf(Column(rows, "out"), S)>>
<1>1. Total(S) = <<(CHOOSE iter : SumIn(rows, S, "in", iter))[S], (CHOOSE iter : SumIn(rows, S, "out", iter))[S]>>
  BY DEF Total, SumIn, MapThenSumSet, MapThenFoldSet, Pick
<1>2. ASSUME NEW c \in Fields PROVE (CHOOSE iter : SumIn(rows, S, c, iter))[S] = SumOf(Column(rows, c), S)
  <2>1. ASSUME NEW iter PROVE SumIn(rows, S, c, iter) <=> Sums(Column(rows, c), S, iter)
    <3>1. \A s \in SUBSET S : s # {} => Column(rows, c)[Pick(s)] = rows[Pick(s)][c]
      BY Picked DEF Column
    <3>q. QED
      BY <3>1 DEF SumIn, Sums, SumBy
  <2>q. QED
    BY <2>1 DEF SumOf
<1>q. QED
  BY <1>1, <1>2 DEF Fields

-----------------------------------------------------------------------------
(* The tables: the inductive invariant, and what a step leaves alone.      *)

\* In a transaction of the tables.
Writing(x) == pc[x] \in {"wipe", "wait", "record"}

\* The data of a task.
JobOk(r) ==
  /\ r.files \in Seq(DOMAIN Files) /\ r.cur \in 0 .. Len(r.files)
  /\ r.flow \in Seq(Flows) /\ Good(r.pool)

\* What the tasks and the wipes keep.
DataInv ==
  /\ DOMAIN span = Threads /\ DOMAIN found = Threads /\ DOMAIN work = Conns
  /\ wiped \in [Threads -> 0 .. 3]
  /\ \A x \in Threads : /\ pc[x] \notin {"wipe", "wait"} => wiped[x] = 0
                        /\ pc[x] = "wait" => wiped[x] < 3
  /\ \A j \in Jobs : /\ JobOk(job[j])
                     /\ pc[j] \in {"none", "init", "begin", "wipe", "wait"} => job[j].cur = 0

\* Only who is in a transaction has written, and no row is written by two.
ConnInv ==
  /\ \A n \in Conns : (\A x \in Threads : Writing(x) => ConnOf(x) # n) => DOMAIN work[n] = {}
  /\ \A m, n \in Conns : m # n => DOMAIN work[m] \cap DOMAIN work[n] = {}

\* A save has added its pool to the rows, but for the records still to be saved.
SaveOk(j) ==
  pc[j] = "record" =>
    /\ job[j].rest \subseteq DOMAIN job[j].pool
    /\ DOMAIN work[j] = DOMAIN job[j].pool \ job[j].rest
    /\ \A k \in DOMAIN work[j] : work[j][k] = Plus(Row(rows, k), job[j].pool[k])

\* What a wipe has written are zeros, for rows of its period that are in the tables; it has
\* found every row of the tables it is done with, and of the one it waits for; and when it
\* is done with all of them, a row of both is set to zero with those of its unit and link.
WipeOk(x) ==
  pc[x] \in {"wipe", "wait"} =>
    /\ \A k \in DOMAIN work[ConnOf(x)] :
         k \in DOMAIN rows /\ work[ConnOf(x)][k] = Zero /\ Within(k.point, span[x])
    /\ pc[x] = "wait" => \A k \in found[x] : k \in DOMAIN rows /\ Within(k.point, span[x])
    /\ \A k \in DOMAIN rows : Within(k.point, span[x]) /\ k.point \notin torn =>
         \A t \in 1 .. 3 : k.table = Tables[t] =>
           /\ t <= wiped[x] /\ wiped[x] < 3 => k \in DOMAIN work[ConnOf(x)]
           /\ pc[x] = "wait" /\ t = wiped[x] + 1 => k \in found[x]
    /\ wiped[x] = 3 => \A k, i \in DOMAIN rows : Covers(k, i) /\ k.point \notin torn =>
         (i \in DOMAIN work[ConnOf(x)] <=> k \in DOMAIN work[ConnOf(x)])

\* The tables agree, but for the torn hours.
RowsInv == RowsOk(rows) /\ \A p : p \notin torn => AgreeAt(rows, p)

\* The inductive invariant of TablesAgree.
SInv == /\ DataInv /\ ConnInv /\ RowsInv
        /\ \A j \in Jobs : SaveOk(j)
        /\ \A x \in Threads : WipeOk(x)

-----------------------------------------------------------------------------
\* A step of the thread z leaves the others, and their transactions, alone.
Alone(z) ==
  /\ \A y \in Threads \ {z} :
       /\ pc'[y] = pc[y] /\ wiped'[y] = wiped[y] /\ found'[y] = found[y] /\ span'[y] = span[y]
       /\ y \in own' <=> y \in own
       /\ y \in Jobs => job'[y] = job[y]
  /\ \A n \in Conns : n # ConnOf(z) => work'[n] = work[n]

\* A connection is written to by one thread.
LEMMA OneWriter ==
  ASSUME IInv, NEW x \in Threads, NEW y \in Threads, Writing(x), Writing(y), ConnOf(x) = ConnOf(y)
  PROVE  x = y
<1> USE ThreadsAssumption DEF IInv, TypeInv, Threads, JobPC, ClientPC, Writing, OwnInv
<1>1. CASE x \in own /\ y \in own
  BY <1>1 DEF ConnOf
<1>2. CASE x \in own /\ y \notin own
  BY <1>2 DEF ConnOf
<1>3. CASE x \notin own /\ y \in own
  BY <1>3 DEF ConnOf
<1>4. CASE x \notin own /\ y \notin own
  <2>1. x \in Users /\ y \in Users
    BY <1>4 DEF Users
  <2>2. Users \subseteq {query.owner}
    BY DEF MutexInv
  <2>q. QED
    BY <2>1, <2>2
<1>q. QED
  BY <1>1, <1>2, <1>3, <1>4

\* A task saves on its own connection.
LEMMA SaverOwns ==
  ASSUME IInv, NEW j \in Jobs, pc[j] = "record"
  PROVE  ConnOf(j) = j
  BY DEF IInv, OwnInv, ConnOf

\* The connection of a thread is one.
LEMMA ConnType == \A x \in Threads : ConnOf(x) \in Conns
  BY DEF ConnOf, Conns

\* The connection of a thread that takes no step is the same, and not that of the one that does.
LEMMA OtherConn ==
  ASSUME IInv, NEW z \in Threads, NEW y \in Threads, y # z, Alone(z), Writing(y),
         Writing(z) \/ work' = work
  PROVE  /\ ConnOf(y)' = ConnOf(y) /\ Writing(y)'
         /\ work'[ConnOf(y)] = work[ConnOf(y)]
<1>1. ConnOf(y)' = ConnOf(y) /\ Writing(y)'
  BY DEF Alone, ConnOf, Writing
<1>2. CASE Writing(z)
  <2>1. ConnOf(z) # ConnOf(y)
    BY <1>2, OneWriter
  <2>q. QED
    BY <1>1, <2>1, ConnType DEF Alone
<1>q. QED
  BY <1>1, <1>2

\* Steps that leave the tables alone.
LEMMA OthersSame ==
  ASSUME IInv, SInv, NEW z \in Threads, Alone(z), Writing(z) \/ work' = work,
         rows' = rows, torn' = torn
  PROVE  /\ \A j \in Jobs \ {z} : SaveOk(j)'
         /\ \A x \in Threads \ {z} : WipeOk(x)'
<1>1. ASSUME NEW j \in Jobs \ {z} PROVE SaveOk(j)'
  <2>1. SUFFICES ASSUME pc'[j] = "record" PROVE SaveOk(j)'
    BY DEF SaveOk
  <2>2. j \in Threads /\ pc[j] = "record" /\ job'[j] = job[j]
    BY <2>1 DEF Alone, Threads
  <2>3. work'[j] = work[j]
    <3>1. Writing(j) /\ ConnOf(j) = j
      BY <2>2, SaverOwns DEF Writing
    <3>q. QED
      BY <2>2, <3>1, OtherConn
  <2>q. QED
    BY <2>2, <2>3 DEF SInv, SaveOk
<1>2. ASSUME NEW x \in Threads \ {z} PROVE WipeOk(x)'
  <2>1. SUFFICES ASSUME pc'[x] \in {"wipe", "wait"} PROVE WipeOk(x)'
    BY DEF WipeOk
  <2>2. /\ pc'[x] = pc[x] /\ wiped'[x] = wiped[x] /\ found'[x] = found[x] /\ span'[x] = span[x]
        /\ Writing(x)
    BY <2>1 DEF Alone, Writing
  <2>3. ConnOf(x)' = ConnOf(x) /\ work'[ConnOf(x)] = work[ConnOf(x)]
    BY <2>2, OtherConn
  <2>4. work'[ConnOf(x)'] = work[ConnOf(x)]
    BY <2>3
  <2>5. WipeOk(x)
    BY DEF SInv
  <2>q. QED
    BY <2>1, <2>2, <2>4, <2>5 DEF WipeOk
<1>q. QED
  BY <1>1, <1>2

\* A commit does not touch what another has written.
LEMMA OthersSave ==
  ASSUME IInv, SInv, NEW z \in Threads, Alone(z), Writing(z), rows' = Over(work[ConnOf(z)], rows)
  PROVE  \A j \in Jobs \ {z} : SaveOk(j)'
<1> TAKE j \in Jobs \ {z}
<1>1. SUFFICES ASSUME pc'[j] = "record" PROVE SaveOk(j)'
  BY DEF SaveOk
<1>2. j \in Threads /\ pc[j] = "record" /\ job'[j] = job[j] /\ Writing(j)
  BY <1>1 DEF Alone, Threads, Writing
<1>3. ConnOf(j) = j
  BY <1>2, SaverOwns
<1>4. work'[j] = work[j] /\ j # ConnOf(z)
  BY <1>2, <1>3, OtherConn, OneWriter
<1>5. DOMAIN work[j] \cap DOMAIN work[ConnOf(z)] = {}
  BY <1>3, <1>4, <1>2, ConnType DEF SInv, ConnInv
<1>6. \A k \in DOMAIN work[j] : Row(rows', k) = Row(rows, k)
  BY <1>5 DEF Over, Row
<1>q. QED
  BY <1>1, <1>2, <1>4, <1>6 DEF SInv, SaveOk

\* The commit of a wipe leaves the invariants of the other transactions as they are.
LEMMA OthersWiped ==
  ASSUME IInv, SInv, NEW z \in Threads, Alone(z), pc[z] \in {"wipe", "wait"},
         rows' = Over(work[ConnOf(z)], rows), torn' = torn
  PROVE  /\ \A j \in Jobs \ {z} : SaveOk(j)'
         /\ \A x \in Threads \ {z} : WipeOk(x)'
<1>1. \A j \in Jobs \ {z} : SaveOk(j)'
  BY OthersSave DEF Writing
<1>2. DOMAIN rows' = DOMAIN rows
  <2>1. \A k \in DOMAIN work[ConnOf(z)] : k \in DOMAIN rows
    BY DEF SInv, WipeOk
  <2>q. QED
    BY <2>1 DEF Over
<1>3. ASSUME NEW x \in Threads \ {z} PROVE WipeOk(x)'
  <2>1. SUFFICES ASSUME pc'[x] \in {"wipe", "wait"} PROVE WipeOk(x)'
    BY DEF WipeOk
  <2>2. /\ pc'[x] = pc[x] /\ wiped'[x] = wiped[x] /\ found'[x] = found[x] /\ span'[x] = span[x]
        /\ Writing(x) /\ Writing(z)
    BY <2>1 DEF Alone, Writing
  <2>3. ConnOf(x)' = ConnOf(x) /\ work'[ConnOf(x)] = work[ConnOf(x)]
    BY <2>2, OtherConn
  <2>4. work'[ConnOf(x)'] = work[ConnOf(x)]
    BY <2>3
  <2>5. WipeOk(x)
    BY DEF SInv
  <2>q. QED
    BY <1>2, <2>1, <2>2, <2>4, <2>5 DEF WipeOk
<1>q. QED
  BY <1>1, <1>3

\* The commit of a save adds its pool to the rows.
LEMMA SaveAdds ==
  ASSUME IInv, SInv, NEW z \in Jobs, pc[z] = "record", job[z].rest = {},
         rows' = Over(work[z], rows)
  PROVE  /\ DOMAIN work[z] = DOMAIN job[z].pool
         /\ Together(rows', rows, job[z].pool)
<1>1. DOMAIN work[z] = DOMAIN job[z].pool /\ \A k \in DOMAIN work[z] : work[z][k] = Plus(Row(rows, k), job[z].pool[k])
  BY DEF SInv, SaveOk
<1>2. DOMAIN rows' = DOMAIN rows \cup DOMAIN job[z].pool
  BY <1>1 DEF Over
<1>3. ASSUME NEW k \in DOMAIN rows' PROVE rows'[k] = Plus(Row(rows, k), Row(job[z].pool, k))
  <2>1. CASE k \in DOMAIN work[z]
    <3>1. rows'[k] = work[z][k] /\ Row(job[z].pool, k) = job[z].pool[k]
      BY <1>1, <2>1 DEF Row, Over
    <3>q. QED
      BY <1>1, <2>1, <3>1
  <2>2. CASE k \notin DOMAIN work[z]
    <3>1. rows'[k] = rows[k] /\ k \in DOMAIN rows /\ Row(rows, k) = rows[k] /\ Row(job[z].pool, k) = Zero
      BY <1>1, <1>2, <2>2 DEF Row, Over
    <3>2. rows[k] \in [in : Int, out : Int]
      BY <3>1 DEF SInv, RowsInv, RowsOk
    <3>3. Plus(rows[k], Zero) = rows[k]
      BY <3>2, PlusZero
    <3>q. QED
      BY <3>1, <3>3
  <2>q. QED
    BY <2>1, <2>2
<1>q. QED
  BY <1>1, <1>2, <1>3 DEF Together

\* So does the commit of a save, but at the hours that it tears.
LEMMA OthersSaved ==
  ASSUME IInv, SInv, NEW z \in Jobs, Alone(z), pc[z] = "record", job[z].rest = {},
         rows' = Over(work[z], rows),
         torn' = torn \cup {p \in {k.point : k \in DOMAIN work[z]} : BeingWiped(p)}
  PROVE  /\ \A j \in Jobs \ {z} : SaveOk(j)'
         /\ \A x \in Threads \ {z} : WipeOk(x)'
<1>1. z \in Threads /\ ConnOf(z) = z /\ Writing(z)
  BY SaverOwns DEF Threads, Writing
<1>2. \A j \in Jobs \ {z} : SaveOk(j)'
  BY <1>1, OthersSave
<1>3. DOMAIN work[z] = DOMAIN job[z].pool /\ Together(rows', rows, job[z].pool)
  BY SaveAdds
<1>4. /\ RowsOk(rows) /\ RowsOk(job[z].pool) /\ RowsOk(rows')
      /\ DOMAIN rows' = DOMAIN rows \cup DOMAIN work[z]
  <2>1. RowsOk(rows) /\ RowsOk(job[z].pool)
    BY DEF SInv, RowsInv, DataInv, JobOk, Good
  <2>2. RowsOk(rows')
    BY <1>3, <2>1, TogetherFields
  <2>q. QED
    BY <1>3, <2>1, <2>2 DEF Together
<1>5. ASSUME NEW x \in Threads \ {z} PROVE WipeOk(x)'
  <2>1. SUFFICES ASSUME pc'[x] \in {"wipe", "wait"} PROVE WipeOk(x)'
    BY DEF WipeOk
  <2>2. /\ pc'[x] = pc[x] /\ wiped'[x] = wiped[x] /\ found'[x] = found[x] /\ span'[x] = span[x]
        /\ Writing(x) /\ Writing(z)
    BY <1>1, <2>1 DEF Alone, Writing
  <2>3. ConnOf(x)' = ConnOf(x) /\ work'[ConnOf(x)] = work[ConnOf(x)]
    BY <1>1, <2>2, OtherConn
  <2>4. PICK W : W = work[ConnOf(x)]
    OBVIOUS
  <2>5. work'[ConnOf(x)'] = W
    BY <2>3, <2>4
  <2>6. DOMAIN W \cap DOMAIN work[z] = {}
    <3>1. ConnOf(x) # z
      BY <1>1, <2>2, OneWriter
    <3>q. QED
      BY <1>1, <2>4, <3>1, ConnType DEF SInv, ConnInv
  <2>7. /\ \A k \in DOMAIN W : k \in DOMAIN rows /\ W[k] = Zero /\ Within(k.point, span[x])
        /\ pc[x] = "wait" => \A k \in found[x] : k \in DOMAIN rows /\ Within(k.point, span[x])
        /\ \A k \in DOMAIN rows : Within(k.point, span[x]) /\ k.point \notin torn =>
             \A t \in 1 .. 3 : k.table = Tables[t] =>
               /\ t <= wiped[x] /\ wiped[x] < 3 => k \in DOMAIN W
               /\ pc[x] = "wait" /\ t = wiped[x] + 1 => k \in found[x]
        /\ wiped[x] = 3 => \A k, i \in DOMAIN rows : Covers(k, i) /\ k.point \notin torn =>
             (i \in DOMAIN W <=> k \in DOMAIN W)
    BY <2>1, <2>2, <2>4 DEF SInv, WipeOk
  <2>8. wiped[x] \in 0 .. 3
    BY DEF SInv, DataInv
  <2>9. \A p : p \notin torn' => p \notin torn
    OBVIOUS
  <2>10. ASSUME NEW k \in DOMAIN rows', k \notin DOMAIN rows, k.point \notin torn', Within(k.point, span[x])
         PROVE  pc[x] # "wait" /\ wiped[x] \notin 1 .. 2
    <3>1. k \in DOMAIN work[z]
      BY <1>4, <2>10
    <3>2. ~ BeingWiped(k.point)
      BY <2>10, <3>1
    <3>q. QED
      BY <2>10, <3>2 DEF BeingWiped, Tables
  <2>11. \A k \in DOMAIN rows' : Within(k.point, span[x]) /\ k.point \notin torn' =>
           \A t \in 1 .. 3 : k.table = Tables[t] =>
             /\ t <= wiped[x] /\ wiped[x] < 3 => k \in DOMAIN W
             /\ pc[x] = "wait" /\ t = wiped[x] + 1 => k \in found[x]
    <3> SUFFICES ASSUME NEW k \in DOMAIN rows', Within(k.point, span[x]), k.point \notin torn',
                        NEW t \in 1 .. 3, k.table = Tables[t]
                 PROVE  /\ t <= wiped[x] /\ wiped[x] < 3 => k \in DOMAIN W
                        /\ pc[x] = "wait" /\ t = wiped[x] + 1 => k \in found[x]
      OBVIOUS
    <3>1. CASE k \in DOMAIN rows
      BY <2>7, <2>9, <3>1
    <3>2. CASE k \notin DOMAIN rows
      BY <2>8, <2>10, <3>2
    <3>q. QED
      BY <3>1, <3>2
  <2>12. ASSUME wiped[x] = 3, NEW k \in DOMAIN rows', NEW i \in DOMAIN rows', Covers(k, i), k.point \notin torn'
         PROVE  i \in DOMAIN W <=> k \in DOMAIN W
    <3>1. KeyOk(k) /\ k.table \in {"unit_stat", "link_stat"} /\ i.table = "unit_link_stat" /\ i.point = k.point
      BY <1>4, <2>12 DEF RowsOk, Covers
    <3>2. ASSUME NEW f, RowsOk(f), AgreeAt(f, k.point), i \in DOMAIN f PROVE k \in DOMAIN f
      <4>1. PICK m \in DOMAIN f : m.table = k.table /\ Covers(m, i)
        BY <3>1, <3>2 DEF AgreeAt
      <4>2. KeyOk(m)
        BY <3>2, <4>1 DEF RowsOk
      <4>3. k = m
        BY ONLY <2>12, <3>1, <4>1, <4>2, OneCover
      <4>q. QED
        BY <4>1, <4>3
    <3>3. AgreeAt(rows, k.point) /\ AgreeAt(job[z].pool, k.point)
      BY <2>9, <2>12 DEF SInv, RowsInv, DataInv, JobOk, Good
    <3>4. CASE i \in DOMAIN rows
      <4>1. k \in DOMAIN rows
        BY <1>4, <3>2, <3>3, <3>4
      <4>q. QED
        BY <2>7, <2>9, <2>12, <3>4, <4>1
    <3>5. CASE i \notin DOMAIN rows
      <4>1. i \in DOMAIN job[z].pool
        BY <1>3, <1>4, <3>5
      <4>2. k \in DOMAIN job[z].pool
        BY <1>4, <3>2, <3>3, <4>1
      <4>q. QED
        BY <1>3, <2>6, <4>1, <4>2
    <3>q. QED
      BY <3>4, <3>5
  <2>13. \A k \in DOMAIN rows : k \in DOMAIN rows'
    BY <1>4
  <2>q. QED
    BY <2>2, <2>5, <2>7, <2>11, <2>12, <2>13 DEF WipeOk
<1>q. QED
  BY <1>2, <1>5

\* A step of a wipe is its thread's alone ...
LEMMA WipeAlone ==
  ASSUME IInv, DataInv, NEW z \in Threads, Wipe(z)
  PROVE  Alone(z)
<1> USE DEF IInv, TypeInv, DataInv, Alone, Goto
<1>1. CASE WipeBegin(z)
  BY <1>1 DEF WipeBegin, taskVars
<1>2. CASE WipeBeginFails(z)
  BY <1>2 DEF WipeBeginFails, WipeFailed, Ended, dbVars
<1>3. CASE WipeTable(z)
  BY <1>3 DEF WipeTable, Cleaned, taskVars, connVars
<1>4. CASE WipeWaits(z)
  BY <1>4 DEF WipeWaits, taskVars, connVars, dbVars
<1>5. CASE WipeResumes(z)
  BY <1>5 DEF WipeResumes, Cleaned, taskVars, connVars
<1>6. CASE WipeRollback(z)
  BY <1>6 DEF WipeRollback, DbEnd, WipeFailed, Ended
<1>7. CASE WipeCommit(z)
  BY <1>7 DEF WipeCommit, DbEnd, taskVars
<1>q. QED
  BY <1>1, <1>2, <1>3, <1>4, <1>5, <1>6, <1>7 DEF Wipe

\* ... and so are those of a task ...
LEMMA JobAlone ==
  ASSUME IInv, DataInv, NEW z \in Jobs, Job(z)
  PROVE  Alone(z)
<1> USE DEF IInv, TypeInv, DataInv, Alone, Goto, Polled, connVars
<1>1. CASE Create(z)
  BY <1>1 DEF Create, dbVars
<1>2. CASE CreateFails(z)
  BY <1>2 DEF CreateFails, dbVars
<1>3. CASE InitHook(z)
  BY <1>3 DEF InitHook, dbVars
<1>4. CASE InitFails(z)
  BY <1>4 DEF InitFails, Ended, dbVars
<1>5. CASE OpenNext(z)
  BY <1>5 DEF OpenNext, dbVars
<1>6. CASE NoMoreFiles(z)
  BY <1>6 DEF NoMoreFiles, taskVars, dbVars
<1>7. CASE ReadFlow(z)
  BY <1>7 DEF ReadFlow, dbVars
<1>8. CASE SaveBegin(z)
  BY <1>8 DEF SaveBegin
<1>9. CASE SaveRecord(z)
  BY <1>9, SaverOwns DEF SaveRecord
<1>10. CASE SaveRollback(z)
  BY <1>10, SaverOwns DEF SaveRollback, DbEnd
<1>11. CASE SaveCommit(z)
  BY <1>11, SaverOwns DEF SaveCommit, DbEnd, taskVars
<1>12. CASE SaveOut(z)
  BY <1>12 DEF SaveOut, ForgetPool, dbVars
<1>13. CASE FiniHook(z)
  BY <1>13 DEF FiniHook, Ended, dbVars
<1>q. QED
  BY <1>1, <1>2, <1>3, <1>4, <1>5, <1>6, <1>7, <1>8, <1>9, <1>10, <1>11, <1>12, <1>13 DEF Job

\* ... and of a client.
LEMMA ClientAlone ==
  ASSUME IInv, DataInv, NEW z \in Clients, Client(z)
  PROVE  Alone(z)
  BY DEF IInv, TypeInv, DataInv, Alone, Goto, Client, StatCommon, StatWipe, Query, QueryDone,
         Disconnect, taskVars, connVars, dbVars, Threads

-----------------------------------------------------------------------------
\* The data of a task that has not been made.
LEMMA NoJobOk == JobOk(NoJob)
  BY EmptyGood DEF JobOk, NoJob

\* The flows that are left, and the next.
LEMMA TailFlows == ASSUME NEW s \in Seq(Flows), s # <<>> PROVE Tail(s) \in Seq(Flows) /\ Head(s) \in Flows
  OBVIOUS

\* One flow more leaves a pool that agrees.
LEMMA CountFlowGood ==
  ASSUME NEW f, Good(f), NEW x \in Flows, NEW period PROVE Good(CountFlow(f, x, period))
  BY FilesAssumption, ProcessGood DEF CountFlow

\* What a step of the task does to its data.
LEMMA JobData ==
  ASSUME IInv, DataInv, NEW z \in Jobs, Job(z)
  PROVE  JobOk(job'[z]) /\ DOMAIN job' = Jobs
<1> USE InitialJob DEF IInv, TypeInv, DataInv, connVars
<1>a. PICK r : r = job[z] /\ JobOk(r) /\ DOMAIN r = DOMAIN NoJob
  OBVIOUS
<1>b. ASSUME NEW e, JobOk(e), job' = [job EXCEPT ![z] = e] PROVE JobOk(job'[z]) /\ DOMAIN job' = Jobs
  BY <1>b
<1>c. ASSUME UNCHANGED job PROVE JobOk(job'[z]) /\ DOMAIN job' = Jobs
  BY <1>c
<1>1. CASE Create(z)
  <2>1. r.cur = 0
    BY <1>1, <1>a DEF Create
  <2>2. ASSUME NEW g \in Globs, NEW k, job' = [job EXCEPT ![z].kind = k, ![z].files = g] PROVE JobOk(job'[z])
    <3>1. PICK e : e = [r EXCEPT !.kind = k, !.files = g]
      OBVIOUS
    <3>2. e.files = g /\ e.cur = 0 /\ e.flow = r.flow /\ e.pool = r.pool
      BY <1>a, <2>1, <3>1
    <3>3. g \in Seq(DOMAIN Files) /\ 0 \in 0 .. Len(g)
      BY FilesAssumption
    <3>4. job' = [job EXCEPT ![z] = e]
      BY <1>a, <2>2, <3>1
    <3>q. QED
      BY <1>a, <1>b, <3>2, <3>3, <3>4 DEF JobOk
  <2>3. ASSUME NEW n \in Feeds, job' = [job EXCEPT ![z].kind = "feed", ![z].flow = Files[n]] PROVE JobOk(job'[z])
    <3>1. PICK e : e = [r EXCEPT !.kind = "feed", !.flow = Files[n]]
      OBVIOUS
    <3>2. e.files = r.files /\ e.cur = r.cur /\ e.flow = Files[n] /\ e.pool = r.pool
      BY <1>a, <3>1
    <3>3. Files[n] \in Seq(Flows)
      BY FilesAssumption
    <3>4. job' = [job EXCEPT ![z] = e]
      BY <1>a, <2>3, <3>1
    <3>q. QED
      BY <1>a, <1>b, <3>2, <3>3, <3>4 DEF JobOk
  <2>4. DOMAIN job' = Jobs
    BY <1>1 DEF Create
  <2>q. QED
    BY <1>1, <2>2, <2>3, <2>4 DEF Create
<1>2. CASE CreateFails(z) \/ NoMoreFiles(z) \/ SaveRollback(z) \/ SaveCommit(z)
  BY <1>2, <1>c DEF CreateFails, NoMoreFiles, SaveRollback, SaveCommit, taskVars
<1>3. CASE InitHook(z)
  <2>1. CASE job[z].kind = "feed"
    <3>1. PICK e : e = [r EXCEPT !.pool = <<>>, !.ptr = TRUE]
      OBVIOUS
    <3>2. e.files = r.files /\ e.cur = r.cur /\ e.flow = r.flow /\ e.pool = <<>>
      BY <1>a, <3>1
    <3>3. job' = [job EXCEPT ![z] = e]
      BY <1>3, <1>a, <2>1, <3>1 DEF InitHook
    <3>q. QED
      BY <1>a, <1>b, <3>2, <3>3, EmptyGood DEF JobOk
  <2>q. QED
    BY <1>3, <1>c, <2>1 DEF InitHook
<1>4. CASE InitFails(z) \/ FiniHook(z)
  <2>1. job' = [job EXCEPT ![z] = NoJob]
    BY <1>4 DEF InitFails, FiniHook, Ended
  <2>q. QED
    BY <1>b, <2>1, NoJobOk
<1>5. CASE OpenNext(z)
  <2>1. PICK n : n = [r EXCEPT !.cur = r.cur + 1]
    OBVIOUS
  <2>2. r.cur < Len(r.files) /\ Len(r.files) \in Nat /\ r.cur \in Nat
    BY <1>5, <1>a DEF OpenNext, JobOk
  <2>3. n.files = r.files /\ n.cur = r.cur + 1 /\ n.flow = r.flow /\ n.pool = r.pool /\ DOMAIN n = DOMAIN NoJob
    BY <1>a, <2>1
  <2>4. JobOk(n)
    BY <1>a, <2>2, <2>3 DEF JobOk
  <2>5. PICK e : e = [n EXCEPT !.flow = Files[n.files[n.cur]], !.pool = <<>>, !.ptr = TRUE]
    OBVIOUS
  <2>6. e.files = n.files /\ e.cur = n.cur /\ e.flow = Files[n.files[n.cur]] /\ e.pool = <<>>
    BY <2>3, <2>5
  <2>7. Files[n.files[n.cur]] \in Seq(Flows)
    <3>1. n.cur \in 1 .. Len(n.files) /\ n.files \in Seq(DOMAIN Files)
      BY <2>2, <2>3, <2>4 DEF JobOk
    <3>2. n.files[n.cur] \in DOMAIN Files
      BY <3>1
    <3>q. QED
      BY <3>2, FilesAssumption
  <2>8. JobOk(e)
    BY <2>4, <2>6, <2>7, EmptyGood DEF JobOk
  <2>9. job' = [job EXCEPT ![z] = e] \/ job' = [job EXCEPT ![z] = n]
    BY <1>5, <1>a, <2>1, <2>5 DEF OpenNext
  <2>q. QED
    BY <1>b, <2>4, <2>8, <2>9
<1>6. CASE ReadFlow(z)
  <2>1. PICK x : x = Head(r.flow)
    OBVIOUS
  <2>2. PICK e : e = [r EXCEPT !.flow = Tail(r.flow), !.pool = CountFlow(r.pool, x, Counted(z))]
    OBVIOUS
  <2>3. e.files = r.files /\ e.cur = r.cur /\ e.flow = Tail(r.flow) /\ e.pool = CountFlow(r.pool, x, Counted(z))
    BY <1>a, <2>2
  <2>4. Tail(r.flow) \in Seq(Flows) /\ x \in Flows
    BY <1>6, <1>a, <2>1, TailFlows DEF ReadFlow, JobOk
  <2>5. Good(CountFlow(r.pool, x, Counted(z)))
    BY <1>a, <2>4, CountFlowGood DEF JobOk
  <2>6. JobOk(e)
    BY <1>a, <2>3, <2>4, <2>5 DEF JobOk
  <2>7. job' = [job EXCEPT ![z] = e]
    BY <1>6, <1>a, <2>1, <2>2 DEF ReadFlow
  <2>q. QED
    BY <1>b, <2>6, <2>7
<1>7. CASE SaveBegin(z) \/ SaveRecord(z) \/ SaveOut(z)
  <2>1. ASSUME NEW e, DOMAIN e = DOMAIN NoJob, e.files = r.files, e.cur = r.cur, e.flow = r.flow, e.pool = r.pool
        PROVE  JobOk(e)
    BY <1>a, <2>1 DEF JobOk
  <2>2. CASE SaveBegin(z)
    <3>1. job' = job \/ job' = [job EXCEPT ![z] = [r EXCEPT !.rest = DOMAIN r.pool]]
      BY <1>a, <2>2 DEF SaveBegin
    <3>2. JobOk([r EXCEPT !.rest = DOMAIN r.pool])
      BY <1>a, <2>1
    <3>q. QED
      BY <1>b, <1>c, <3>1, <3>2
  <2>3. CASE SaveRecord(z)
    <3>1. PICK s : job' = [job EXCEPT ![z] = [r EXCEPT !.rest = s]]
      BY <1>a, <2>3 DEF SaveRecord
    <3>2. JobOk([r EXCEPT !.rest = s])
      BY <1>a, <2>1
    <3>q. QED
      BY <1>b, <3>1, <3>2
  <2>4. CASE SaveOut(z)
    <3>1. job' = [job EXCEPT ![z] = [r EXCEPT !.ptr = FALSE]]
      BY <1>a, <2>4 DEF SaveOut, ForgetPool
    <3>2. JobOk([r EXCEPT !.ptr = FALSE])
      BY <1>a, <2>1
    <3>q. QED
      BY <1>b, <3>1, <3>2
  <2>q. QED
    BY <1>7, <2>2, <2>3, <2>4
<1>q. QED
  BY <1>1, <1>2, <1>3, <1>4, <1>5, <1>6, <1>7 DEF Job

\* Tasks keep their data in order ...
LEMMA DataJob ==
  ASSUME IInv, DataInv, NEW z \in Jobs, Job(z)
  PROVE  DataInv'
<1>1. JobOk(job'[z]) /\ Alone(z) /\ z \in Threads
  BY JobData, JobAlone DEF Threads
<1>2. \A j \in Jobs : JobOk(job'[j])
  BY <1>1 DEF Alone, DataInv, Threads
<1>3. /\ pc'[z] \notin {"none", "wipe", "wait"} /\ pc[z] \notin {"wipe", "wait"}
      /\ UNCHANGED <<wiped, found>>
      /\ DOMAIN span' = Threads /\ DOMAIN work' = Conns
  <2> USE DEF DataInv, IInv, TypeInv, Goto, Polled, Threads
  <2>1. CASE Create(z)
    BY <2>1 DEF Create, dbVars
  <2>2. CASE CreateFails(z)
    BY <2>2 DEF CreateFails, dbVars
  <2>3. CASE InitHook(z) \/ InitFails(z)
    BY <2>3 DEF InitHook, InitFails, Ended, dbVars
  <2>4. CASE OpenNext(z)
    BY <2>4 DEF OpenNext, dbVars
  <2>5. CASE NoMoreFiles(z) \/ ReadFlow(z) \/ SaveOut(z) \/ FiniHook(z)
    BY <2>5 DEF NoMoreFiles, ReadFlow, SaveOut, FiniHook, Ended, dbVars
  <2>6. CASE SaveBegin(z) \/ SaveRecord(z)
    BY <2>6 DEF SaveBegin, SaveRecord
  <2>7. CASE SaveRollback(z) \/ SaveCommit(z)
    BY <2>7 DEF SaveRollback, SaveCommit, DbEnd, taskVars
  <2>q. QED
    BY <2>1, <2>2, <2>3, <2>4, <2>5, <2>6, <2>7 DEF Job
<1>4. \A x \in Threads : pc'[x] = pc[x] \/ x = z
  BY <1>1 DEF Alone
<1>5. \A j \in Jobs : pc'[j] \in {"none", "init", "begin", "wipe", "wait"} => job'[j].cur = 0
  <2>1. pc'[z] \in {"none", "init", "begin", "wipe", "wait"} => job'[z].cur = 0
    <3> USE DEF DataInv, IInv, TypeInv, Goto, Polled, Threads, JobPC
    <3>1. CASE Create(z)
      BY <3>1, InitialJob DEF Create
    <3>2. CASE InitHook(z)
      BY <3>2, InitialJob DEF InitHook
    <3>3. CASE ~ Create(z) /\ ~ InitHook(z)
      <4>1. CASE OpenNext(z) \/ SaveRecord(z)
        BY <4>1 DEF OpenNext, SaveRecord
      <4>2. CASE CreateFails(z) \/ InitFails(z) \/ NoMoreFiles(z) \/ ReadFlow(z) \/ SaveOut(z) \/ FiniHook(z)
        BY <4>2 DEF CreateFails, InitFails, NoMoreFiles, ReadFlow, SaveOut, FiniHook, Ended
      <4>3. CASE SaveBegin(z) \/ SaveRollback(z) \/ SaveCommit(z)
        BY <4>3 DEF SaveBegin, SaveRollback, SaveCommit
      <4>q. QED
        BY <3>3, <4>1, <4>2, <4>3 DEF Job
    <3>q. QED
      BY <3>1, <3>2, <3>3
  <2>q. QED
    BY <1>1, <1>4, <2>1 DEF DataInv, Alone, Threads
<1>6. \A x \in Threads : /\ pc'[x] \notin {"wipe", "wait"} => wiped'[x] = 0
                         /\ pc'[x] = "wait" => wiped'[x] < 3
  BY <1>3, <1>4 DEF DataInv
<1>q. QED
  BY <1>2, <1>3, <1>5, <1>6 DEF DataInv

\* ... and so do wipes ...
LEMMA DataWipe ==
  ASSUME IInv, DataInv, NEW z \in Threads, Wipe(z)
  PROVE  DataInv'
<1>1. Alone(z)
  BY WipeAlone
<1>2. \A j \in Jobs : JobOk(job'[j])
  <2>1. CASE job' = job
    BY <2>1 DEF DataInv
  <2>2. CASE z \in Jobs /\ job' = [job EXCEPT ![z] = NoJob]
    BY <2>2, NoJobOk DEF DataInv, IInv, TypeInv
  <2>q. QED
    BY <2>1, <2>2 DEF Wipe, WipeBegin, WipeBeginFails, WipeTable, WipeWaits, WipeResumes, Cleaned,
       WipeRollback, WipeCommit, WipeFailed, Ended, taskVars
<1>3. /\ pc'[z] # "none"
      /\ pc'[z] \notin {"wipe", "wait"} => wiped'[z] = 0
      /\ pc'[z] = "wait" => wiped'[z] < 3
      /\ wiped' \in [Threads -> 0 .. 3]
      /\ DOMAIN span' = Threads /\ DOMAIN work' = Conns /\ DOMAIN found' = Threads
  <2> USE DEF DataInv, IInv, TypeInv, Goto, Tables
  <2>1. CASE WipeBegin(z)
    BY <2>1 DEF WipeBegin
  <2>2. CASE WipeBeginFails(z)
    BY <2>2 DEF WipeBeginFails, WipeFailed, Ended, dbVars
  <2>3. CASE WipeTable(z)
    BY <2>3 DEF WipeTable, Cleaned
  <2>4. CASE WipeWaits(z)
    BY <2>4 DEF WipeWaits, dbVars
  <2>5. CASE WipeResumes(z)
    BY <2>5 DEF WipeResumes, Cleaned
  <2>6. CASE WipeRollback(z)
    BY <2>6 DEF WipeRollback, DbEnd, WipeFailed, Ended
  <2>7. CASE WipeCommit(z)
    BY <2>7 DEF WipeCommit, DbEnd
  <2>q. QED
    BY <2>1, <2>2, <2>3, <2>4, <2>5, <2>6, <2>7 DEF Wipe
<1>4. \A x \in Threads : (pc'[x] = pc[x] /\ wiped'[x] = wiped[x]) \/ x = z
  BY <1>1 DEF Alone
<1>5. \A j \in Jobs : pc'[j] \in {"none", "init", "begin", "wipe", "wait"} => job'[j].cur = 0
  <2>1. z \in Jobs /\ pc'[z] \in {"none", "init", "begin", "wipe", "wait"} => job'[z].cur = 0
    <3> USE DEF DataInv, IInv, TypeInv, Goto, Threads
    <3>1. CASE WipeBegin(z) \/ WipeTable(z) \/ WipeWaits(z) \/ WipeResumes(z)
      BY <3>1 DEF WipeBegin, WipeTable, WipeWaits, WipeResumes, Cleaned, taskVars
    <3>2. CASE WipeBeginFails(z) \/ WipeRollback(z) \/ WipeCommit(z)
      BY <3>2 DEF WipeBeginFails, WipeRollback, WipeCommit, WipeFailed, Ended
    <3>q. QED
      BY <3>1, <3>2 DEF Wipe
  <2>q. QED
    BY <1>1, <1>4, <2>1 DEF DataInv, Alone, Threads
<1>6. \A x \in Threads : /\ pc'[x] \notin {"wipe", "wait"} => wiped'[x] = 0
                         /\ pc'[x] = "wait" => wiped'[x] < 3
  BY <1>3, <1>4 DEF DataInv
<1>q. QED
  BY <1>2, <1>3, <1>5, <1>6 DEF DataInv

\* ... and clients, who write nothing.
LEMMA DataClient ==
  ASSUME IInv, DataInv, NEW z \in Clients, Client(z)
  PROVE  /\ DataInv' /\ Alone(z)
         /\ UNCHANGED <<job, wiped, found, work, rows, torn>>
         /\ pc[z] \notin {"wipe", "wait", "record"} /\ pc'[z] \notin {"wipe", "wait", "record"}
<1>1. /\ Alone(z) /\ UNCHANGED <<job, wiped, found, work, rows, torn>>
      /\ pc[z] \notin {"wipe", "wait", "record"} /\ pc'[z] \notin {"wipe", "wait", "record", "none"}
      /\ DOMAIN span' = Threads
  BY ClientAlone DEF Client, StatCommon, StatWipe, Query, QueryDone, Disconnect, Call, Goto, taskVars, dbVars,
     DataInv, IInv, TypeInv, Threads, ClientPC
<1>2. \A x \in Threads : pc'[x] = pc[x] \/ x = z
  BY <1>1 DEF Alone
<1>3. z \notin Jobs /\ z \in Threads
  BY ThreadsAssumption DEF Threads
<1>4. DataInv'
  BY <1>1, <1>2, <1>3 DEF DataInv, Threads
<1>q. QED
  BY <1>1, <1>4

-----------------------------------------------------------------------------
\* The step of a thread that is not in a transaction.
LEMMA ConnIdle ==
  ASSUME IInv, SInv, NEW z \in Threads, Alone(z), ~ Writing(z), work' = work
  PROVE  ConnInv'
<1>1. ASSUME NEW n \in Conns, \A x \in Threads : Writing(x)' => ConnOf(x)' # n
      PROVE  DOMAIN work'[n] = {}
  <2>1. ASSUME NEW x \in Threads, Writing(x) PROVE ConnOf(x) # n
    <3>1. x # z
      BY <2>1
    <3>2. ConnOf(x)' = ConnOf(x) /\ Writing(x)'
      BY <2>1, <3>1, OtherConn
    <3>q. QED
      BY <1>1, <3>2
  <2>q. QED
    BY <2>1 DEF SInv, ConnInv
<1>2. \A m, n \in Conns : m # n => DOMAIN work'[m] \cap DOMAIN work'[n] = {}
  BY DEF SInv, ConnInv
<1>q. QED
  BY <1>1, <1>2 DEF ConnInv

\* The step of a thread that is.
LEMMA ConnWriter ==
  ASSUME IInv, SInv, NEW z \in Threads, Alone(z), Writing(z),
         \/ DOMAIN work'[ConnOf(z)] = {}
         \/ Writing(z)' /\ ConnOf(z)' = ConnOf(z),
         \A k \in DOMAIN work'[ConnOf(z)] : k \in DOMAIN work[ConnOf(z)] \/ ~ Locked(ConnOf(z), k)
  PROVE  ConnInv'
<1>1. ASSUME NEW n \in Conns, \A x \in Threads : Writing(x)' => ConnOf(x)' # n
      PROVE  DOMAIN work'[n] = {}
  <2>1. CASE n = ConnOf(z)
    BY <1>1, <2>1
  <2>2. CASE n # ConnOf(z)
    <3>1. ASSUME NEW x \in Threads, Writing(x) PROVE ConnOf(x) # n
      <4>1. CASE x = z
        BY <2>2, <4>1
      <4>2. CASE x # z
        <5>1. ConnOf(x)' = ConnOf(x) /\ Writing(x)'
          BY <3>1, <4>2, OtherConn
        <5>q. QED
          BY <1>1, <5>1
      <4>q. QED
        BY <4>1, <4>2
    <3>2. work'[n] = work[n]
      BY <2>2 DEF Alone
    <3>q. QED
      BY <3>1, <3>2 DEF SInv, ConnInv
  <2>q. QED
    BY <2>1, <2>2
<1>2. ASSUME NEW n \in Conns, n # ConnOf(z)
      PROVE  work'[n] = work[n] /\ DOMAIN work'[ConnOf(z)] \cap DOMAIN work[n] = {}
  BY <1>2, ConnType DEF Alone, Locked, SInv, ConnInv
<1>3. \A m, n \in Conns : m # n => DOMAIN work'[m] \cap DOMAIN work'[n] = {}
  BY <1>2 DEF SInv, ConnInv
<1>q. QED
  BY <1>1, <1>3 DEF ConnInv

\* Most steps do not touch the database.
LEMMA QuietStep ==
  ASSUME IInv, SInv, NEW z \in Threads, Alone(z), ~ Writing(z), ~ Writing(z)',
         UNCHANGED <<work, rows, torn>>, DataInv'
  PROVE  SInv'
<1>1. ConnInv'
  BY ConnIdle
<1>2. RowsInv'
  BY DEF SInv, RowsInv
<1>3. \A j \in Jobs \ {z} : SaveOk(j)'
  BY OthersSame
<1>4. \A x \in Threads \ {z} : WipeOk(x)'
  BY OthersSame
<1>5. WipeOk(z)' /\ (z \in Jobs => SaveOk(z)')
  BY DEF WipeOk, SaveOk, Writing
<1>q. QED
  BY <1>1, <1>2, <1>3, <1>4, <1>5 DEF SInv

\* Nobody writes to the connection of a thread that is about to begin.
LEMMA BeginFree ==
  ASSUME IInv, SInv, NEW z \in Threads, ~ Writing(z), z \notin own => Users = {}
  PROVE  DOMAIN work[ConnOf(z)] = {}
<1>1. ASSUME NEW x \in Threads, Writing(x), ConnOf(x) = ConnOf(z) PROVE FALSE
  <2> USE ThreadsAssumption DEF IInv, TypeInv, Threads, JobPC, ClientPC, Writing, OwnInv
  <2>1. CASE x \in own
    BY <1>1, <2>1 DEF ConnOf
  <2>2. CASE x \notin own
    <3>1. x \in Users
      BY <1>1, <2>2 DEF Users
    <3>q. QED
      BY <1>1, <2>2, <3>1 DEF ConnOf
  <2>q. QED
    BY <2>1, <2>2
<1>q. QED
  BY <1>1, ConnType DEF SInv, ConnInv

\* The steps, one by one.  A wipe begins.
LEMMA BeginStep ==
  ASSUME IInv, SInv, NEW z \in Threads, WipeBegin(z)
  PROVE  SInv'
<1>1. Alone(z) /\ DataInv'
  BY WipeAlone, DataWipe DEF Wipe, SInv
<1>2. /\ pc[z] = "begin" /\ pc'[z] = "wipe" /\ ~ Writing(z) /\ wiped'[z] = 0
      /\ UNCHANGED <<work, rows, torn, own>>
  BY DEF WipeBegin, Goto, Writing, IInv, TypeInv, SInv, DataInv
<1>3. z \notin own => Users = {}
  BY <1>2, LockedQuery DEF WipeBegin
<1>4. DOMAIN work[ConnOf(z)] = {} /\ ConnOf(z)' = ConnOf(z)
  BY <1>2, <1>3, BeginFree DEF ConnOf
<1>5. WipeOk(z)' /\ SaveOk(z)'
  BY <1>2, <1>4 DEF WipeOk, SaveOk
<1>6. ConnInv'
  BY <1>1, <1>2, ConnIdle
<1>7. RowsInv'
  BY <1>2 DEF SInv, RowsInv
<1>8. (\A j \in Jobs \ {z} : SaveOk(j)') /\ \A x \in Threads \ {z} : WipeOk(x)'
  BY <1>1, <1>2, OthersSame
<1>q. QED
  BY <1>1, <1>5, <1>6, <1>7, <1>8 DEF SInv

\* A statement of a wipe finds its rows unlocked and sets them to zero.
LEMMA CleanStep ==
  ASSUME IInv, SInv, NEW z \in Threads, WipeTable(z) \/ WipeResumes(z)
  PROVE  SInv'
<1>1. Alone(z) /\ DataInv'
  BY WipeAlone, DataWipe DEF Wipe, SInv
<1>2. PICK keys : /\ Cleaned(z, keys)
                  /\ \/ pc[z] = "wipe" /\ keys = CleanKeys(ConnOf(z), Tables[wiped[z] + 1], span[z])
                     \/ pc[z] = "wait" /\ keys = found[z]
                  /\ wiped[z] < 3
  BY DEF WipeTable, WipeResumes, SInv, DataInv, Tables
<1>3. PICK n : n = ConnOf(z)
  OBVIOUS
<1>4. /\ pc'[z] = "wipe" /\ Writing(z) /\ Writing(z)' /\ wiped'[z] = wiped[z] + 1 /\ wiped[z] \in 0 .. 2
      /\ UNCHANGED <<rows, torn, own, span>> /\ n \in Conns /\ n = ConnOf(z)'
      /\ ~ \E k \in keys : Locked(n, k)
      /\ work'[n] = Over([k \in keys |-> Zero], work[n])
  BY <1>2, <1>3, ConnType DEF Cleaned, Goto, Writing, IInv, TypeInv, SInv, DataInv, connVars, ConnOf
<1>5. DOMAIN work'[n] = keys \cup DOMAIN work[n]
  BY <1>4 DEF Over
<1>6. \A k \in DOMAIN work'[n] : work'[n][k] = IF k \in keys THEN Zero ELSE work[n][k]
  BY <1>4 DEF Over
<1>7. /\ \A k \in DOMAIN work[n] : k \in DOMAIN rows /\ work[n][k] = Zero /\ Within(k.point, span[z])
      /\ pc[z] = "wait" => \A k \in found[z] : k \in DOMAIN rows /\ Within(k.point, span[z])
      /\ \A k \in DOMAIN rows : Within(k.point, span[z]) /\ k.point \notin torn =>
           \A t \in 1 .. 3 : k.table = Tables[t] =>
             /\ t <= wiped[z] /\ wiped[z] < 3 => k \in DOMAIN work[n]
             /\ pc[z] = "wait" /\ t = wiped[z] + 1 => k \in found[z]
  BY <1>2, <1>3 DEF SInv, WipeOk
<1>8. \A k \in keys : k \in DOMAIN rows /\ Within(k.point, span[z])
  BY <1>2, <1>3, <1>7 DEF CleanKeys
<1>9. ASSUME NEW k \in DOMAIN rows, Within(k.point, span[z]), k.point \notin torn,
             NEW t \in 1 .. 3, k.table = Tables[t], t <= wiped[z] + 1
      PROVE  k \in DOMAIN work'[n]
  <2>1. CASE t <= wiped[z]
    BY <1>2, <1>5, <1>7, <1>9, <2>1
  <2>2. CASE t = wiped[z] + 1
    BY <1>2, <1>3, <1>5, <1>7, <1>9, <2>2 DEF CleanKeys
  <2>q. QED
    BY <1>4, <1>9, <2>1, <2>2
<1>10. ASSUME wiped[z] + 1 = 3, NEW k \in DOMAIN rows, NEW i \in DOMAIN rows, Covers(k, i), k.point \notin torn
       PROVE  i \in DOMAIN work'[n] <=> k \in DOMAIN work'[n]
  <2>1. i.point = k.point /\ KeyOk(i) /\ KeyOk(k)
    BY <1>10 DEF Covers, SInv, RowsInv, RowsOk
  <2>2. \A m \in DOMAIN work'[n] : Within(m.point, span[z])
    BY <1>5, <1>7, <1>8
  <2>3. ASSUME NEW m \in DOMAIN rows, KeyOk(m), Within(m.point, span[z]), m.point \notin torn PROVE m \in DOMAIN work'[n]
    <3>1. PICK t \in 1 .. 3 : m.table = Tables[t]
      <4>1. m.table \in {"unit_stat", "link_stat", "unit_link_stat"}
        BY <2>3 DEF KeyOk
      <4>2. Tables[1] = "unit_stat" /\ Tables[2] = "link_stat" /\ Tables[3] = "unit_link_stat"
        BY DEF Tables
      <4>3. 1 \in 1 .. 3 /\ 2 \in 1 .. 3 /\ 3 \in 1 .. 3
        OBVIOUS
      <4>q. QED
        BY ONLY <4>1, <4>2, <4>3, Zenon
    <3>q. QED
      BY <1>9, <1>10, <2>3, <3>1
  <2>q. QED
    BY <1>10, <2>1, <2>2, <2>3
<1>11. WipeOk(z)'
  <2>1. \A k \in DOMAIN work'[n] : k \in DOMAIN rows /\ work'[n][k] = Zero /\ Within(k.point, span[z])
    BY <1>5, <1>6, <1>7, <1>8
  <2>2. wiped'[z] = wiped[z] + 1 /\ pc'[z] = "wipe" /\ rows' = rows /\ torn' = torn /\ span' = span /\ n = ConnOf(z)'
    BY <1>4
  <2>q. QED
    BY ONLY <1>9, <1>10, <2>1, <2>2 DEF WipeOk
<1>12. SaveOk(z)'
  BY <1>4 DEF SaveOk
<1>13. ConnInv'
  BY <1>1, <1>3, <1>4, <1>5, ConnWriter
<1>14. RowsInv'
  BY <1>4 DEF SInv, RowsInv
<1>15. (\A j \in Jobs \ {z} : SaveOk(j)') /\ \A x \in Threads \ {z} : WipeOk(x)'
  BY <1>1, <1>4, OthersSame
<1>q. QED
  BY <1>1, <1>11, <1>12, <1>13, <1>14, <1>15 DEF SInv

\* A statement of a wipe waits.
LEMMA WaitStep ==
  ASSUME IInv, SInv, NEW z \in Threads, WipeWaits(z)
  PROVE  SInv'
<1>1. Alone(z) /\ DataInv'
  BY WipeAlone, DataWipe DEF Wipe, SInv
<1>2. /\ pc[z] = "wipe" /\ pc'[z] = "wait" /\ Writing(z) /\ Writing(z)' /\ wiped'[z] = wiped[z] /\ wiped[z] < 3
      /\ UNCHANGED <<work, rows, torn, own, span>> /\ ConnOf(z)' = ConnOf(z)
      /\ found'[z] = CleanKeys(ConnOf(z), Tables[wiped[z] + 1], span[z])
  BY DEF WipeWaits, Goto, Writing, IInv, TypeInv, SInv, DataInv, connVars, dbVars, ConnOf, Tables
<1>3. PICK n : n = ConnOf(z)
  OBVIOUS
<1>7. /\ \A k \in DOMAIN work[n] : k \in DOMAIN rows /\ work[n][k] = Zero /\ Within(k.point, span[z])
      /\ \A k \in DOMAIN rows : Within(k.point, span[z]) /\ k.point \notin torn =>
           \A t \in 1 .. 3 : k.table = Tables[t] =>
             (t <= wiped[z] /\ wiped[z] < 3 => k \in DOMAIN work[n])
  BY <1>2, <1>3 DEF SInv, WipeOk
<1>8. /\ \A k \in found'[z] : k \in DOMAIN rows /\ Within(k.point, span[z])
      /\ \A k \in DOMAIN rows : Within(k.point, span[z]) /\ k.table = Tables[wiped[z] + 1] => k \in found'[z]
  BY <1>2, <1>3, <1>7 DEF CleanKeys
<1>9. wiped[z] \in 0 .. 3
  BY DEF SInv, DataInv
<1>10. WipeOk(z)'
  <2>1. /\ wiped'[z] = wiped[z] /\ wiped[z] # 3 /\ pc'[z] = "wait" /\ rows' = rows /\ torn' = torn /\ span' = span
        /\ n = ConnOf(z)' /\ work' = work
    BY <1>2, <1>3
  <2>q. QED
    BY ONLY <1>7, <1>8, <2>1 DEF WipeOk
<1>11. SaveOk(z)'
  BY <1>2 DEF SaveOk
<1>12. ConnInv'
  BY <1>1, <1>2, ConnWriter
<1>13. RowsInv'
  BY <1>2 DEF SInv, RowsInv
<1>14. (\A j \in Jobs \ {z} : SaveOk(j)') /\ \A x \in Threads \ {z} : WipeOk(x)'
  BY <1>1, <1>2, OthersSame
<1>q. QED
  BY <1>1, <1>10, <1>11, <1>12, <1>13, <1>14 DEF SInv

\* A transaction is over and nothing of it stays.
LEMMA RollbackStep ==
  ASSUME IInv, SInv, NEW z \in Threads, Alone(z), DataInv', Writing(z), ~ Writing(z)',
         DbEnd(ConnOf(z), FALSE), torn' = torn
  PROVE  SInv'
<1>1. DOMAIN work'[ConnOf(z)] = {} /\ rows' = rows
  <2>1. work'[ConnOf(z)] = <<>> /\ rows' = rows
    BY ConnType DEF DbEnd, SInv, DataInv
  <2>q. QED
    BY <2>1, EmptyGood
<1>2. ConnInv'
  BY <1>1, ConnWriter
<1>3. RowsInv'
  BY <1>1 DEF SInv, RowsInv
<1>4. (\A j \in Jobs \ {z} : SaveOk(j)') /\ \A x \in Threads \ {z} : WipeOk(x)'
  BY <1>1, OthersSame
<1>5. WipeOk(z)' /\ SaveOk(z)'
  BY DEF WipeOk, SaveOk, Writing
<1>q. QED
  BY <1>2, <1>3, <1>4, <1>5 DEF SInv

\* A wipe is committed, or is not: the rows it set to zero are whole groups.
LEMMA WipeCommitStep ==
  ASSUME IInv, SInv, NEW z \in Threads, WipeCommit(z)
  PROVE  SInv'
<1>1. Alone(z) /\ DataInv'
  BY WipeAlone, DataWipe DEF Wipe, SInv
<1>2. /\ pc[z] = "wipe" /\ Writing(z) /\ ~ Writing(z)' /\ wiped[z] = 3 /\ torn' = torn
      /\ DbEnd(ConnOf(z), TRUE) \/ DbEnd(ConnOf(z), FALSE)
  BY DEF WipeCommit, Goto, Writing, IInv, TypeInv, Tables
<1>3. CASE DbEnd(ConnOf(z), FALSE)
  BY <1>1, <1>2, <1>3, RollbackStep
<1>4. CASE DbEnd(ConnOf(z), TRUE)
  <2>1. PICK W : W = DOMAIN work[ConnOf(z)]
    OBVIOUS
  <2>2. DOMAIN work'[ConnOf(z)] = {} /\ rows' = Over(work[ConnOf(z)], rows)
    <3>1. work'[ConnOf(z)] = <<>> /\ rows' = Over(work[ConnOf(z)], rows)
      BY <1>4, ConnType DEF DbEnd, SInv, DataInv
    <3>q. QED
      BY <3>1, EmptyGood
  <2>3. /\ \A k \in W : k \in DOMAIN rows /\ work[ConnOf(z)][k] = Zero /\ Within(k.point, span[z])
        /\ \A k, i \in DOMAIN rows : Covers(k, i) /\ k.point \notin torn => (i \in W <=> k \in W)
    BY <1>2, <2>1 DEF SInv, WipeOk
  <2>4. DOMAIN rows' = DOMAIN rows
    BY <2>1, <2>2, <2>3 DEF Over
  <2>5. \A k \in DOMAIN rows : rows'[k] = IF k \in W THEN Zero ELSE rows[k]
    BY <2>1, <2>2, <2>3 DEF Over
  <2>6. RowsOk(rows) /\ RowsOk(rows')
    BY <2>4, <2>5 DEF SInv, RowsInv, RowsOk, Zero
  <2>7. ASSUME NEW p, p \notin torn PROVE AgreeAt(rows', p)
    <3>1. \A k, i \in DOMAIN rows : k.point = p /\ Covers(k, i) => (i \in W <=> k \in W)
      BY <2>3, <2>7
    <3>2. AgreeAt(rows, p)
      BY <2>7 DEF SInv, RowsInv
    <3>q. QED
      BY ONLY <2>4, <2>5, <2>6, <3>1, <3>2, ZeroAgree
  <2>8. RowsInv'
    BY <1>2, <2>6, <2>7 DEF RowsInv
  <2>9. ConnInv'
    BY <1>1, <1>2, <2>2, ConnWriter
  <2>10. (\A j \in Jobs \ {z} : SaveOk(j)') /\ \A x \in Threads \ {z} : WipeOk(x)'
    BY <1>1, <1>2, <2>2, OthersWiped
  <2>11. WipeOk(z)' /\ SaveOk(z)'
    BY <1>2 DEF WipeOk, SaveOk, Writing
  <2>q. QED
    BY <1>1, <2>8, <2>9, <2>10, <2>11 DEF SInv
<1>q. QED
  BY <1>2, <1>3, <1>4

\* A save begins, or is given up.
LEMMA SaveBeginStep ==
  ASSUME IInv, SInv, NEW z \in Jobs, SaveBegin(z)
  PROVE  SInv'
<1>1. Alone(z) /\ DataInv' /\ z \in Threads
  BY JobAlone, DataJob DEF Job, SInv, Threads
<1>2. pc[z] = "read" /\ ~ Writing(z) /\ UNCHANGED <<work, rows, torn, own>> /\ z \in own
  BY DEF SaveBegin, Writing, IInv, OwnInv, connVars
<1>3. CASE pc' = [pc EXCEPT ![z] = "out"]
  <2>1. ~ Writing(z)'
    BY <1>1, <1>3 DEF Writing, IInv, TypeInv
  <2>q. QED
    BY <1>1, <1>2, <2>1, QuietStep
<1>4. CASE pc' = [pc EXCEPT ![z] = "record"] /\ job' = [job EXCEPT ![z] = [job[z] EXCEPT !.rest = DOMAIN job[z].pool]]
  <2>1. pc'[z] = "record" /\ job'[z].rest = DOMAIN job[z].pool /\ job'[z].pool = job[z].pool
    BY <1>1, <1>4, InitialJob DEF IInv, TypeInv
  <2>2. DOMAIN work[z] = {}
    <3>1. ConnOf(z) = z
      BY <1>2 DEF ConnOf
    <3>q. QED
      BY <1>1, <1>2, <3>1, BeginFree
  <2>3. SaveOk(z)' /\ WipeOk(z)'
    BY <1>2, <2>1, <2>2 DEF SaveOk, WipeOk
  <2>4. ConnInv'
    BY <1>1, <1>2, ConnIdle
  <2>5. RowsInv'
    BY <1>2 DEF SInv, RowsInv
  <2>6. (\A j \in Jobs \ {z} : SaveOk(j)') /\ \A x \in Threads \ {z} : WipeOk(x)'
    BY <1>1, <1>2, OthersSame
  <2>q. QED
    BY <1>1, <2>3, <2>4, <2>5, <2>6 DEF SInv
<1>q. QED
  BY <1>3, <1>4 DEF SaveBegin, Goto

\* A save adds one record to its row, which nobody else has written.
LEMMA SaveRecordStep ==
  ASSUME IInv, SInv, NEW z \in Jobs, SaveRecord(z)
  PROVE  SInv'
<1>1. Alone(z) /\ DataInv' /\ z \in Threads
  BY JobAlone, DataJob DEF Job, SInv, Threads
<1>2. /\ pc[z] = "record" /\ pc' = pc /\ Writing(z) /\ Writing(z)' /\ UNCHANGED <<rows, torn, own>>
      /\ ConnOf(z) = z /\ ConnOf(z)' = z /\ z \in Conns
  BY <1>1, SaverOwns DEF SaveRecord, Writing, connVars, ConnOf, Conns
<1>3. PICK k \in job[z].rest :
        /\ ~ Locked(z, k)
        /\ work' = [work EXCEPT ![z] = Upserted(z, k, job[z].pool[k])]
        /\ job' = [job EXCEPT ![z] = [job[z] EXCEPT !.rest = job[z].rest \ {k}]]
  BY DEF SaveRecord, NextRecords
<1>4. job'[z].rest = job[z].rest \ {k} /\ job'[z].pool = job[z].pool
  BY <1>1, <1>3, InitialJob DEF IInv, TypeInv
<1>5. /\ job[z].rest \subseteq DOMAIN job[z].pool
      /\ DOMAIN work[z] = DOMAIN job[z].pool \ job[z].rest
      /\ \A i \in DOMAIN work[z] : work[z][i] = Plus(Row(rows, i), job[z].pool[i])
  BY <1>2 DEF SInv, SaveOk
<1>6. work'[z] = Upserted(z, k, job[z].pool[k])
  BY <1>2, <1>3 DEF SInv, DataInv
<1>7. Row(Over(work[z], rows), k) = Row(rows, k)
  BY <1>3, <1>5 DEF Over, Row
<1>8. /\ DOMAIN work'[z] = DOMAIN work[z] \cup {k}
      /\ work'[z][k] = Plus(Row(rows, k), job[z].pool[k])
      /\ \A i \in DOMAIN work[z] : work'[z][i] = work[z][i]
  <2>1. work'[z] = Over([i \in {k} |-> Plus(Row(rows, k), job[z].pool[k])], work[z])
    BY <1>6, <1>7 DEF Upserted
  <2>2. k \notin DOMAIN work[z]
    BY <1>3, <1>5
  <2>q. QED
    BY <2>1, <2>2 DEF Over
<1>9. SaveOk(z)'
  <2>1. DOMAIN work'[z] = DOMAIN job'[z].pool \ job'[z].rest /\ job'[z].rest \subseteq DOMAIN job'[z].pool
    BY <1>3, <1>4, <1>5, <1>8
  <2>2. \A i \in DOMAIN work'[z] : work'[z][i] = Plus(Row(rows', i), job'[z].pool[i])
    BY <1>2, <1>4, <1>5, <1>8
  <2>q. QED
    BY <2>1, <2>2 DEF SaveOk
<1>10. WipeOk(z)'
  BY <1>2 DEF WipeOk
<1>11. ConnInv'
  <2>1. \A i \in DOMAIN work'[z] : i \in DOMAIN work[z] \/ ~ Locked(z, i)
    BY <1>3, <1>8
  <2>q. QED
    BY <1>1, <1>2, <2>1, ConnWriter
<1>12. RowsInv'
  BY <1>2 DEF SInv, RowsInv
<1>13. (\A j \in Jobs \ {z} : SaveOk(j)') /\ \A x \in Threads \ {z} : WipeOk(x)'
  BY <1>1, <1>2, OthersSame
<1>q. QED
  BY <1>1, <1>9, <1>10, <1>11, <1>12, <1>13 DEF SInv

\* A save is committed or rolled back.
LEMMA SaveEndStep ==
  ASSUME IInv, SInv, NEW z \in Jobs, SaveCommit(z) \/ SaveRollback(z)
  PROVE  SInv'
<1>1. Alone(z) /\ DataInv' /\ z \in Threads
  BY JobAlone, DataJob DEF Job, SInv, Threads
<1>2. pc[z] = "record" /\ Writing(z) /\ ~ Writing(z)' /\ ConnOf(z) = z /\ z \in Conns
  BY <1>1, SaverOwns DEF SaveCommit, SaveRollback, Goto, Writing, IInv, TypeInv, Conns
<1>3. CASE DbEnd(z, FALSE) /\ torn' = torn
  BY <1>1, <1>2, <1>3, RollbackStep
<1>4. CASE /\ DbEnd(z, TRUE) /\ job[z].rest = {}
           /\ torn' = torn \cup {p \in {k.point : k \in DOMAIN work[z]} : BeingWiped(p)}
  <2>1. DOMAIN work'[z] = {} /\ rows' = Over(work[z], rows)
    <3>1. work'[z] = <<>> /\ rows' = Over(work[z], rows)
      BY <1>2, <1>4 DEF DbEnd, SInv, DataInv
    <3>q. QED
      BY <3>1, EmptyGood
  <2>2. Together(rows', rows, job[z].pool)
    BY <1>2, <1>4, <2>1, SaveAdds
  <2>3. RowsOk(rows) /\ Good(job[z].pool) /\ RowsOk(job[z].pool)
    BY DEF SInv, RowsInv, DataInv, JobOk, Good
  <2>4. RowsOk(rows')
    BY <2>2, <2>3, TogetherFields
  <2>5. ASSUME NEW p, p \notin torn' PROVE AgreeAt(rows', p)
    <3>1. AgreeAt(rows, p) /\ AgreeAt(job[z].pool, p)
      BY <1>4, <2>3, <2>5 DEF SInv, RowsInv, Good
    <3>q. QED
      BY ONLY <2>2, <2>3, <3>1, TogetherAgree
  <2>6. RowsInv'
    BY <2>4, <2>5 DEF RowsInv
  <2>7. ConnInv'
    BY <1>1, <1>2, <2>1, ConnWriter
  <2>8. (\A j \in Jobs \ {z} : SaveOk(j)') /\ \A x \in Threads \ {z} : WipeOk(x)'
    BY <1>1, <1>2, <1>4, <2>1, OthersSaved
  <2>9. WipeOk(z)' /\ SaveOk(z)'
    BY <1>2 DEF WipeOk, SaveOk, Writing
  <2>q. QED
    BY <1>1, <2>6, <2>7, <2>8, <2>9 DEF SInv
<1>q. QED
  BY <1>3, <1>4 DEF SaveCommit, SaveRollback

\* All steps of a wipe.
LEMMA WipeStep ==
  ASSUME IInv, SInv, NEW z \in Threads, Wipe(z)
  PROVE  SInv'
<1>1. CASE WipeBeginFails(z)
  <2>1. Alone(z) /\ DataInv'
    BY WipeAlone, DataWipe DEF Wipe, SInv
  <2>2. ~ Writing(z) /\ ~ Writing(z)' /\ UNCHANGED <<work, rows, torn>>
    BY <1>1 DEF WipeBeginFails, WipeFailed, Ended, Goto, Writing, IInv, TypeInv, dbVars
  <2>q. QED
    BY <2>1, <2>2, QuietStep
<1>2. CASE WipeRollback(z)
  <2>1. Alone(z) /\ DataInv'
    BY WipeAlone, DataWipe DEF Wipe, SInv
  <2>2. Writing(z) /\ ~ Writing(z)' /\ DbEnd(ConnOf(z), FALSE) /\ torn' = torn
    BY <1>2 DEF WipeRollback, WipeFailed, Ended, Goto, Writing, IInv, TypeInv
  <2>q. QED
    BY <2>1, <2>2, RollbackStep
<1>q. QED
  BY <1>1, <1>2, BeginStep, CleanStep, WaitStep, WipeCommitStep DEF Wipe

\* All steps of a task.
LEMMA JobStep ==
  ASSUME IInv, SInv, NEW z \in Jobs, Job(z)
  PROVE  SInv'
<1>1. Alone(z) /\ DataInv' /\ z \in Threads
  BY JobAlone, DataJob DEF SInv, Threads
<1>2. CASE ~ Writing(z) /\ ~ Writing(z)' /\ UNCHANGED <<work, rows, torn>>
  BY <1>1, <1>2, QuietStep
<1>3. CASE SaveBegin(z) \/ SaveRecord(z) \/ SaveRollback(z) \/ SaveCommit(z)
  BY <1>3, SaveBeginStep, SaveRecordStep, SaveEndStep
<1>4. CASE OpenNext(z)
  BY <1>1, <1>2, <1>4 DEF OpenNext, Polled, Goto, Writing, IInv, TypeInv, dbVars
<1>5. CASE ~ OpenNext(z)
  BY <1>1, <1>2, <1>3, <1>5 DEF Job, Create, CreateFails, InitHook, InitFails, NoMoreFiles, ReadFlow, SaveOut,
    FiniHook, Ended, Polled, Goto, Writing, IInv, TypeInv, dbVars
<1>q. QED
  BY <1>4, <1>5

\* All steps.
LEMMA SInvStep == IInv /\ SInv /\ [Next]_vars => SInv'
<1> SUFFICES ASSUME IInv, SInv, [Next]_vars PROVE SInv'
  OBVIOUS
<1>1. ASSUME NEW x \in Threads, Wipe(x) PROVE SInv'
  BY <1>1, WipeStep
<1>2. ASSUME NEW j \in Jobs, Job(j) PROVE SInv'
  BY <1>2, JobStep
<1>3. ASSUME NEW c \in Clients, Client(c) PROVE SInv'
  <2>1. DataInv
    BY DEF SInv
  <2>2. /\ DataInv' /\ Alone(c) /\ UNCHANGED <<job, wiped, found, work, rows, torn>>
        /\ pc[c] \notin {"wipe", "wait", "record"} /\ pc'[c] \notin {"wipe", "wait", "record"}
    BY <1>3, <2>1, DataClient
  <2>3. c \in Threads /\ ~ Writing(c) /\ ~ Writing(c)'
    BY <2>2 DEF Threads, Writing
  <2>q. QED
    BY <2>2, <2>3, QuietStep
<1>4. CASE UNCHANGED vars
  BY <1>4 DEF vars, taskVars, connVars, dbVars, SInv, DataInv, ConnInv, RowsInv, SaveOk, WipeOk, Writing, ConnOf
<1>q. QED
  BY <1>1, <1>2, <1>3, <1>4 DEF Next

\* At first the tables hold what was counted before the daemon started.
LEMMA SInvInit == Init => SInv
<1> SUFFICES ASSUME Init PROVE SInv
  OBVIOUS
<1>1. DataInv
  <2>1. \A j \in Jobs : job[j] = NoJob
    BY DEF Init
  <2>2. \A j \in Jobs : JobOk(job[j]) /\ job[j].cur = 0
    BY <2>1, NoJobOk DEF NoJob
  <2>3. /\ DOMAIN span = Threads /\ DOMAIN found = Threads /\ DOMAIN work = Conns
        /\ wiped = [x \in Threads |-> 0]
        /\ \A x \in Threads : pc[x] \in {"none", "idle"}
    BY DEF Init
  <2>q. QED
    BY <2>2, <2>3 DEF DataInv
<1>2. ConnInv
  <2>1. \A n \in Conns : DOMAIN work[n] = {}
    BY EmptyGood DEF Init
  <2>q. QED
    BY <2>1 DEF ConnInv
<1>3. RowsInv
  <2>1. rows = CountFiles(Before, None) /\ Before \in Seq(DOMAIN Files)
    BY FilesAssumption DEF Init
  <2>2. Good(rows)
    BY <2>1, FilesGood
  <2>q. QED
    BY <2>2 DEF RowsInv, Good
<1>4. (\A j \in Jobs : SaveOk(j)) /\ \A x \in Threads : WipeOk(x)
  <2>1. \A x \in Threads : pc[x] \in {"none", "idle"}
    BY DEF Init
  <2>q. QED
    BY <2>1 DEF SaveOk, WipeOk, Threads
<1>q. QED
  BY <1>1, <1>2, <1>3, <1>4 DEF SInv

\* The invariant of the tables holds always.
LEMMA SInvHolds == Spec => [](IInv /\ SInv)
<1>1. Spec => []IInv
  BY IInvHolds
<1>q. QED
  BY <1>1, SInvInit, SInvStep, PTL DEF Spec

\* The three tables agree at every hour that no save was committed into the middle of a wipe
\* of (mbb_stat_pool_save, mbb_stat_db_wipe): for any files, any number of tasks and clients,
\* and whatever fails, is cancelled or waits.
THEOREM StatTablesAgree == Spec => []TablesAgree
<1>1. SInv => TablesAgree
  <2> SUFFICES ASSUME SInv PROVE TablesAgree
    OBVIOUS
  <2>1. RowsOk(rows)
    BY DEF SInv, RowsInv
  <2>2. \A S \in SUBSET DOMAIN rows : IsFiniteSet(S)
    BY <2>1, FS_Subset DEF RowsOk
  <2>3. \A S \in SUBSET DOMAIN rows : Total(S) = <<SumOf(Column(rows, "in"), S), SumOf(Column(rows, "out"), S)>>
    BY <2>2, TotalIs
  <2>4. ASSUME NEW k \in DOMAIN rows, k.table # "unit_link_stat", k.point \notin torn
        PROVE  Total({k}) = Total(Parts(rows, k))
    <3>1. ASSUME NEW c \in Fields PROVE SumOf(Column(rows, c), {k}) = SumOf(Column(rows, c), Parts(rows, k))
      <4>1. AgreeAt(rows, k.point)
        BY <2>4 DEF SInv, RowsInv
      <4>2. rows[k][c] = SumOf(Column(rows, c), Parts(rows, k))
        BY <2>4, <4>1 DEF AgreeAt
      <4>3. PICK v : v = Column(rows, c)
        OBVIOUS
      <4>4. v[k] = rows[k][c] /\ rows[k][c] \in Int
        BY <2>1, <4>3 DEF Column, RowsOk, Fields
      <4>5. SumOf(v, {k}) = v[k] + SumOf(v, {k} \ {k})
        <5>1. IsFiniteSet({k}) /\ (\A x \in {k} : v[x] \in Int) /\ k \in {k}
          BY <4>4, FS_Singleton
        <5>q. QED
          BY ONLY <5>1, SumAny
      <4>6. SumOf(v, {k} \ {k}) = 0
        <5>1. {k} \ {k} = {}
          OBVIOUS
        <5>q. QED
          BY <5>1, SumEmpty
      <4>q. QED
        BY <4>2, <4>3, <4>4, <4>5, <4>6
    <3>2. {k} \in SUBSET DOMAIN rows /\ Parts(rows, k) \in SUBSET DOMAIN rows
      BY DEF Parts
    <3>3. /\ Total({k}) = <<SumOf(Column(rows, "in"), {k}), SumOf(Column(rows, "out"), {k})>>
          /\ Total(Parts(rows, k)) = <<SumOf(Column(rows, "in"), Parts(rows, k)), SumOf(Column(rows, "out"), Parts(rows, k))>>
      BY ONLY <2>3, <3>2
    <3>4. "in" \in Fields /\ "out" \in Fields
      BY DEF Fields
    <3>q. QED
      BY ONLY <3>1, <3>3, <3>4
  <2> DEFINE both == {k \in RowsOf("unit_link_stat") : k.point \notin torn}
  <2>5. ASSUME NEW k \in RowsOf("unit_stat"), k.point \notin torn
        PROVE  Parts(rows, k) = {i \in both : i.unit = k.unit /\ i.point = k.point}
    BY <2>5 DEF Parts, RowsOf, Covers
  <2>6. ASSUME NEW k \in RowsOf("link_stat"), k.point \notin torn
        PROVE  Parts(rows, k) = {i \in both : i.link = k.link /\ i.point = k.point}
    BY <2>6 DEF Parts, RowsOf, Covers
  <2>7. ASSUME NEW i \in both PROVE \E k \in RowsOf("unit_stat") : i.unit = k.unit /\ i.point = k.point
    <3>1. AgreeAt(rows, i.point) /\ i \in DOMAIN rows /\ i.table = "unit_link_stat"
      BY DEF SInv, RowsInv, RowsOf
    <3>2. PICK k \in DOMAIN rows : k.table = "unit_stat" /\ Covers(k, i)
      BY <3>1 DEF AgreeAt
    <3>q. QED
      BY <3>2 DEF RowsOf, Covers
  <2>8. \A k \in RowsOf("unit_stat") : k.point \notin torn =>
          Total({k}) = Total({i \in both : i.unit = k.unit /\ i.point = k.point})
    BY <2>4, <2>5 DEF RowsOf
  <2>9. \A k \in RowsOf("link_stat") : k.point \notin torn =>
          Total({k}) = Total({i \in both : i.link = k.link /\ i.point = k.point})
    BY <2>4, <2>6 DEF RowsOf
  <2>q. QED
    BY <2>7, <2>8, <2>9 DEF TablesAgree
<1>q. QED
  BY <1>1, SInvHolds, PTL

-----------------------------------------------------------------------------
(* Counting is additive, and whole hours hold whole hours.                 *)

\* A row, or the zero of a missing one, is a pair of integers.
LEMMA RowType == ASSUME NEW f, RowsOk(f), NEW k PROVE Row(f, k) \in [in : Int, out : Int]
  BY DEF RowsOk, Row, Zero

\* Two lots of rows together add up in every row, missing ones included.
LEMMA TogetherRow ==
  ASSUME NEW f, NEW g, NEW h, RowsOk(f), RowsOk(g), Together(h, f, g), NEW k
  PROVE  Row(h, k) = Plus(Row(f, k), Row(g, k))
<1>1. CASE k \in DOMAIN h
  BY <1>1 DEF Together, Row
<1>2. CASE k \notin DOMAIN h
  BY <1>2 DEF Together, Row, Plus, Zero
<1>q. QED
  BY <1>1, <1>2

\* The order of additions does not matter.
LEMMA PlusAssoc ==
  ASSUME NEW a \in [in : Int, out : Int], NEW b \in [in : Int, out : Int], NEW c \in [in : Int, out : Int]
  PROVE  Plus(Plus(a, b), c) = Plus(a, Plus(b, c))
  BY DEF Plus

\* An entry counted on top of f and g together is one counted on top of g.
LEMMA FeedAdds ==
  ASSUME NEW f, NEW g, NEW h, RowsOk(f), RowsOk(g), RowsOk(h), Together(h, f, g), NEW entry, EntryOk(entry)
  PROVE  /\ Together(StatFeed(h, entry), f, StatFeed(g, entry))
         /\ RowsOk(StatFeed(h, entry)) /\ RowsOk(StatFeed(g, entry))
<1>1. PICK s : s = Single(entry)
  OBVIOUS
<1>2. RowsOk(s)
  BY <1>1, SingleGood DEF Good
<1>3. PICK a : a = StatFeed(h, entry)
  OBVIOUS
<1>4. PICK b : b = StatFeed(g, entry)
  OBVIOUS
<1>5. Together(a, h, s) /\ Together(b, g, s)
  BY <1>1, <1>3, <1>4, FeedTogether
<1>6. RowsOk(a) /\ RowsOk(b)
  BY <1>2, <1>5, TogetherFields
<1>7. DOMAIN a = DOMAIN f \cup DOMAIN b
  BY <1>5 DEF Together
<1>8. ASSUME NEW k \in DOMAIN a PROVE a[k] = Plus(Row(f, k), Row(b, k))
  <2>1. a[k] = Plus(Row(h, k), Row(s, k))
    BY <1>5 DEF Together
  <2>2. Row(h, k) = Plus(Row(f, k), Row(g, k))
    BY TogetherRow
  <2>3. Row(b, k) = Plus(Row(g, k), Row(s, k))
    BY <1>2, <1>5, TogetherRow
  <2>4. /\ Row(f, k) \in [in : Int, out : Int] /\ Row(g, k) \in [in : Int, out : Int]
        /\ Row(s, k) \in [in : Int, out : Int]
    BY <1>2, RowType
  <2>5. Plus(Plus(Row(f, k), Row(g, k)), Row(s, k)) = Plus(Row(f, k), Plus(Row(g, k), Row(s, k)))
    BY ONLY <2>4, PlusAssoc
  <2>q. QED
    BY <2>1, <2>2, <2>3, <2>5
<1>9. Together(a, f, b)
  BY <1>7, <1>8 DEF Together
<1>q. QED
  BY <1>3, <1>4, <1>6, <1>9

\* The same of a flow.
LEMMA FlowAdds ==
  ASSUME NEW f, NEW g, NEW h, RowsOk(f), RowsOk(g), RowsOk(h), Together(h, f, g), NEW x \in Flows, NEW period
  PROVE  /\ Together(CountFlow(h, x, period), f, CountFlow(g, x, period))
         /\ RowsOk(CountFlow(h, x, period)) /\ RowsOk(CountFlow(g, x, period))
<1> DEFINE Entry(u, l, in, out) == [point |-> x.begin, unit |-> u, link |-> l, in |-> in, out |-> out]
           Source(e) == IF x.una # None /\ x.unb \notin Local /\ x.output # None
                          THEN StatFeed(e, Entry(x.una, x.output, 0, x.nbytes)) ELSE e
           Target(e) == IF x.unb # None /\ x.una \notin Local /\ x.input # None
                          THEN StatFeed(e, Entry(x.unb, x.input, x.nbytes, 0)) ELSE e
<1>1. EntryOk(Entry(x.una, x.output, 0, x.nbytes)) /\ EntryOk(Entry(x.unb, x.input, x.nbytes, 0))
  BY FilesAssumption DEF EntryOk
<1>2. \A e : ProcessFlow(e, x) = Target(Source(e))
  BY DEF ProcessFlow
<1> HIDE DEF Entry
<1>3. Together(Source(h), f, Source(g)) /\ RowsOk(Source(h)) /\ RowsOk(Source(g))
  BY <1>1, FeedAdds
<1>4. PICK a : a = Source(h)
  OBVIOUS
<1>5. PICK b : b = Source(g)
  OBVIOUS
<1> HIDE DEF Source
<1>6. Together(Target(a), f, Target(b)) /\ RowsOk(Target(a)) /\ RowsOk(Target(b))
  BY <1>1, <1>3, <1>4, <1>5, FeedAdds
<1>7. ProcessFlow(h, x) = Target(a) /\ ProcessFlow(g, x) = Target(b)
  BY <1>2, <1>4, <1>5
<1> HIDE DEF Target
<1>q. QED
  BY <1>6, <1>7 DEF CountFlow

\* Nothing adds nothing.
LEMMA EmptyTogether == ASSUME NEW f, RowsOk(f) PROVE Together(f, f, <<>>)
<1>1. DOMAIN <<>> = {}
  BY EmptyGood
<1>2. ASSUME NEW k \in DOMAIN f PROVE f[k] = Plus(Row(f, k), Row(<<>>, k))
  <2>1. Row(f, k) = f[k] /\ Row(<<>>, k) = Zero /\ f[k] \in [in : Int, out : Int]
    BY <1>1 DEF Row, RowsOk
  <2>2. Plus(f[k], Zero) = f[k]
    BY <2>1, PlusZero
  <2>q. QED
    BY <2>1, <2>2
<1>q. QED
  BY <1>1, <1>2 DEF Together

\* A file counts the same, whatever was counted before.
LEMMA FlowsAdd ==
  ASSUME NEW f, RowsOk(f), NEW flows \in Seq(Flows), NEW period
  PROVE  Together(CountFlows(f, flows, period), f, CountFlows(<<>>, flows, period))
<1>1. PICK c : c = FlowsCounted(f, flows, period)
  OBVIOUS
<1>2. PICK d : d = FlowsCounted(<<>>, flows, period)
  OBVIOUS
<1>3. Len(flows) \in Nat /\ \A m \in 0 .. Len(flows) : m < Len(flows) => flows[m + 1] \in Flows
  OBVIOUS
<1>4. /\ CountFlows(f, flows, period) = c[Len(flows)]
      /\ c[0] = f /\ \A m \in 0 .. Len(flows) : m < Len(flows) => c[m + 1] = CountFlow(c[m], flows[m + 1], period)
  BY <1>1, <1>3, CountFlowsSteps
<1>5. /\ CountFlows(<<>>, flows, period) = d[Len(flows)]
      /\ d[0] = <<>> /\ \A m \in 0 .. Len(flows) : m < Len(flows) => d[m + 1] = CountFlow(d[m], flows[m + 1], period)
  BY <1>2, <1>3, CountFlowsSteps
<1>6. PICK T : T = {m \in 0 .. Len(flows) : Together(c[m], f, d[m]) /\ RowsOk(c[m]) /\ RowsOk(d[m])}
  OBVIOUS
<1>7. 0 \in T
  BY <1>3, <1>4, <1>5, <1>6, EmptyTogether, EmptyGood DEF Good
<1>8. ASSUME NEW m \in 0 .. Len(flows), m < Len(flows), m \in T PROVE m + 1 \in T
  <2>1. PICK x \in Flows : x = flows[m + 1]
    BY <1>3, <1>8
  <2>2. Together(c[m], f, d[m]) /\ RowsOk(c[m]) /\ RowsOk(d[m])
    BY <1>6, <1>8
  <2>3. /\ Together(CountFlow(c[m], x, period), f, CountFlow(d[m], x, period))
        /\ RowsOk(CountFlow(c[m], x, period)) /\ RowsOk(CountFlow(d[m], x, period))
    BY <2>2, FlowAdds
  <2>q. QED
    BY <1>3, <1>4, <1>5, <1>6, <1>8, <2>1, <2>3
<1>9. \A m \in 0 .. Len(flows) : m \in T
  BY ONLY <1>3, <1>7, <1>8, Climb
<1>10. Len(flows) \in 0 .. Len(flows)
  BY <1>3
<1>11. Len(flows) \in T
  BY <1>9, <1>10
<1>q. QED
  BY <1>4, <1>5, <1>6, <1>11

-----------------------------------------------------------------------------
\* A time is a number of hours and a rest.
LEMMA Division == ASSUME NEW t \in Int PROVE \E q \in Int, r \in 0 .. Hour - 1 : t = Hour * q + r /\ t % Hour = r
<1>1. Hour \in Nat \ {0}
  BY TimeAssumption
<1>2. t % Hour \in 0 .. Hour - 1 /\ t \div Hour \in Int
  BY <1>1
<1>3. t = Hour * (t \div Hour) + (t % Hour)
  BY <1>1
<1>q. QED
  BY <1>2, <1>3

\* An hour of the tables that a flow of the period falls into is in the period, when the
\* period is made of such hours.
LEMMA HourWithin ==
  ASSUME NEW t \in Int, NEW s \in Int, NEW e \in Int, s % Hour = 0, e % Hour = 0, s <= t, t < e
  PROVE  s <= t - (t % Hour) /\ t - (t % Hour) < e
<1>1. Hour \in Nat \ {0}
  BY TimeAssumption
<1>2. PICK q \in Int, r \in 0 .. Hour - 1 : t = Hour * q + r /\ t % Hour = r
  BY Division
<1>3. PICK p \in Int : s = Hour * p
  BY <1>1, Division
<1>4. t - (t % Hour) = Hour * q
  BY <1>1, <1>2
<1>5. p <= q
  <2>1. SUFFICES ASSUME p >= q + 1 PROVE FALSE
    OBVIOUS
  <2>2. Hour * p >= Hour * (q + 1)
    BY <1>1, <2>1
  <2>3. Hour * (q + 1) = Hour * q + Hour
    BY <1>1
  <2>q. QED
    BY <1>1, <1>2, <1>3, <2>2, <2>3
<1>6. Hour * p <= Hour * q
  BY <1>1, <1>5
<1>7. t % Hour \in 0 .. Hour - 1
  BY <1>1, <1>2
<1>q. QED
  BY <1>1, <1>3, <1>4, <1>6, <1>7

\* The hours that a flow is counted for.
LEMMA FlowPoints ==
  ASSUME NEW f, NEW x \in Flows, NEW period, NEW k \in DOMAIN CountFlow(f, x, period)
  PROVE  \/ k \in DOMAIN f
         \/ k.point = ExtractHour(x.begin) /\ (period = None \/ Within(x.begin, period))
<1>1. ASSUME NEW g, NEW entry, NEW i \in DOMAIN StatFeed(g, entry)
      PROVE  i \in DOMAIN g \/ i.point = ExtractHour(entry.point)
  <2>1. DOMAIN StatFeed(g, entry) = DOMAIN g \cup {Key(Tables[1], entry), Key(Tables[2], entry), Key(Tables[3], entry)}
    BY DEF StatFeed, RecUpdate
  <2>2. \A t \in {1, 2, 3} : Key(Tables[t], entry).point = ExtractHour(entry.point)
    BY DEF Key
  <2>q. QED
    BY <1>1, <2>1, <2>2
<1> DEFINE Entry(u, l, in, out) == [point |-> x.begin, unit |-> u, link |-> l, in |-> in, out |-> out]
           Source(e) == IF x.una # None /\ x.unb \notin Local /\ x.output # None
                          THEN StatFeed(e, Entry(x.una, x.output, 0, x.nbytes)) ELSE e
           Target(e) == IF x.unb # None /\ x.una \notin Local /\ x.input # None
                          THEN StatFeed(e, Entry(x.unb, x.input, x.nbytes, 0)) ELSE e
<1>2. ProcessFlow(f, x) = Target(Source(f))
  BY DEF ProcessFlow
<1>3. Entry(x.una, x.output, 0, x.nbytes).point = x.begin /\ Entry(x.unb, x.input, x.nbytes, 0).point = x.begin
  OBVIOUS
<1> HIDE DEF Entry
<1>4. \A e : \A i \in DOMAIN Source(e) : i \in DOMAIN e \/ i.point = ExtractHour(x.begin)
  BY <1>1, <1>3
<1>5. \A e : \A i \in DOMAIN Target(e) : i \in DOMAIN e \/ i.point = ExtractHour(x.begin)
  BY <1>1, <1>3
<1> HIDE DEF Source, Target
<1>6. \A i \in DOMAIN ProcessFlow(f, x) : i \in DOMAIN f \/ i.point = ExtractHour(x.begin)
  BY <1>2, <1>4, <1>5
<1>q. QED
  BY <1>6 DEF CountFlow

-----------------------------------------------------------------------------
(* What an update leaves: the inductive invariant.                         *)

\* A period of numbers.
PeriodOk(p) == p.start \in Int /\ p.end \in Int

\* The pool of an update of whole hours has nothing outside its period.
PoolIn(j) ==
  /\ pc[j] = "none" => DOMAIN job[j].pool = {}
  /\ job[j].kind = "update" => span[j] # None
  /\ job[j].kind = "update" /\ Aligned(span[j]) => \A k \in DOMAIN job[j].pool : Within(k.point, span[j])

\* In the period, the tables hold what f does.
SameRows(j, f) == \A k : Within(k.point, span[j]) => Row(rows, k) = Row(f, k)

\* What the files of the task hold, file by file.
Held(j) == FilesCounted(job[j].files, span[j])

\* A task has counted the flows of its file up to those it has still to read.
Reading(r, period, file) ==
  \E i \in 0 .. Len(file) :
    /\ i + Len(r.flow) = Len(file)
    /\ \A m \in 1 .. Len(r.flow) : r.flow[m] = file[i + m]
    /\ r.pool = FlowsCounted(<<>>, file, period)[i]

\* An update that nothing happened to: its wipe has found all rows of the period, and from
\* then on the tables hold what the files it is done with do.
CleanOk(j) ==
  j \in clean =>
    /\ pc[j] \in {"wipe", "wait", "open", "read", "record", "out", "fini"}
    /\ job[j].kind = "update" =>
         /\ pc[j] \in {"wipe", "wait"} =>
              \A k \in DOMAIN rows : Within(k.point, span[j]) =>
                \A t \in 1 .. 3 : k.table = Tables[t] =>
                  /\ t <= wiped[j] => k \in DOMAIN work[j]
                  /\ pc[j] = "wait" /\ t = wiped[j] + 1 => k \in found[j]
         /\ pc[j] \in {"open", "out"} => SameRows(j, Held(j)[job[j].cur])
         /\ pc[j] \in {"read", "record"} =>
              /\ job[j].cur # 0 /\ SameRows(j, Held(j)[job[j].cur - 1])
              /\ Reading(job[j], span[j], Files[job[j].files[job[j].cur]])
         /\ pc[j] = "record" => job[j].flow = <<>>
         /\ pc[j] = "fini" => j \in cancel \/ SameRows(j, Held(j)[Len(job[j].files)])

\* The inductive invariant of UpdateExact.
UInv ==
  /\ \A x \in Threads : PeriodOk(span[x])
  /\ \A j \in Jobs : PoolIn(j) /\ CleanOk(j)

-----------------------------------------------------------------------------
\* A step of z takes nothing back of what it makes of other updates: who is still
\* undisturbed was so, and its period is as it was.
Spared(z) ==
  \A j \in Jobs \ {z} :
    /\ j \in clean' => j \in clean
    /\ j \in cancel => j \in cancel'
    /\ j \in clean' => \/ rows' = rows
                       \/ \E n \in Conns : /\ rows' = Over(work[n], rows)
                                           /\ \A k \in DOMAIN work[n] : ~ Within(k.point, span[j])

\* A wipe spares the updates whose period it leaves alone ...
LEMMA WipeSpared ==
  ASSUME IInv, NEW z \in Threads, Wipe(z)
  PROVE  Spared(z)
<1> USE DEF Spared
<1>1. CASE WipeCommit(z)
  <2>1. cancel' = cancel
    BY <1>1 DEF WipeCommit, taskVars
  <2>2. CASE DbEnd(ConnOf(z), TRUE) /\ clean' = clean \ (Disturbed(ConnOf(z)) \ {z})
    BY <2>1, <2>2, ConnType DEF DbEnd, Disturbed
  <2>3. CASE DbEnd(ConnOf(z), FALSE) /\ clean' = clean \ {z}
    BY <2>1, <2>3 DEF DbEnd
  <2>q. QED
    BY <1>1, <2>2, <2>3 DEF WipeCommit
<1>2. CASE WipeBegin(z) \/ WipeBeginFails(z)
  BY <1>2 DEF WipeBegin, WipeBeginFails, WipeFailed, Ended, taskVars, dbVars
<1>3. CASE WipeTable(z) \/ WipeWaits(z) \/ WipeResumes(z)
  BY <1>3 DEF WipeTable, WipeWaits, WipeResumes, Cleaned, taskVars, dbVars
<1>4. CASE WipeRollback(z)
  BY <1>4 DEF WipeRollback, WipeFailed, Ended, DbEnd
<1>q. QED
  BY <1>1, <1>2, <1>3, <1>4 DEF Wipe

\* ... and so does a task.
LEMMA JobSpared ==
  ASSUME IInv, NEW z \in Jobs, Job(z)
  PROVE  Spared(z)
<1> USE DEF Spared
<1>1. CASE SaveCommit(z)
  <2>1. cancel' = cancel /\ z \in Conns
    BY <1>1 DEF SaveCommit, taskVars, Conns, Threads
  <2>2. CASE DbEnd(z, TRUE) /\ clean' = clean \ (Disturbed(z) \ {z})
    BY <2>1, <2>2 DEF DbEnd, Disturbed
  <2>3. CASE DbEnd(z, FALSE) /\ clean' = clean \ {z}
    BY <2>1, <2>3 DEF DbEnd
  <2>q. QED
    BY <1>1, <2>2, <2>3 DEF SaveCommit
<1>2. CASE Create(z) \/ CreateFails(z) \/ InitHook(z) \/ InitFails(z)
  BY <1>2 DEF Create, CreateFails, InitHook, InitFails, Ended, dbVars
<1>3. CASE OpenNext(z)
  BY <1>3 DEF OpenNext, Polled, Poll, dbVars
<1>4. CASE NoMoreFiles(z) \/ ReadFlow(z)
  BY <1>4 DEF NoMoreFiles, ReadFlow, Polled, Poll, taskVars, dbVars
<1>5. CASE SaveBegin(z) \/ SaveRecord(z)
  BY <1>5 DEF SaveBegin, SaveRecord
<1>6. CASE SaveRollback(z)
  BY <1>6 DEF SaveRollback, DbEnd
<1>7. CASE SaveOut(z) \/ FiniHook(z)
  BY <1>7 DEF SaveOut, FiniHook, Ended, Polled, Poll, dbVars
<1>q. QED
  BY <1>1, <1>2, <1>3, <1>4, <1>5, <1>6, <1>7 DEF Job

\* What a step spares keeps its invariant.
LEMMA OthersClean ==
  ASSUME IInv, SInv, UInv, NEW z \in Threads, Alone(z), Spared(z), Writing(z) \/ work' = work,
         NEW j \in Jobs \ {z}
  PROVE  PoolIn(j)' /\ CleanOk(j)'
<1>1. /\ j \in Threads /\ pc'[j] = pc[j] /\ wiped'[j] = wiped[j] /\ found'[j] = found[j]
      /\ span'[j] = span[j] /\ job'[j] = job[j]
  BY DEF Alone, Threads
<1>2. PoolIn(j)'
  BY <1>1 DEF UInv, PoolIn
<1>3. SUFFICES ASSUME j \in clean' PROVE CleanOk(j)'
  BY <1>2 DEF CleanOk
<1>4. j \in clean /\ CleanOk(j)
  BY <1>3 DEF Spared, UInv
<1>5. /\ \A k : Within(k.point, span[j]) => Row(rows', k) = Row(rows, k)
      /\ \A k \in DOMAIN rows' : Within(k.point, span[j]) => k \in DOMAIN rows
  <2>1. CASE rows' = rows
    BY <2>1
  <2>2. ASSUME NEW n \in Conns, rows' = Over(work[n], rows), \A k \in DOMAIN work[n] : ~ Within(k.point, span[j])
        PROVE  <1>5!1 /\ <1>5!2
    BY <2>2 DEF Over, Row
  <2>q. QED
    BY <1>3, <2>1, <2>2 DEF Spared
<1>6. pc[j] \in {"wipe", "wait"} => work'[j] = work[j]
  <2>1. SUFFICES ASSUME pc[j] \in {"wipe", "wait"} PROVE work'[j] = work[j]
    OBVIOUS
  <2>2. Writing(j) /\ ConnOf(j) = j
    BY <2>1 DEF Writing, IInv, OwnInv, ConnOf
  <2>q. QED
    BY <1>1, <2>2, OtherConn
<1>7. \A f : SameRows(j, f) => SameRows(j, f)'
  BY <1>1, <1>5 DEF SameRows
<1>8. Held(j)' = Held(j)
  BY <1>1 DEF Held
<1>9. j \in cancel => j \in cancel'
  BY DEF Spared
<1>10. pc[j] \in {"wipe", "wait", "open", "read", "record", "out", "fini"}
  BY <1>4 DEF CleanOk
<1>11. SUFFICES ASSUME job[j].kind = "update" PROVE CleanOk(j)'
  BY <1>1, <1>10 DEF CleanOk
<1>12. CASE pc[j] \in {"wipe", "wait"}
  BY <1>1, <1>4, <1>5, <1>6, <1>12, <1>11 DEF CleanOk
<1>13. CASE pc[j] \in {"open", "out", "fini"}
  <2>1. /\ pc[j] \in {"open", "out"} => SameRows(j, Held(j)[job[j].cur])
        /\ pc[j] = "fini" => j \in cancel \/ SameRows(j, Held(j)[Len(job[j].files)])
    BY <1>4, <1>11 DEF CleanOk
  <2>2. /\ pc[j] \in {"open", "out"} => SameRows(j, Held(j)[job[j].cur])'
        /\ pc[j] = "fini" => j \in cancel' \/ SameRows(j, Held(j)[Len(job[j].files)])'
    BY <1>1, <1>7, <1>8, <1>9, <2>1
  <2>q. QED
    BY <1>1, <1>13, <2>2 DEF CleanOk
<1>14. CASE pc[j] \in {"read", "record"}
  <2>1. /\ job[j].cur # 0 /\ SameRows(j, Held(j)[job[j].cur - 1])
        /\ Reading(job[j], span[j], Files[job[j].files[job[j].cur]])
        /\ pc[j] = "record" => job[j].flow = <<>>
    BY <1>4, <1>11, <1>14 DEF CleanOk
  <2>2. SameRows(j, Held(j)[job[j].cur - 1])'
    BY <1>1, <1>7, <1>8, <2>1
  <2>q. QED
    BY <1>1, <1>14, <2>1, <2>2 DEF CleanOk
<1>q. QED
  BY <1>10, <1>12, <1>13, <1>14

\* The ends of a period are numbers, parse_time_args.
LEMMA PeriodsOk == \A p \in Periods : PeriodOk(p)
<1> SUFFICES ASSUME NEW a \in Args, ParseTimeArgs(a) # None PROVE PeriodOk(ParseTimeArgs(a))
  BY DEF Periods
<1>1. a.start \in Int /\ (a.end = None \/ a.end \in Int)
  BY TimeAssumption
<1>2. \/ a.period \in DOMAIN Calendar /\ ParseTimeArgs(a) = Calendar[a.period][a.start]
      \/ ParseTimeArgs(a) = [start |-> a.start, end |-> a.start + 1]
      \/ a.end # None /\ ParseTimeArgs(a) = [start |-> a.start, end |-> a.end]
  BY DEF ParseTimeArgs
<1>q. QED
  BY <1>1, <1>2, TimeAssumption DEF PeriodOk

\* The periods are those of the arguments.
LEMMA SpanStep ==
  ASSUME SInv, UInv, [Next]_vars
  PROVE  \A x \in Threads : PeriodOk(span'[x])
<1> USE DEF SInv, DataInv, UInv
<1>1. PeriodOk(NoPeriod)
  BY DEF PeriodOk, NoPeriod
<1>2. CASE span' = span
  BY <1>2
<1>3. CASE \E x \in Threads : span' = [span EXCEPT ![x] = NoPeriod] \/ \E p \in Periods : span' = [span EXCEPT ![x] = p]
  BY <1>1, <1>3, PeriodsOk
<1>4. ASSUME NEW x \in Threads, Wipe(x) PROVE <1>2!1 \/ <1>3!1
  BY <1>4 DEF Wipe, WipeBegin, WipeBeginFails, WipeTable, WipeWaits, WipeResumes, Cleaned,
       WipeRollback, WipeCommit, WipeFailed, Ended
<1>5. ASSUME NEW x \in Jobs, Job(x)
      PROVE  \/ span' = span
             \/ \E y \in Threads : \/ span' = [span EXCEPT ![y] = NoPeriod]
                                   \/ \E p \in Periods : span' = [span EXCEPT ![y] = p]
  <2>1. x \in Threads
    BY DEF Threads
  <2>2. CASE Create(x)
    BY <2>1, <2>2 DEF Create
  <2>3. CASE InitFails(x) \/ FiniHook(x)
    BY <2>1, <2>3 DEF InitFails, FiniHook, Ended
  <2>q. QED
    BY <1>5, <2>2, <2>3 DEF Job, CreateFails, InitHook, OpenNext, NoMoreFiles, ReadFlow, SaveBegin, SaveRecord,
      SaveRollback, SaveCommit, SaveOut
<1>6. ASSUME NEW x \in Clients, Client(x)
      PROVE  \/ span' = span
             \/ \E y \in Threads : \/ span' = [span EXCEPT ![y] = NoPeriod]
                                   \/ \E p \in Periods : span' = [span EXCEPT ![y] = p]
  BY <1>6 DEF Client, StatCommon, StatWipe, Query, QueryDone, Disconnect, Threads
<1>q. QED
  BY <1>2, <1>3, <1>4, <1>5, <1>6 DEF Next, vars

-----------------------------------------------------------------------------
\* The thread's own step, when it is the wipe of an update.
LEMMA OwnWipe ==
  ASSUME IInv, SInv, UInv, NEW z \in Jobs, Wipe(z)
  PROVE  PoolIn(z)' /\ CleanOk(z)'
<1>a. z \in Threads /\ z \in Conns /\ PoolIn(z) /\ CleanOk(z)
  BY DEF UInv, Threads, Conns
<1>1. CASE WipeBeginFails(z) \/ WipeRollback(z)
  <2>1. job'[z] = NoJob /\ z \notin clean' /\ pc'[z] = "dead"
    BY <1>1, <1>a DEF WipeBeginFails, WipeRollback, WipeFailed, Ended, Goto, IInv, TypeInv
  <2>2. NoJob.kind = "plain"
    BY DEF NoJob
  <2>q. QED
    BY <2>1, <2>2 DEF PoolIn, CleanOk
<1>2. SUFFICES ASSUME ~ WipeBeginFails(z), ~ WipeRollback(z) PROVE PoolIn(z)' /\ CleanOk(z)'
  BY <1>1
<1>3. ConnOf(z) = z /\ pc[z] \in {"begin", "wipe", "wait"} /\ job' = job /\ span'[z] = span[z] /\ pc'[z] # "none"
  BY <1>2, <1>a DEF Wipe, WipeBegin, WipeTable, WipeWaits, WipeResumes, WipeCommit, Cleaned, Goto, taskVars,
    IInv, TypeInv, OwnInv, ConnOf
<1>4. PoolIn(z)'
  BY <1>3, <1>a DEF PoolIn
<1>5. SUFFICES ASSUME z \in clean' PROVE CleanOk(z)'
  BY <1>4 DEF CleanOk
<1>6. CASE WipeBegin(z)
  <2>1. pc'[z] = "wipe" /\ wiped'[z] = 0
    BY <1>6, <1>a DEF WipeBegin, Goto, IInv, TypeInv, SInv, DataInv
  <2>q. QED
    BY <2>1 DEF CleanOk
<1>7. CASE WipeTable(z) \/ WipeResumes(z)
  <2>1. PICK keys : /\ Cleaned(z, keys)
                    /\ \/ pc[z] = "wipe" /\ keys = CleanKeys(z, Tables[wiped[z] + 1], span[z])
                       \/ pc[z] = "wait" /\ keys = found[z]
    BY <1>3, <1>7 DEF WipeTable, WipeResumes
  <2>2. /\ pc'[z] = "wipe" /\ wiped'[z] = wiped[z] + 1 /\ wiped[z] \in 0 .. 3 /\ rows' = rows /\ z \in clean
        /\ work'[z] = Over([k \in keys |-> Zero], work[z])
    BY <1>3, <1>5, <1>a, <2>1 DEF Cleaned, Goto, IInv, TypeInv, SInv, DataInv
  <2>3. DOMAIN work'[z] = keys \cup DOMAIN work[z]
    BY <2>2 DEF Over
  <2>4. ASSUME job[z].kind = "update", NEW k \in DOMAIN rows, Within(k.point, span[z]),
               NEW t \in 1 .. 3, k.table = Tables[t], t <= wiped[z] + 1
        PROVE  k \in DOMAIN work'[z]
    <3>1. CASE t <= wiped[z]
      BY <1>a, <2>1, <2>2, <2>3, <2>4, <3>1 DEF CleanOk
    <3>2. CASE t = wiped[z] + 1
      BY <1>a, <2>1, <2>2, <2>3, <2>4, <3>2 DEF CleanOk, CleanKeys
    <3>q. QED
      BY <2>2, <2>4, <3>1, <3>2
  <2>q. QED
    BY <1>3, <2>2, <2>4 DEF CleanOk
<1>8. CASE WipeWaits(z)
  <2>1. /\ pc[z] = "wipe" /\ pc'[z] = "wait" /\ wiped' = wiped /\ rows' = rows /\ work' = work /\ z \in clean
        /\ found'[z] = CleanKeys(z, Tables[wiped[z] + 1], span[z])
    BY <1>3, <1>5, <1>8, <1>a DEF WipeWaits, Goto, IInv, TypeInv, SInv, DataInv, dbVars
  <2>2. \A k \in DOMAIN rows : Within(k.point, span[z]) /\ k.table = Tables[wiped[z] + 1] => k \in found'[z]
    BY <2>1 DEF CleanKeys
  <2>q. QED
    BY <1>3, <1>a, <2>1, <2>2 DEF CleanOk
<1>9. CASE WipeCommit(z)
  <2>1. /\ pc[z] = "wipe" /\ pc'[z] = "open" /\ wiped[z] = 3 /\ z \in clean
        /\ rows' = Over(work[z], rows)
    BY <1>3, <1>5, <1>9, <1>a DEF WipeCommit, Goto, DbEnd, IInv, TypeInv, Tables
  <2>2. SUFFICES ASSUME job[z].kind = "update" PROVE SameRows(z, Held(z)[job[z].cur])'
    BY <1>3, <2>1 DEF CleanOk
  <2>3. Held(z)' = Held(z) /\ job'[z].cur = 0
    BY <1>3, <2>1 DEF Held, SInv, DataInv
  <2>4. Held(z)[0] = <<>>
    <3>1. Len(job[z].files) \in Nat
      BY DEF SInv, DataInv, JobOk
    <3>q. QED
      BY <3>1, CountFilesSteps DEF Held
  <2>5. ASSUME NEW k, Within(k.point, span[z]) PROVE Row(rows', k) = Zero
    <3>1. CASE k \in DOMAIN rows
      <4>1. k.table \in {"unit_stat", "link_stat", "unit_link_stat"}
        BY <3>1 DEF SInv, RowsInv, RowsOk, KeyOk
      <4>2. PICK t \in 1 .. 3 : k.table = Tables[t]
        <5>1. Tables[1] = "unit_stat" /\ Tables[2] = "link_stat" /\ Tables[3] = "unit_link_stat"
          BY DEF Tables
        <5>2. 1 \in 1 .. 3 /\ 2 \in 1 .. 3 /\ 3 \in 1 .. 3
          OBVIOUS
        <5>q. QED
          BY ONLY <4>1, <5>1, <5>2, Zenon
      <4>3. k \in DOMAIN work[z]
        BY <1>a, <2>1, <2>2, <2>5, <3>1, <4>2 DEF CleanOk
      <4>4. work[z][k] = Zero
        BY <1>3, <1>a, <2>1, <4>3 DEF SInv, WipeOk
      <4>q. QED
        BY <2>1, <4>3, <4>4 DEF Over, Row
    <3>2. CASE k \notin DOMAIN rows
      <4>1. k \notin DOMAIN work[z]
        BY <1>3, <1>a, <2>1, <3>2 DEF SInv, WipeOk
      <4>q. QED
        BY <2>1, <3>2, <4>1 DEF Over, Row
    <3>q. QED
      BY <3>1, <3>2
  <2>6. \A k : Row(<<>>, k) = Zero
    BY EmptyGood DEF Row
  <2>7. SameRows(z, <<>>)'
    BY <1>3, <2>5, <2>6 DEF SameRows
  <2>q. QED
    BY <2>3, <2>4, <2>7
<1>q. QED
  BY <1>2, <1>6, <1>7, <1>8, <1>9 DEF Wipe

\* The task leaves its loop for the fini hook only when it is cancelled.
LEMMA PolledTo ==
  ASSUME IInv, NEW z \in Jobs, NEW l \in {"open", "read"}, Polled(z, l)
  PROVE  (pc'[z] = l \/ (pc'[z] = "fini" /\ z \in cancel'))
<1>1. \/ z \in cancel' /\ pc' = [pc EXCEPT ![z] = "fini"]
      \/ z \notin cancel' /\ pc' = [pc EXCEPT ![z] = l]
  BY Zenon DEF Polled, Goto
<1>2. z \in DOMAIN pc
  BY DEF IInv, TypeInv, Threads
<1>3. pc'[z] = l \/ (pc'[z] = "fini" /\ z \in cancel')
  BY ONLY <1>1, <1>2, Zenon
<1>q. QED
  BY ONLY <1>3, Zenon

\* path_tree_open_next: the next file, with an empty pool and all its flows to come.
LEMMA OwnOpen ==
  ASSUME IInv, SInv, UInv, NEW z \in Jobs, OpenNext(z)
  PROVE  PoolIn(z)' /\ CleanOk(z)'
<1>a. z \in Threads /\ PoolIn(z) /\ CleanOk(z) /\ pc[z] = "open" /\ span' = span /\ rows' = rows
  BY DEF UInv, Threads, OpenNext, dbVars
<1>b. PICK r : r = job[z] /\ JobOk(r) /\ DOMAIN r = DOMAIN NoJob
  BY DEF SInv, DataInv, IInv, TypeInv
<1>1. PICK n : n = [r EXCEPT !.cur = r.cur + 1]
  OBVIOUS
<1>2. n.files = r.files /\ n.cur = r.cur + 1 /\ n.pool = r.pool /\ n.kind = r.kind /\ DOMAIN n = DOMAIN NoJob
  BY <1>b, <1>1, InitialJob
<1>3. CASE job' = [job EXCEPT ![z] = n] /\ Polled(z, "open") /\ clean' = clean \ {z}
  <2>1. job'[z] = n /\ z \notin clean' /\ pc'[z] # "none"
    BY <1>3, PolledTo DEF IInv, TypeInv
  <2>q. QED
    BY <1>a, <1>b, <1>2, <2>1 DEF PoolIn, CleanOk
<1>4. CASE /\ job' = [job EXCEPT ![z] = [n EXCEPT !.flow = Files[n.files[n.cur]], !.pool = <<>>, !.ptr = TRUE]]
           /\ Polled(z, "read") /\ UNCHANGED clean
  <2>1. PICK e : e = [n EXCEPT !.flow = Files[n.files[n.cur]], !.pool = <<>>, !.ptr = TRUE]
    OBVIOUS
  <2>2. /\ e.files = r.files /\ e.cur = r.cur + 1 /\ e.flow = Files[e.files[e.cur]] /\ e.pool = <<>>
        /\ e.kind = r.kind
    BY <1>2, <2>1, InitialJob
  <2>3. job'[z] = e /\ (pc'[z] = "read" \/ (pc'[z] = "fini" /\ z \in cancel'))
    BY <1>4, <2>1, PolledTo DEF IInv, TypeInv
  <2>4. PoolIn(z)'
    BY <1>a, <1>b, <2>2, <2>3, EmptyGood DEF PoolIn
  <2>5. SUFFICES ASSUME z \in clean', e.kind = "update", pc'[z] = "read" PROVE CleanOk(z)'
    BY <2>3, <2>4 DEF CleanOk
  <2>6. SameRows(z, Held(z)[r.cur])
    BY <1>4, <1>a, <1>b, <2>2, <2>5 DEF CleanOk
  <2>7. r.cur \in Nat /\ e.cur # 0 /\ e.cur - 1 = r.cur /\ r.cur < Len(r.files) /\ Len(r.files) \in Nat
    BY <1>b, <2>2 DEF JobOk, OpenNext
  <2>8. SameRows(z, Held(z)[job[z].cur - 1])'
    <3>1. Held(z)' = Held(z) /\ job'[z].cur - 1 = r.cur
      BY <1>a, <1>b, <2>2, <2>3, <2>7 DEF Held
    <3>q. QED
      BY <1>a, <2>6, <3>1 DEF SameRows
  <2>9. PICK file : file = Files[e.files[e.cur]]
    OBVIOUS
  <2>10. file \in Seq(Flows)
    <3>1. e.cur \in 1 .. Len(r.files) /\ r.files \in Seq(DOMAIN Files)
      BY <1>b, <2>2, <2>7 DEF JobOk
    <3>2. e.files[e.cur] \in DOMAIN Files
      BY <2>2, <3>1
    <3>q. QED
      BY <2>9, <3>2, FilesAssumption
  <2>11. Reading(e, span[z], file)
    <3>1. Len(file) \in Nat
      BY <2>10
    <3>2. FlowsCounted(<<>>, file, span[z])[0] = <<>>
      BY <3>1, CountFlowsSteps
    <3>3. 0 \in 0 .. Len(file) /\ 0 + Len(file) = Len(file) /\ \A m \in 1 .. Len(file) : file[m] = file[0 + m]
      BY <3>1
    <3>q. QED
      BY <2>2, <2>9, <3>2, <3>3 DEF Reading
  <2>q. QED
    BY <1>a, <2>3, <2>5, <2>7, <2>8, <2>9, <2>11 DEF CleanOk
<1>q. QED
  BY <1>3, <1>4, <1>b, <1>1 DEF OpenNext

\* A flow has moved from those to come to those counted.
LEMMA NextFlow ==
  ASSUME NEW file \in Seq(Flows), NEW s \in Seq(Flows), s # <<>>, NEW i \in Nat, i + Len(s) = Len(file)
  PROVE  (i + 1) + Len(Tail(s)) = Len(file)
<1>1. Len(Tail(s)) = Len(s) - 1 /\ Len(s) \in Nat /\ Len(file) \in Nat
  OBVIOUS
<1>q. QED
  BY <1>1

\* One flow more is counted, inside the period if it counts at all.
LEMMA OwnRead ==
  ASSUME IInv, SInv, UInv, NEW z \in Jobs, ReadFlow(z)
  PROVE  PoolIn(z)' /\ CleanOk(z)'
<1>a. z \in Threads /\ PoolIn(z) /\ CleanOk(z) /\ pc[z] = "read" /\ UNCHANGED <<span, rows, clean>>
      /\ job[z].flow # <<>> /\ PeriodOk(span[z])
  BY DEF UInv, Threads, ReadFlow, dbVars
<1>b. PICK r : r = job[z] /\ JobOk(r) /\ DOMAIN r = DOMAIN NoJob
  BY DEF SInv, DataInv, IInv, TypeInv
<1>1. PICK x \in Flows : x = Head(r.flow)
  BY <1>a, <1>b, TailFlows DEF JobOk
<1>2. PICK e : e = [r EXCEPT !.flow = Tail(r.flow), !.pool = CountFlow(r.pool, x, Counted(z))]
  OBVIOUS
<1>3. /\ e.files = r.files /\ e.cur = r.cur /\ e.flow = Tail(r.flow) /\ e.kind = r.kind
      /\ e.pool = CountFlow(r.pool, x, Counted(z))
  BY <1>b, <1>2, InitialJob
<1>4. job'[z] = e
  BY <1>b, <1>1, <1>2 DEF ReadFlow, IInv, TypeInv
<1>5. pc'[z] = "read" \/ (pc'[z] = "fini" /\ z \in cancel')
  BY PolledTo DEF ReadFlow
<1>6. r.kind = "update" => Counted(z) = span[z]
  BY <1>b DEF Counted
<1>7. ASSUME r.kind = "update", Aligned(span[z]), NEW k \in DOMAIN e.pool PROVE Within(k.point, span[z])
  <2>1. CASE k \in DOMAIN r.pool
    BY <1>a, <1>b, <1>7, <2>1 DEF PoolIn
  <2>2. CASE k.point = ExtractHour(x.begin) /\ Within(x.begin, span[z])
    <3>1. /\ x.begin \in Int /\ span[z].start \in Int /\ span[z].end \in Int
          /\ span[z].start % Hour = 0 /\ span[z].end % Hour = 0
          /\ span[z].start <= x.begin /\ x.begin < span[z].end
      BY <1>7, <1>a, <2>2, FilesAssumption DEF PeriodOk, Aligned, Within
    <3>2. span[z].start <= x.begin - (x.begin % Hour) /\ x.begin - (x.begin % Hour) < span[z].end
      BY ONLY <3>1, HourWithin
    <3>q. QED
      BY <2>2, <3>2 DEF ExtractHour, Within
  <2>3. span[z] # None
    BY <1>a, <1>b, <1>7 DEF PoolIn
  <2>q. QED
    BY <1>3, <1>6, <1>7, <2>1, <2>2, <2>3, FlowPoints
<1>8. PoolIn(z)'
  BY <1>3, <1>4, <1>5, <1>7, <1>a, <1>b DEF PoolIn
<1>9. SUFFICES ASSUME z \in clean', r.kind = "update", pc'[z] = "read" PROVE CleanOk(z)'
  BY <1>3, <1>4, <1>5, <1>8 DEF CleanOk
<1>10. PICK file : file = Files[r.files[r.cur]]
  OBVIOUS
<1>11. r.cur # 0 /\ SameRows(z, Held(z)[r.cur - 1]) /\ Reading(r, span[z], file)
  BY <1>9, <1>10, <1>a, <1>b DEF CleanOk
<1>12. file \in Seq(Flows)
  <2>1. r.cur \in 1 .. Len(r.files) /\ r.files \in Seq(DOMAIN Files)
    BY <1>b, <1>11 DEF JobOk
  <2>2. r.files[r.cur] \in DOMAIN Files
    BY <2>1
  <2>q. QED
    BY <1>10, <2>2, FilesAssumption
<1>13. Reading(e, span[z], file)
  <2>1. PICK i \in 0 .. Len(file) :
          /\ i + Len(r.flow) = Len(file)
          /\ \A m \in 1 .. Len(r.flow) : r.flow[m] = file[i + m]
          /\ r.pool = FlowsCounted(<<>>, file, span[z])[i]
    BY <1>11 DEF Reading
  <2>2. /\ r.flow \in Seq(Flows) /\ r.flow # <<>> /\ Len(r.flow) \in Nat /\ Len(r.flow) >= 1
        /\ Len(e.flow) = Len(r.flow) - 1
        /\ \A m \in 1 .. Len(e.flow) : e.flow[m] = r.flow[m + 1]
        /\ x = r.flow[1]
    BY <1>1, <1>3, <1>a, <1>b DEF JobOk
  <2>3. Len(file) \in Nat /\ i \in 0 .. Len(file) /\ i < Len(file) /\ i + 1 \in 0 .. Len(file)
    BY <1>12, <2>1, <2>2
  <2>4. FlowsCounted(<<>>, file, span[z])[i + 1] = CountFlow(FlowsCounted(<<>>, file, span[z])[i], file[i + 1], span[z])
    BY <2>3, CountFlowsSteps
  <2>5. x = file[i + 1]
    BY <2>1, <2>2
  <2>6. e.pool = FlowsCounted(<<>>, file, span[z])[i + 1]
    BY <1>3, <1>6, <1>9, <2>1, <2>4, <2>5
  <2>7. (i + 1) + Len(e.flow) = Len(file) /\ \A m \in 1 .. Len(e.flow) : e.flow[m] = file[(i + 1) + m]
    <3>0. PICK n \in Nat, q \in Nat : n = Len(e.flow) /\ q = Len(r.flow) /\ n = q - 1
      BY <2>2
    <3>9. i \in Nat
      BY <2>3
    <3>10. \A m \in 1 .. n : m + 1 \in 1 .. q /\ i + (m + 1) = (i + 1) + m
      BY ONLY <3>0, <3>9
    <3>1. \A m \in 1 .. Len(e.flow) : m + 1 \in 1 .. Len(r.flow) /\ i + (m + 1) = (i + 1) + m
      BY <3>0, <3>10
    <3>2. ASSUME NEW m \in 1 .. Len(e.flow) PROVE e.flow[m] = file[(i + 1) + m]
      <4>1. e.flow[m] = r.flow[m + 1]
        BY <2>2
      <4>2. r.flow[m + 1] = file[i + (m + 1)]
        BY <2>1, <3>1
      <4>q. QED
        BY <3>1, <4>1, <4>2
    <3>3. (i + 1) + Len(e.flow) = Len(file)
      <4>1. file \in Seq(Flows) /\ r.flow \in Seq(Flows) /\ r.flow # <<>> /\ i + Len(r.flow) = Len(file)
        BY <1>12, <2>1, <2>2
      <4>2. i \in Nat
        BY <2>3
      <4>3. (i + 1) + Len(Tail(r.flow)) = Len(file)
        BY ONLY <4>1, <4>2, NextFlow, Zenon
      <4>4. e.flow = Tail(r.flow)
        BY <1>3
      <4>q. QED
        BY ONLY <4>3, <4>4, Zenon
    <3>q. QED
      BY <3>2, <3>3
  <2>q. QED
    BY <2>3, <2>6, <2>7 DEF Reading
<1>14. SameRows(z, Held(z)[job[z].cur - 1])'
  <2>1. Held(z)' = Held(z) /\ job'[z].cur = r.cur
    BY <1>3, <1>4, <1>a, <1>b DEF Held
  <2>q. QED
    BY <1>11, <1>a, <2>1 DEF SameRows
<1>q. QED
  BY <1>3, <1>4, <1>9, <1>10, <1>11, <1>13, <1>14, <1>a DEF CleanOk

\* Steps after which the task is none of the undisturbed updates, or none at all.
LEMMA OwnEnds ==
  ASSUME IInv, SInv, UInv, NEW z \in Jobs,
         CreateFails(z) \/ InitHook(z) \/ InitFails(z) \/ FiniHook(z)
  PROVE  PoolIn(z)' /\ CleanOk(z)'
<1>a. z \in Threads /\ PoolIn(z) /\ CleanOk(z)
  BY DEF UInv, Threads
<1>1. CASE InitFails(z) \/ FiniHook(z)
  <2>1. job'[z] = NoJob /\ z \notin clean' /\ pc'[z] # "none"
    BY <1>1, <1>a DEF InitFails, FiniHook, Ended, Goto, IInv, TypeInv
  <2>2. NoJob.kind = "plain"
    BY DEF NoJob
  <2>q. QED
    BY <2>1, <2>2 DEF PoolIn, CleanOk
<1>2. CASE CreateFails(z)
  <2>1. job' = job /\ z \notin clean' /\ span' = span /\ pc'[z] # "none"
    BY <1>2, <1>a DEF CreateFails, Goto, CleanOk, IInv, TypeInv
  <2>q. QED
    BY <1>a, <2>1 DEF PoolIn, CleanOk
<1>3. CASE InitHook(z)
  <2>1. z \notin clean' /\ span' = span /\ pc'[z] # "none"
    BY <1>3, <1>a DEF InitHook, Goto, CleanOk, IInv, TypeInv
  <2>2. job'[z].kind = "update" => job' = job
    <3>1. job' = job \/ (job[z].kind = "feed" /\ job' = [job EXCEPT ![z].pool = <<>>, ![z].ptr = TRUE])
      BY <1>3 DEF InitHook
    <3>2. CASE job[z].kind = "feed" /\ job' = [job EXCEPT ![z].pool = <<>>, ![z].ptr = TRUE]
      <4>1. job'[z].kind = job[z].kind
        BY <3>2, InitialJob DEF IInv, TypeInv
      <4>q. QED
        BY <3>2, <4>1
    <3>q. QED
      BY <3>1, <3>2
  <2>q. QED
    BY <1>a, <2>1, <2>2 DEF PoolIn, CleanOk
<1>q. QED
  BY <1>1, <1>2, <1>3

\* A task is made, an update with a period.
LEMMA OwnCreate ==
  ASSUME IInv, SInv, UInv, NEW z \in Jobs, Create(z)
  PROVE  PoolIn(z)' /\ CleanOk(z)'
<1>a. z \in Threads /\ PoolIn(z) /\ CleanOk(z) /\ pc[z] = "none" /\ clean' = clean
  BY DEF UInv, Threads, Create
<1>1. z \notin clean' /\ pc'[z] # "none"
  BY <1>a DEF Create, CleanOk, Goto, IInv, TypeInv
<1>2. job'[z].pool = job[z].pool
  BY InitialJob DEF Create, IInv, TypeInv
<1>3. job'[z].kind = "update" => span'[z] # None
  BY <1>a, InitialJob DEF Create, IInv, TypeInv, Periods, SInv, DataInv
<1>q. QED
  BY <1>a, <1>1, <1>2, <1>3 DEF PoolIn, CleanOk

\* The steps that leave the pool, the files and the tables as they are.
LEMMA OwnSame ==
  ASSUME IInv, SInv, UInv, NEW z \in Jobs,
         NoMoreFiles(z) \/ SaveBegin(z) \/ SaveRecord(z) \/ SaveRollback(z) \/ SaveOut(z)
  PROVE  PoolIn(z)' /\ CleanOk(z)'
<1>a. z \in Threads /\ PoolIn(z) /\ CleanOk(z) /\ span' = span /\ rows' = rows
  BY DEF UInv, Threads, NoMoreFiles, SaveBegin, SaveRecord, SaveRollback, SaveOut, DbEnd, dbVars
<1>b. /\ job'[z].kind = job[z].kind /\ job'[z].files = job[z].files /\ job'[z].cur = job[z].cur
      /\ job'[z].flow = job[z].flow /\ job'[z].pool = job[z].pool
  <2>1. CASE job' = job
    BY <2>1
  <2>2. CASE job' = [job EXCEPT ![z].ptr = FALSE]
    BY <2>2, InitialJob DEF IInv, TypeInv
  <2>3. ASSUME NEW left, job' = [job EXCEPT ![z].rest = left]
        PROVE  /\ job'[z].kind = job[z].kind /\ job'[z].files = job[z].files /\ job'[z].cur = job[z].cur
               /\ job'[z].flow = job[z].flow /\ job'[z].pool = job[z].pool
    BY <2>3, InitialJob DEF IInv, TypeInv
  <2>4. CASE SaveRecord(z)
    <3>1. PICK k : job' = [job EXCEPT ![z].rest = @ \ {k}]
      BY <2>4 DEF SaveRecord
    <3>q. QED
      BY <2>3, <3>1
  <2>5. CASE SaveBegin(z)
    BY <2>1, <2>3, <2>5 DEF SaveBegin
  <2>6. CASE SaveOut(z)
    BY <2>2, <2>6 DEF SaveOut, ForgetPool
  <2>7. CASE NoMoreFiles(z) \/ SaveRollback(z)
    BY <2>1, <2>7 DEF NoMoreFiles, SaveRollback, taskVars
  <2>q. QED
    BY <2>4, <2>5, <2>6, <2>7
<1>c. pc'[z] # "none" /\ pc[z] # "none"
  <2>1. CASE SaveOut(z)
    BY <2>1, <1>a, PolledTo DEF SaveOut, Goto, IInv, TypeInv
  <2>q. QED
    BY <2>1, <1>a DEF NoMoreFiles, SaveBegin, SaveRecord, SaveRollback, Goto, IInv, TypeInv
<1>1. PoolIn(z)'
  BY <1>a, <1>b, <1>c DEF PoolIn
<1>2. SUFFICES ASSUME z \in clean' PROVE CleanOk(z)'
  BY <1>1 DEF CleanOk
<1>3. z \in clean
  BY <1>2 DEF NoMoreFiles, SaveBegin, SaveRecord, SaveRollback, SaveOut
<1>4. Held(z)' = Held(z) /\ \A f : SameRows(z, f) => SameRows(z, f)'
  BY <1>a, <1>b DEF Held, SameRows
<1>5. CASE NoMoreFiles(z)
  <2>1. pc[z] = "open" /\ pc'[z] = "fini" /\ job[z].cur = Len(job[z].files)
    BY <1>5, <1>a DEF NoMoreFiles, Goto, IInv, TypeInv
  <2>2. job[z].kind = "update" => SameRows(z, Held(z)[Len(job[z].files)])
    BY <1>a, <1>3, <2>1 DEF CleanOk
  <2>3. job[z].kind = "update" => SameRows(z, Held(z)[Len(job[z].files)])'
    BY <1>b, <1>4, <2>2
  <2>q. QED
    BY <1>b, <2>1, <2>3 DEF CleanOk
<1>6. CASE SaveBegin(z) \/ SaveRecord(z)
  <2>1. pc[z] \in {"read", "record"} /\ pc'[z] = "record" /\ job'[z].flow = job[z].flow /\ (pc[z] = "read" => job[z].flow = <<>>)
    BY <1>6, <1>2, <1>a, <1>b DEF SaveBegin, SaveRecord, Goto, IInv, TypeInv
  <2>2. job[z].kind = "update" =>
          /\ job[z].cur # 0 /\ SameRows(z, Held(z)[job[z].cur - 1])
          /\ Reading(job[z], span[z], Files[job[z].files[job[z].cur]])
          /\ job[z].flow = <<>>
    BY <1>a, <1>3, <2>1 DEF CleanOk
  <2>3. job[z].kind = "update" => SameRows(z, Held(z)[job[z].cur - 1])'
    BY <1>b, <1>4, <2>2
  <2>4. job[z].kind = "update" => Reading(job'[z], span'[z], Files[job'[z].files[job'[z].cur]])
    BY <1>a, <1>b, <2>2 DEF Reading
  <2>q. QED
    BY <1>b, <2>1, <2>2, <2>3, <2>4 DEF CleanOk
<1>7. CASE SaveRollback(z)
  BY <1>7, <1>2 DEF SaveRollback
<1>8. CASE SaveOut(z)
  <2>1. pc[z] = "out" /\ (pc'[z] = "open" \/ (pc'[z] = "fini" /\ (z \in cancel' \/ job[z].kind # "update")))
    BY <1>8, <1>a, PolledTo DEF SaveOut, Goto, IInv, TypeInv
  <2>2. job[z].kind = "update" => SameRows(z, Held(z)[job[z].cur])
    BY <1>a, <1>3, <2>1 DEF CleanOk
  <2>3. job[z].kind = "update" => SameRows(z, Held(z)[job[z].cur])'
    BY <1>b, <1>4, <2>2
  <2>q. QED
    BY <1>b, <2>1, <2>3 DEF CleanOk
<1>q. QED
  BY <1>5, <1>6, <1>7, <1>8

\* The commit of a save: the tables hold one file more.
LEMMA OwnCommit ==
  ASSUME IInv, SInv, UInv, NEW z \in Jobs, SaveCommit(z)
  PROVE  PoolIn(z)' /\ CleanOk(z)'
<1>a. /\ z \in Threads /\ PoolIn(z) /\ CleanOk(z) /\ span' = span /\ job' = job
      /\ pc[z] = "record" /\ job[z].rest = {} /\ pc'[z] = "out"
  BY DEF UInv, Threads, SaveCommit, taskVars, Goto, IInv, TypeInv
<1>1. PoolIn(z)'
  BY <1>a DEF PoolIn
<1>2. SUFFICES ASSUME z \in clean', job[z].kind = "update" PROVE SameRows(z, Held(z)[job[z].cur])'
  BY <1>1, <1>a DEF CleanOk
<1>3. z \in clean /\ rows' = Over(work[z], rows)
  BY <1>2 DEF SaveCommit, DbEnd
<1>4. PICK r : r = job[z] /\ JobOk(r)
  BY DEF SInv, DataInv
<1>5. PICK file : file = Files[r.files[r.cur]]
  OBVIOUS
<1>6. r.cur # 0 /\ SameRows(z, Held(z)[r.cur - 1]) /\ Reading(r, span[z], file) /\ r.flow = <<>>
  BY <1>2, <1>3, <1>4, <1>5, <1>a DEF CleanOk
<1>7. r.files \in Seq(DOMAIN Files) /\ Len(r.files) \in Nat /\ r.cur \in 1 .. Len(r.files)
  BY <1>4, <1>6 DEF JobOk
<1>8. file \in Seq(Flows) /\ Len(file) \in Nat
  <2>1. r.files[r.cur] \in DOMAIN Files
    BY <1>7
  <2>q. QED
    BY <1>5, <2>1, FilesAssumption
<1>9. r.pool = CountFlows(<<>>, file, span[z])
  <2>1. PICK i \in 0 .. Len(file) : i + Len(r.flow) = Len(file) /\ r.pool = FlowsCounted(<<>>, file, span[z])[i]
    BY <1>6 DEF Reading
  <2>2. i = Len(file)
    BY <1>6, <1>8, <2>1
  <2>3. CountFlows(<<>>, file, span[z]) = FlowsCounted(<<>>, file, span[z])[Len(file)]
    BY <1>8, CountFlowsSteps
  <2>q. QED
    BY <2>1, <2>2, <2>3
<1>10. PICK last, now : last = Held(z)[r.cur - 1] /\ now = Held(z)[r.cur]
  OBVIOUS
<1>11. r.cur - 1 \in 0 .. Len(r.files) /\ r.cur - 1 < Len(r.files) /\ (r.cur - 1) + 1 = r.cur
  BY <1>7
<1>12. now = CountFlows(last, file, span[z])
  <2>1. Held(z)[(r.cur - 1) + 1] = CountFlows(Held(z)[r.cur - 1], Files[r.files[(r.cur - 1) + 1]], span[z])
    BY <1>4, <1>7, <1>11, CountFilesSteps DEF Held
  <2>q. QED
    BY <1>5, <1>10, <1>11, <2>1
<1>13. RowsOk(last) /\ RowsOk(r.pool) /\ RowsOk(rows)
  <2>1. Good(last)
    BY <1>4, <1>7, <1>10, <1>11, FilesGood DEF Held
  <2>q. QED
    BY <1>4, <2>1 DEF Good, JobOk, SInv, RowsInv
<1>14. Together(now, last, r.pool)
  BY <1>8, <1>9, <1>12, <1>13, FlowsAdd
<1>15. Together(rows', rows, r.pool)
  BY <1>3, <1>4, <1>a, SaveAdds
<1>16. ASSUME NEW k, Within(k.point, span[z]) PROVE Row(rows', k) = Row(now, k)
  <2>1. Row(rows', k) = Plus(Row(rows, k), Row(r.pool, k))
    BY ONLY <1>13, <1>15, TogetherRow
  <2>2. Row(now, k) = Plus(Row(last, k), Row(r.pool, k))
    BY ONLY <1>13, <1>14, TogetherRow
  <2>3. Row(rows, k) = Row(last, k)
    BY <1>6, <1>10, <1>16 DEF SameRows
  <2>q. QED
    BY <2>1, <2>2, <2>3
<1>17. Held(z)' = Held(z)
  BY <1>a DEF Held
<1>18. now = Held(z)'[job'[z].cur]
  BY <1>4, <1>10, <1>17, <1>a
<1>q. QED
  BY <1>16, <1>18, <1>a DEF SameRows

\* All steps of the task itself.
LEMMA OwnJob ==
  ASSUME IInv, SInv, UInv, NEW z \in Jobs, Job(z)
  PROVE  PoolIn(z)' /\ CleanOk(z)'
  BY OwnEnds, OwnCreate, OwnSame, OwnOpen, OwnRead, OwnCommit DEF Job

\* All steps, of the task and of all others.
LEMMA UInvStep == IInv /\ SInv /\ UInv /\ [Next]_vars => UInv'
<1> SUFFICES ASSUME IInv, SInv, UInv, [Next]_vars PROVE UInv'
  OBVIOUS
<1>1. \A x \in Threads : PeriodOk(span'[x])
  BY SpanStep
<1>2. ASSUME NEW x \in Threads, Wipe(x) PROVE \A j \in Jobs : PoolIn(j)' /\ CleanOk(j)'
  <2>1. Alone(x) /\ Spared(x) /\ (Writing(x) \/ work' = work)
    <3>1. Writing(x) \/ work' = work
      BY <1>2 DEF Wipe, WipeBegin, WipeBeginFails, WipeTable, WipeWaits, WipeResumes, WipeRollback, WipeCommit, Writing, dbVars
    <3>q. QED
      BY <1>2, <3>1, WipeAlone, WipeSpared DEF SInv
  <2>2. x \in Jobs => PoolIn(x)' /\ CleanOk(x)'
    BY <1>2, OwnWipe
  <2>3. \A j \in Jobs \ {x} : PoolIn(j)' /\ CleanOk(j)'
    BY <2>1, OthersClean
  <2>q. QED
    BY <2>2, <2>3
<1>3. ASSUME NEW x \in Jobs, Job(x) PROVE \A j \in Jobs : PoolIn(j)' /\ CleanOk(j)'
  <2>1. x \in Threads /\ Alone(x) /\ Spared(x) /\ (Writing(x) \/ work' = work)
    <3>1. Writing(x) \/ work' = work
      BY <1>3 DEF Job, Create, CreateFails, InitHook, InitFails, OpenNext, NoMoreFiles, ReadFlow, SaveBegin, SaveRecord,
           SaveRollback, SaveCommit, SaveOut, FiniHook, Writing, dbVars
    <3>q. QED
      BY <1>3, <3>1, JobAlone, JobSpared DEF Threads, SInv
  <2>2. PoolIn(x)' /\ CleanOk(x)'
    BY <1>3, OwnJob
  <2>3. \A j \in Jobs \ {x} : PoolIn(j)' /\ CleanOk(j)'
    BY <2>1, OthersClean
  <2>q. QED
    BY <2>2, <2>3
<1>4. ASSUME NEW x \in Clients, Client(x) PROVE \A j \in Jobs : PoolIn(j)' /\ CleanOk(j)'
  <2>1. DataInv
    BY DEF SInv
  <2>2. Alone(x) /\ UNCHANGED <<work, rows>> /\ x \in Threads /\ x \notin Jobs
    BY <1>4, <2>1, DataClient, ThreadsAssumption DEF Threads
  <2>3. UNCHANGED <<clean, cancel>>
    BY <1>4 DEF Client, StatCommon, StatWipe, Query, QueryDone, Disconnect, taskVars
  <2>4. Spared(x)
    BY <2>2, <2>3 DEF Spared
  <2>q. QED
    BY <2>2, <2>4, OthersClean
<1>5. CASE UNCHANGED vars
  BY <1>5 DEF vars, taskVars, connVars, dbVars, UInv, PoolIn, CleanOk, SameRows, Held
<1>q. QED
  BY <1>1, <1>2, <1>3, <1>4, <1>5 DEF Next, UInv

\* At first there are no updates.
LEMMA UInvInit == Init => UInv
<1> SUFFICES ASSUME Init PROVE UInv
  OBVIOUS
<1>1. \A x \in Threads : PeriodOk(span[x])
  BY DEF Init, PeriodOk, NoPeriod
<1>2. \A j \in Jobs : job[j] = NoJob /\ j \notin clean
  BY DEF Init
<1>3. NoJob.kind = "plain" /\ DOMAIN NoJob.pool = {}
  BY EmptyGood DEF NoJob
<1>q. QED
  BY <1>1, <1>2, <1>3 DEF UInv, PoolIn, CleanOk

\* An update of whole hours counts nothing outside its period, and one that nothing failed
\* in and nobody interfered with leaves there exactly what its files hold, once (update_task_init,
\* update_task_work, stat_table_clean, mbb_stat_extract_hour): for any files, periods and lengths
\* of an hour, whatever the tables held before and whoever else saves and wipes.
THEOREM StatUpdateExact == Spec => []UpdateExact
<1>1. SInv /\ UInv => UpdateExact
  <2> SUFFICES ASSUME SInv, UInv, NEW j \in Jobs, job[j].kind = "update", Aligned(span[j])
               PROVE  /\ \A k \in DOMAIN job[j].pool : Within(k.point, span[j])
                      /\ j \in clean \ cancel /\ pc[j] = "fini" =>
                           \A k \in DOMAIN rows \cup DOMAIN job[j].pool : Within(k.point, span[j]) =>
                             Row(rows, k) = Row(CountFiles(job[j].files, span[j]), k)
    BY DEF UpdateExact
  <2>1. PoolIn(j) /\ CleanOk(j)
    BY DEF UInv
  <2>2. \A k \in DOMAIN job[j].pool : Within(k.point, span[j])
    BY <2>1 DEF PoolIn
  <2>3. ASSUME j \in clean \ cancel, pc[j] = "fini", NEW k, Within(k.point, span[j])
        PROVE  Row(rows, k) = Row(CountFiles(job[j].files, span[j]), k)
    <3>1. SameRows(j, Held(j)[Len(job[j].files)])
      BY <2>1, <2>3 DEF CleanOk
    <3>2. Len(job[j].files) \in Nat
      BY DEF SInv, DataInv, JobOk
    <3>3. CountFiles(job[j].files, span[j]) = Held(j)[Len(job[j].files)]
      BY <3>2, CountFilesSteps DEF Held
    <3>q. QED
      BY <2>3, <3>1, <3>3 DEF SameRows
  <2>q. QED
    BY <2>2, <2>3
<1>2. Spec => [](IInv /\ SInv)
  BY SInvHolds
<1>q. QED
  BY <1>1, <1>2, UInvInit, UInvStep, PTL DEF Spec
=============================================================================
