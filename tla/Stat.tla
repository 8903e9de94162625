-------------------------------- MODULE Stat --------------------------------
(***************************************************************************)
(* Accounting: the netflow tasks that read flow files and count their bytes *)
(* (modules/netflow/calcstat.c), the pools they count into and save         *)
(* (modules/stat/mbbstat.c), the methods of the statistics module           *)
(* (modules/stat/main.c) and the database connections all of them use       *)
(* (mbbdb.c, psql.c, sql/func.sql).                                         *)
(*                                                                         *)
(* A thread has a connection of its own once it has duplicated it; all      *)
(* others share one, guarded by a recursive mutex.  The database is         *)
(* external: PostgreSQL at its default level, read committed.  A statement  *)
(* sees the rows committed before it, waits for rows another transaction    *)
(* has written, and does not see rows another has inserted and not yet      *)
(* committed.  Any call of it may fail.                                     *)
(*                                                                         *)
(* A paused task is one that takes no step; Task is about how it pauses.    *)
(***************************************************************************)
EXTENDS Integers, Sequences, FiniteSets, FiniteSetsExt, TLC

CONSTANTS
  Jobs,      \* the background tasks, each made once
  Clients,   \* the threads of client sessions
  Wheel,     \* those whose user may call the methods of MBB_CAP_WHEEL
  Local,     \* the units whose flag local is set
  None,      \* no unit, no link, nobody; an argument end that is not given
  Gone,      \* a thread that has ended
  Files,     \* [names -> sequences of flows]
  Globs,     \* the sequences of file names that plain_stat and update_stat may find
  Feeds,     \* the names of files that feed_stat may be given
  Before,    \* the sequence of names of the files counted before the daemon started
  Args,      \* the arguments start, end, period of update and wipe
  Calendar,  \* Calendar[p][t]: the local day, month or year that t is in, from start to end
  Hour,      \* its length, 3600 seconds in the code
  MaxCalls,  \* bound: how many methods the clients call
  MaxFaults  \* bound: how often the database, a file or a thread fails in a behaviour

Threads == Jobs \cup Clients
Shared == "shared"
Conns == Threads \cup {Shared}

ASSUME ThreadsAssumption == Jobs \cap Clients = {} /\ {None, Shared} \cap Threads = {}

Flows == UNION {{Files[name][i] : i \in DOMAIN Files[name]} : name \in DOMAIN Files}

\* Time and octets of a flow are numbers; what a glob finds are files.
ASSUME FilesAssumption ==
  /\ \A name \in DOMAIN Files : Files[name] \in Seq(Flows)
  /\ \A x \in Flows : x.begin \in Int /\ x.nbytes \in Nat
  /\ Globs \subseteq Seq(DOMAIN Files) /\ Feeds \subseteq DOMAIN Files /\ Before \in Seq(DOMAIN Files)

ASSUME TimeAssumption ==
  /\ Hour \in Nat \ {0}
  /\ \A a \in Args :
       /\ a.start \in Int /\ (a.end = None \/ a.end \in Int)
       /\ a.period \in DOMAIN Calendar => Calendar[a.period][a.start] \in [start : Int, end : Int]

Tables == <<"unit_stat", "link_stat", "unit_link_stat">>

VARIABLES
  pc,      \* [Threads -> PC]
  job,     \* [Jobs -> records]: the task's data, see NoJob
  heap,    \* [Jobs -> {"none", "live", "freed", "twice"}]: the memory of its last pool
  frees,   \* [Jobs -> Nat]: how often the task's data was freed
  cancel,  \* the jobs that have noticed that they are cancelled
  saver,   \* owner of the mutex of mbb_stat_pool_save
  span,    \* [Threads -> periods]: start and end, of an update or a wipe
  wiped,   \* [Threads -> 0..3]: tables a wipe has cleaned
  found,   \* [Threads -> sets of keys]: the rows a waiting statement of a wipe has found
  own,     \* the threads with a connection of their own (db_priv_key)
  query,   \* [owner, depth]: query_mutex
  tx,      \* the connections in a transaction
  work,    \* [Conns -> rows]: rows written and not yet committed
  rows,    \* the committed rows of the three tables
  faults,  \* how much has failed
  calls,   \* how many methods have been called
  kept,    \* history: locks of query_mutex that a failed BEGIN left behind
  torn,    \* history: hours for which a save was committed in the middle of a wipe
  clean    \* history: updates of which nothing failed and nobody else touched the period

taskVars == <<job, heap, frees, cancel, saver>>
connVars == <<own, query, kept>>
dbVars == <<tx, work, rows, torn>>
vars == <<pc, span, wiped, found, clean, faults, calls, taskVars, connVars, dbVars>>

NoPeriod == [start |-> 0, end |-> 0]

\* kind "plain", "update" or "feed"; files and cur the list of files and how many of them
\* have been tried (td->pt); flow what is left of the open file; pool the records of the
\* last pool, ptr whether td->pool is set; rest the records still to be saved.
NoJob ==
  [kind |-> "plain", files |-> <<>>, cur |-> 0, flow |-> <<>>, pool |-> <<>>, ptr |-> FALSE, rest |-> {}]

\* Something outside the program fails.
Fault == faults < MaxFaults /\ faults' = faults + 1

Goto(x, l) == pc' = [pc EXCEPT ![x] = l]

-----------------------------------------------------------------------------
(* Pools and rows: functions from keys to numbers of bytes.                *)

Plus(a, b) == [in |-> a.in + b.in, out |-> a.out + b.out]
Zero == [in |-> 0, out |-> 0]
Row(f, k) == IF k \in DOMAIN f THEN f[k] ELSE Zero

\* rec_update: the record is made when it is missing.
RecUpdate(f, k, data) ==
  [i \in DOMAIN f \cup {k} |-> IF i = k THEN Plus(Row(f, k), data) ELSE f[i]]

\* The rows of f, and those that only g has.
Over(f, g) == [k \in DOMAIN f \cup DOMAIN g |-> IF k \in DOMAIN f THEN f[k] ELSE g[k]]

ExtractHour(t) == t - (t % Hour)

\* mbb_stat_feed: one entry counts for its unit, its link, and both.
Key(table, entry) ==
  [table |-> table, point |-> ExtractHour(entry.point),
   unit |-> IF table = "link_stat" THEN None ELSE entry.unit,
   link |-> IF table = "unit_stat" THEN None ELSE entry.link]

StatFeed(f, entry) ==
  LET Fed(g, t) == RecUpdate(g, Key(Tables[t], entry), [in |-> entry.in, out |-> entry.out])
  IN Fed(Fed(Fed(f, 1), 2), 3)

\* process_flow_data: what a flow counts for.  una and unb are the units its
\* addresses had when it began (mbb_umap_find), output and input the links found for
\* it (get_link_id); what stays between local units and others is not counted.
ProcessFlow(f, x) ==
  LET Entry(u, l, in, out) == [point |-> x.begin, unit |-> u, link |-> l, in |-> in, out |-> out]
      source == IF x.una # None /\ x.unb \notin Local /\ x.output # None
                  THEN StatFeed(f, Entry(x.una, x.output, 0, x.nbytes)) ELSE f
  IN IF x.unb # None /\ x.una \notin Local /\ x.input # None
       THEN StatFeed(source, Entry(x.unb, x.input, x.nbytes, 0)) ELSE source

Within(t, period) == period.start <= t /\ t < period.end

\* parse_time_args: the whole day, month or year of start, or start to end, or a single
\* second; None when it refuses them.  The step is for selects only.
ParseTimeArgs(a) ==
  CASE a.period = None /\ a.end = None  -> [start |-> a.start, end |-> a.start + 1]
    [] a.period = None /\ a.end # None /\ a.start < a.end
                                        -> [start |-> a.start, end |-> a.end]
    [] a.period # None /\ a.end = None /\ a.period \in DOMAIN Calendar
                                        -> Calendar[a.period][a.start]
    [] OTHER                            -> None

\* The loop of the work hooks: an update passes over flows outside its period, the others
\* count all of them.
CountFlow(f, x, period) ==
  IF period = None \/ Within(x.begin, period) THEN ProcessFlow(f, x) ELSE f

\* The flows of a file, one after the other.
CountFlows(f, flows, period) ==
  LET counted[i \in 0 .. Len(flows)] ==
        IF i = 0 THEN f ELSE CountFlow(counted[i - 1], flows[i], period)
  IN counted[Len(flows)]

\* The same of several files.
CountFiles(names, period) ==
  LET counted[i \in 0 .. Len(names)] ==
        IF i = 0 THEN <<>> ELSE CountFlows(counted[i - 1], Files[names[i]], period)
  IN counted[Len(names)]

Periods == {ParseTimeArgs(a) : a \in Args} \ {None}

Init ==
  /\ pc = [x \in Threads |-> IF x \in Jobs THEN "none" ELSE "idle"]
  /\ job = [j \in Jobs |-> NoJob]
  /\ heap = [j \in Jobs |-> "none"]
  /\ frees = [j \in Jobs |-> 0]
  /\ cancel = {}
  /\ saver = None
  /\ span = [x \in Threads |-> NoPeriod]
  /\ wiped = [x \in Threads |-> 0]
  /\ found = [x \in Threads |-> {}]
  /\ own = {}
  /\ query = [owner |-> None, depth |-> 0]
  /\ tx = {}
  /\ work = [n \in Conns |-> <<>>]
  /\ rows = CountFiles(Before, None)
  /\ faults = 0
  /\ calls = 0
  /\ kept = 0
  /\ torn = {}
  /\ clean = {}

-----------------------------------------------------------------------------
(* Connections.                                                            *)

\* db_get_conn
ConnOf(x) == IF x \in own THEN x ELSE Shared

\* db_query_lock would not wait.
MayQuery(x) == x \in own \/ query.owner \in {None, x}

QueryLock(x) ==
  query' = IF x \in own THEN query ELSE [owner |-> x, depth |-> query.depth + 1]

QueryUnlock(x) ==
  query' = IF x \in own THEN query
           ELSE IF query.depth = 1 THEN [owner |-> None, depth |-> 0]
           ELSE [query EXCEPT !.depth = @ - 1]

\* Another transaction has written the row and is not over.
Locked(n, k) == \E m \in Conns \ {n} : k \in DOMAIN work[m]

\* update_unit_stat, update_link_stat, update_unit_link_stat: add to the row, or insert it.
Upserted(n, k, data) ==
  Over([i \in {k} |-> Plus(Row(Over(work[n], rows), k), data)], work[n])

\* Mutant: the first hour of the period is left as it is.
CleanKeysOpen(n, table, period) ==
  {k \in DOMAIN rows \cup DOMAIN work[n] :
     k.table = table /\ period.start < k.point /\ k.point < period.end}

\* stat_table_clean: the rows of a table that the statement finds in the period.
CleanKeys(n, table, period) ==
  {k \in DOMAIN rows \cup DOMAIN work[n] : k.table = table /\ Within(k.point, period)}

\* The connection's transaction is over, with what it has written or without.
DbEnd(n, committed) ==
  /\ tx' = tx \ {n}
  /\ work' = [work EXCEPT ![n] = <<>>]
  /\ rows' = IF committed THEN Over(work[n], rows) ELSE rows

\* The updates whose period the transaction of n changes.
Disturbed(n) ==
  {j \in Jobs : \E k \in DOMAIN work[n] : Within(k.point, span[j])}

-----------------------------------------------------------------------------
(* mbb_stat_db_wipe, called by mbb-stat-wipe and by the init hook of an     *)
(* update.  It takes no part in the mutex of the saves.                     *)

\* The task's thread has ended, and its connection and its data with it.
Ended(j, l) ==
  /\ Goto(j, l)
  /\ own' = own \ {j}
  /\ job' = [job EXCEPT ![j] = NoJob]
  /\ cancel' = cancel \ {j}
  /\ span' = [span EXCEPT ![j] = NoPeriod]
  /\ clean' = clean \ {j}

\* The wipe has failed: the method answers with the error, a task ends with its init
\* hook and without its fini hook.
WipeFailed(x) ==
  IF x \in Jobs THEN Ended(x, "dead")
  ELSE /\ Goto(x, "idle")
       /\ span' = [span EXCEPT ![x] = NoPeriod]
       /\ UNCHANGED <<own, job, cancel, clean>>

\* mbb_db_begin, make_call: the mutex is taken before BEGIN ...
WipeBegin(x) ==
  /\ pc[x] = "begin"
  /\ MayQuery(x)
  /\ QueryLock(x)
  /\ tx' = tx \cup {ConnOf(x)}
  /\ clean' = clean \cup ({x} \cap Jobs)
  /\ Goto(x, "wipe")
  /\ UNCHANGED <<span, wiped, found, faults, taskVars, own, kept, work, rows, torn>>

\* Mutant: the mutex is not let go of when a statement failed.
RollbackKeepsMutex(x) ==
  /\ pc[x] \in {"wipe", "wait"}
  /\ wiped[x] < Len(Tables)
  /\ Fault
  /\ DbEnd(ConnOf(x), FALSE)
  /\ WipeFailed(x)
  /\ wiped' = [wiped EXCEPT ![x] = 0]
  /\ found' = [found EXCEPT ![x] = {}]
  /\ UNCHANGED <<heap, frees, saver, query, kept, torn>>

\* ... and is not let go of when BEGIN fails.
WipeBeginFails(x) ==
  /\ pc[x] = "begin"
  /\ MayQuery(x)
  /\ Fault
  /\ QueryLock(x)
  /\ kept' = IF x \in own THEN kept ELSE kept + 1
  /\ WipeFailed(x)
  /\ UNCHANGED <<wiped, found, heap, frees, saver, dbVars>>

\* The rows are set to zero.  (The query mutex is taken once more and let go of, inside
\* the transaction.)
Cleaned(x, keys) ==
  LET n == ConnOf(x)
  IN /\ ~\E k \in keys : Locked(n, k)
     /\ work' = [work EXCEPT ![n] = Over([k \in keys |-> Zero], @)]
     /\ wiped' = [wiped EXCEPT ![x] = @ + 1]
     /\ Goto(x, "wipe")
     /\ UNCHANGED <<span, clean, faults, taskVars, connVars, tx, rows, torn>>

WipeTable(x) ==
  /\ pc[x] = "wipe"
  /\ wiped[x] < Len(Tables)
  /\ Cleaned(x, CleanKeys(ConnOf(x), Tables[wiped[x] + 1], span[x]))
  /\ UNCHANGED found

\* The statement waits for a row of another transaction; it will not see what that one
\* has inserted.
WipeWaits(x) ==
  LET keys == CleanKeys(ConnOf(x), Tables[wiped[x] + 1], span[x])
  IN /\ pc[x] = "wipe"
     /\ wiped[x] < Len(Tables)
     /\ \E k \in keys : Locked(ConnOf(x), k)
     /\ found' = [found EXCEPT ![x] = keys]
     /\ Goto(x, "wait")
     /\ UNCHANGED <<span, wiped, clean, faults, taskVars, connVars, dbVars>>

WipeResumes(x) ==
  /\ pc[x] = "wait"
  /\ Cleaned(x, found[x])
  /\ found' = [found EXCEPT ![x] = {}]

\* A statement fails: mbb_db_rollback lets go of the mutex.
WipeRollback(x) ==
  /\ pc[x] \in {"wipe", "wait"}
  /\ wiped[x] < Len(Tables)
  /\ Fault
  /\ DbEnd(ConnOf(x), FALSE)
  /\ QueryUnlock(x)
  /\ WipeFailed(x)
  /\ wiped' = [wiped EXCEPT ![x] = 0]
  /\ found' = [found EXCEPT ![x] = {}]
  /\ UNCHANGED <<heap, frees, saver, kept, torn>>

\* mbb_db_commit: whether it fails is not looked at.
WipeCommit(x) ==
  /\ pc[x] = "wipe"
  /\ wiped[x] = Len(Tables)
  /\ QueryUnlock(x)
  /\ \/ /\ DbEnd(ConnOf(x), TRUE)
        /\ clean' = clean \ (Disturbed(ConnOf(x)) \ {x})
        /\ UNCHANGED faults
     \/ /\ DbEnd(ConnOf(x), FALSE)
        /\ clean' = clean \ {x}
        /\ Fault
  /\ wiped' = [wiped EXCEPT ![x] = 0]
  /\ IF x \in Jobs THEN Goto(x, "open") /\ UNCHANGED span
     ELSE Goto(x, "idle") /\ span' = [span EXCEPT ![x] = NoPeriod]
  /\ UNCHANGED <<found, taskVars, own, kept, torn>>

-----------------------------------------------------------------------------
(* A netflow task: made by a method, then its thread with the hooks init,   *)
(* work and fini and a look at cancel after every round of work.            *)

\* task_poll: a cancellation may have come since the last look.
Poll(j) == cancel' \in {cancel, cancel \cup {j}}

\* The loop of mbb_task_work after a round of work.
Polled(j, l) == Poll(j) /\ Goto(j, IF j \in cancel' THEN "fini" ELSE l)

\* mbb_stat_pool_free
PoolFree(j) ==
  heap' = [heap EXCEPT ![j] = IF @ = "live" THEN "freed" ELSE "twice"]

\* plain_stat, update_stat and feed_stat; feed opens its only file itself.
Create(j) ==
  /\ pc[j] = "none"
  /\ \/ \E g \in Globs, k \in {"plain", "update"} :
          /\ job' = [job EXCEPT ![j].kind = k, ![j].files = g]
          /\ IF k = "update" THEN \E p \in Periods : span' = [span EXCEPT ![j] = p]
             ELSE UNCHANGED span
     \/ \E name \in Feeds :
          /\ job' = [job EXCEPT ![j].kind = "feed", ![j].flow = Files[name]]
          /\ UNCHANGED span
  /\ Goto(j, "init")
  /\ UNCHANGED <<wiped, found, clean, faults, heap, frees, cancel, saver, connVars, dbVars>>

\* g_thread_create fails: mbb_task_create has run the fini hook on the data, and
\* feed_stat frees them again.
CreateFails(j) ==
  /\ pc[j] = "none"
  /\ Fault
  /\ \E k \in {"plain", "update", "feed"} :
       /\ Goto(j, IF k = "feed" THEN "unfed" ELSE "refused")
       /\ frees' = [frees EXCEPT ![j] = IF k = "feed" THEN 2 ELSE 1]
  /\ UNCHANGED <<span, wiped, found, clean, job, heap, cancel, saver, connVars, dbVars>>

\* base_task_init, feed_stat_init: a connection of the task's own; then an update wipes
\* its period, a feed makes its pool.
InitHook(j) ==
  /\ pc[j] = "init"
  /\ own' = own \cup {j}
  /\ IF job[j].kind = "feed"
       THEN /\ job' = [job EXCEPT ![j].pool = <<>>, ![j].ptr = TRUE]
            /\ heap' = [heap EXCEPT ![j] = "live"]
            /\ Goto(j, "read")
       ELSE /\ Goto(j, IF job[j].kind = "update" THEN "begin" ELSE "open")
            /\ UNCHANGED <<job, heap>>
  /\ UNCHANGED <<span, wiped, found, clean, faults, frees, cancel, saver, query, kept, dbVars>>

\* mbb_db_dup_conn fails: the thread ends without the fini hook.
InitFails(j) ==
  /\ pc[j] = "init"
  /\ Fault
  /\ Ended(j, "dead")
  /\ UNCHANGED <<wiped, found, heap, frees, saver, query, kept, dbVars>>

\* path_tree_open_next: a file that cannot be opened is passed over.
OpenNext(j) ==
  /\ pc[j] = "open"
  /\ job[j].cur < Len(job[j].files)
  /\ LET next == [job[j] EXCEPT !.cur = @ + 1]
     IN \/ /\ job' = [job EXCEPT ![j] =
                       [next EXCEPT !.flow = Files[next.files[next.cur]], !.pool = <<>>, !.ptr = TRUE]]
           /\ heap' = [heap EXCEPT ![j] = "live"]
           /\ Polled(j, "read")
           /\ UNCHANGED <<clean, faults>>
        \/ /\ Fault
           /\ job' = [job EXCEPT ![j] = next]
           /\ Polled(j, "open")
           /\ clean' = clean \ {j}
           /\ UNCHANGED heap
  /\ UNCHANGED <<span, wiped, found, frees, saver, connVars, dbVars>>

NoMoreFiles(j) ==
  /\ pc[j] = "open"
  /\ job[j].cur = Len(job[j].files)
  /\ Goto(j, "fini")
  /\ UNCHANGED <<span, wiped, found, clean, faults, taskVars, connVars, dbVars>>

\* The period whose flows the task counts.
Counted(j) == IF job[j].kind = "update" THEN span[j] ELSE None

\* plain_task_work, update_task_work, feed_stat_work: the next flow of the file.
ReadFlow(j) ==
  /\ pc[j] = "read"
  /\ job[j].flow # <<>>
  /\ job' = [job EXCEPT ![j].flow = Tail(@),
                        ![j].pool = CountFlow(@, Head(job[j].flow), Counted(j))]
  /\ Polled(j, "read")
  /\ UNCHANGED <<span, wiped, found, clean, faults, heap, frees, saver, connVars, dbVars>>

-----------------------------------------------------------------------------
(* mbb_stat_pool_save                                                      *)

\* At the end of the file: wait for the mutex, look at cancel, and BEGIN.
SaveBegin(j) ==
  /\ pc[j] = "read"
  /\ job[j].flow = <<>>
  /\ saver = None
  /\ saver' = j
  /\ \/ /\ tx' = tx \cup {j}
        /\ job' = [job EXCEPT ![j].rest = DOMAIN job[j].pool]
        /\ Goto(j, "record")
        /\ UNCHANGED <<clean, faults, cancel>>
     \/ /\ \/ cancel' = cancel \cup {j} /\ UNCHANGED faults
           \/ Fault /\ UNCHANGED cancel
        /\ clean' = clean \ {j}
        /\ Goto(j, "out")
        /\ UNCHANGED <<tx, job>>
  /\ UNCHANGED <<span, wiped, found, heap, frees, connVars, work, rows, torn>>

\* save_records, table by table, in the order of a hash table.
NextRecords(j) ==
  LET Rank(k) == CHOOSE t \in DOMAIN Tables : Tables[t] = k.table
  IN {k \in job[j].rest : \A i \in job[j].rest : Rank(k) <= Rank(i)}

SaveRecord(j) ==
  /\ pc[j] = "record"
  /\ \E k \in NextRecords(j) :
       /\ ~Locked(j, k)
       /\ work' = [work EXCEPT ![j] = Upserted(j, k, job[j].pool[k])]
       /\ job' = [job EXCEPT ![j].rest = @ \ {k}]
  /\ UNCHANGED <<pc, span, wiped, found, clean, faults, heap, frees, cancel, saver, connVars, tx, rows, torn>>

\* Mutant: what was saved before the record that failed is committed.
SaveCommitsPart(j) ==
  /\ pc[j] = "record"
  /\ job[j].rest # {}
  /\ \/ cancel' = cancel \cup {j} /\ UNCHANGED faults
     \/ Fault /\ UNCHANGED cancel
  /\ DbEnd(j, TRUE)
  /\ clean' = clean \ {j}
  /\ Goto(j, "out")
  /\ UNCHANGED <<span, wiped, found, job, heap, frees, saver, connVars, torn>>

\* The task was cancelled, or a record could not be saved.
SaveRollback(j) ==
  /\ pc[j] = "record"
  /\ job[j].rest # {}
  /\ \/ cancel' = cancel \cup {j} /\ UNCHANGED faults
     \/ Fault /\ UNCHANGED cancel
  /\ DbEnd(j, FALSE)
  /\ clean' = clean \ {j}
  /\ Goto(j, "out")
  /\ UNCHANGED <<span, wiped, found, job, heap, frees, saver, connVars, torn>>

\* A wipe that covers the hour has begun with its statements and is not done with them.
BeingWiped(point) ==
  \E x \in Threads : /\ Within(point, span[x])
                     /\ wiped[x] \in 1 .. Len(Tables) - 1 \/ pc[x] = "wait"

\* db_commit: a failure is logged and nothing else.
SaveCommit(j) ==
  /\ pc[j] = "record"
  /\ job[j].rest = {}
  /\ \/ /\ DbEnd(j, TRUE)
        /\ clean' = clean \ (Disturbed(j) \ {j})
        /\ torn' = torn \cup {p \in {k.point : k \in DOMAIN work[j]} : BeingWiped(p)}
        /\ UNCHANGED faults
     \/ /\ DbEnd(j, FALSE)
        /\ clean' = clean \ {j}
        /\ Fault
        /\ UNCHANGED torn
  /\ Goto(j, "out")
  /\ UNCHANGED <<span, wiped, found, taskVars, connVars>>

\* Mutant: the task keeps its pointer to the pool it gave away.
ForgetNothing(j) == UNCHANGED job

ForgetPool(j) == job' = [job EXCEPT ![j].ptr = FALSE]

\* The mutex is let go of and the pool freed, saved or not; the work hook forgets it.
SaveOut(j) ==
  /\ pc[j] = "out"
  /\ saver' = None
  /\ PoolFree(j)
  /\ ForgetPool(j)
  /\ IF job[j].kind = "feed" THEN Goto(j, "fini") /\ UNCHANGED cancel
     ELSE Polled(j, "open")
  /\ UNCHANGED <<span, wiped, found, clean, faults, frees, connVars, dbVars>>

\* base_task_free, feed_stat_free; the thread ends and closes its connection.
FiniHook(j) ==
  /\ pc[j] = "fini"
  /\ IF job[j].ptr THEN PoolFree(j) ELSE UNCHANGED heap
  /\ frees' = [frees EXCEPT ![j] = @ + 1]
  /\ Ended(j, "done")
  /\ UNCHANGED <<wiped, found, faults, saver, query, kept, dbVars>>

-----------------------------------------------------------------------------
(* Client threads.                                                         *)

Call(c) ==
  /\ pc[c] = "idle"
  /\ calls < MaxCalls
  /\ calls' = calls + 1

\* stat_common: mbb_db_dup_conn_once; from then on the thread has its own connection,
\* with the view "dates" that only lives there.
StatCommon(c) ==
  /\ Call(c)
  /\ c \notin own
  /\ own' = own \cup {c}
  /\ UNCHANGED <<pc, span, wiped, found, clean, faults, taskVars, query, kept, dbVars>>

\* stat_wipe
StatWipe(c) ==
  /\ c \in Wheel
  /\ Call(c)
  /\ \E p \in Periods : span' = [span EXCEPT ![c] = p]
  /\ Goto(c, "begin")
  /\ UNCHANGED <<wiped, found, clean, faults, taskVars, connVars, dbVars>>

\* mbb_db_query of any other method, on another table and on the shared connection.
Query(c) ==
  /\ Call(c)
  /\ c \notin own
  /\ MayQuery(c)
  /\ QueryLock(c)
  /\ Goto(c, "query")
  /\ UNCHANGED <<span, wiped, found, clean, faults, taskVars, own, kept, dbVars>>

QueryDone(c) ==
  /\ pc[c] = "query"
  /\ QueryUnlock(c)
  /\ Goto(c, "idle")
  /\ UNCHANGED <<span, wiped, found, clean, faults, calls, taskVars, own, kept, dbVars>>

\* The thread of the connection ends, and another takes its place; the mutex it has
\* left locked is nobody's to unlock.
Disconnect(c) ==
  /\ pc[c] = "idle"
  /\ own' = own \ {c}
  /\ query' = [query EXCEPT !.owner = IF @ = c THEN Gone ELSE @]
  /\ UNCHANGED <<pc, span, wiped, found, clean, faults, calls, taskVars, kept, dbVars>>

-----------------------------------------------------------------------------
Wipe(x) ==
  \/ WipeBegin(x) \/ WipeBeginFails(x) \/ WipeTable(x) \/ WipeWaits(x) \/ WipeResumes(x)
  \/ WipeRollback(x) \/ WipeCommit(x)

Job(j) ==
  \/ Create(j) \/ CreateFails(j) \/ InitHook(j) \/ InitFails(j)
  \/ OpenNext(j) \/ NoMoreFiles(j) \/ ReadFlow(j)
  \/ SaveBegin(j) \/ SaveRecord(j) \/ SaveRollback(j) \/ SaveCommit(j)
  \/ SaveOut(j) \/ FiniHook(j)

Client(c) ==
  \/ StatCommon(c) \/ StatWipe(c) \/ Query(c) \/ QueryDone(c) \/ Disconnect(c)

Next ==
  \/ (\E x \in Threads : Wipe(x)) /\ UNCHANGED calls
  \/ (\E j \in Jobs : Job(j)) /\ UNCHANGED calls
  \/ \E c \in Clients : Client(c)

Spec == Init /\ [][Next]_vars

-----------------------------------------------------------------------------
(* Properties.                                                             *)

Total(keys) == <<MapThenSumSet(LAMBDA k : rows[k].in, keys), MapThenSumSet(LAMBDA k : rows[k].out, keys)>>

RowsOf(table) == {k \in DOMAIN rows : k.table = table}

\* The three tables tell the same story, whatever saves fail, are cancelled, or race with
\* each other: what a unit, or a link, has in an hour is what it has with all links, or
\* units, together (mbb_stat_pool_save, mbb_stat_db_wipe).  The exception is in the code: a
\* wipe is not kept apart from the saves, and one that a save is committed in the middle
\* of leaves its rows in one table and not in another.
TablesAgree ==
  LET both == {k \in RowsOf("unit_link_stat") : k.point \notin torn}
  IN /\ \A k \in RowsOf("unit_stat") : k.point \notin torn =>
          Total({k}) = Total({i \in both : i.unit = k.unit /\ i.point = k.point})
     /\ \A k \in RowsOf("link_stat") : k.point \notin torn =>
          Total({k}) = Total({i \in both : i.link = k.link /\ i.point = k.point})
     /\ \A i \in both : \E k \in RowsOf("unit_stat") : i.unit = k.unit /\ i.point = k.point

\* The period begins and ends with an hour of the tables.
Aligned(period) == period.start % Hour = 0 /\ period.end % Hour = 0

\* An update of whole hours counts nothing outside its period, and one that nothing failed
\* in and nobody interfered with leaves in it exactly what its files hold, once, whatever
\* was counted before: the rows that are wiped are those of the flows that are read again
\* (update_task_init, update_task_work, stat_table_clean, mbb_stat_extract_hour).
UpdateExact ==
  \A j \in Jobs : job[j].kind = "update" /\ Aligned(span[j]) =>
    /\ \A k \in DOMAIN job[j].pool : Within(k.point, span[j])
    /\ j \in clean \ cancel /\ pc[j] = "fini" =>
         \A k \in DOMAIN rows \cup DOMAIN job[j].pool : Within(k.point, span[j]) =>
           Row(rows, k) = Row(CountFiles(job[j].files, span[j]), k)

\* A transaction on the shared connection is one thread's alone: no other query gets into
\* it, to be lost with it; and the mutex that sees to it is held by nobody who has
\* finished, but for what a failed BEGIN leaves behind (make_call, db_query_lock,
\* db_query_unlock).
SharedConnection ==
  LET users == {c \in Clients \ own : pc[c] \in {"wipe", "wait", "query"}}
  IN /\ Cardinality(users) <= 1
     /\ users \subseteq {query.owner}
     /\ Shared \in tx <=> \E c \in users : pc[c] \in {"wipe", "wait"}
     /\ query.depth = Cardinality(users) + kept

\* Every pool is freed once, and not used after it; so are the data of a task, but for a
\* task whose init hook fails, which keeps them, and for a feed without a thread, which
\* frees them twice (mbb_stat_pool_save, base_task_free, feed_stat_free, feed_stat).
FreedOnce ==
  \A j \in Jobs :
    /\ job[j].ptr <=> heap[j] = "live"
    /\ heap[j] # "twice"
    /\ frees[j] = CASE pc[j] \in {"done", "refused"} -> 1 [] pc[j] = "unfed" -> 2 [] OTHER -> 0
=============================================================================
