# TLA+ models of mbbd

`mbbd` is a traffic accounting daemon. Clients connect over XML or HTTP, each
connection is served by a thread of its own, and a request calls a *method*. The
methods keep a registry (users, consumers, units, addresses, gateways) in memory
and in a PostgreSQL database, start background *tasks*, and load *modules*
(shared objects) that bring more methods and tasks.

The specifications here are translated from the C sources, one module per
component. `PROJECT.json` maps every definition to the lines it stands for, and
lists the runs, the mutants that show each property can fail, the hazards and
the theorems.

## Inventory

| component | state | operations | talks to | hard behaviour | what makes it correct | module |
|---|---|---|---|---|---|---|
| tasks (`mbbtask.c`) | table of tasks; per task `run`, `cancel`, a mutex and a condition | create, work/poll loop, run, stop, cancel, list | modules (a reference per task), stat save | pause, cancel and resume against each other, freeing | no use after free, no lost wake-up, a stop takes effect, a cancelled task ends | `Task` |
| sessions (`mbbsession.c`) | table of sessions, `killed`, user, variables | new, auth, kill, quit, list | client threads, users, variables | kill against the end of a session | nobody marks a freed session; references to users balance | `Client`, `Access`, `Vars` |
| XML client threads (`mbbthreadxml.c`, `mbbmsgqueue.c`, `signaller.c`) | message queue, signaller, `send_only` | poll loop, read, write, end | sessions, log, methods | signal against sleep, end against others' log messages | no freed queue is used, all answers go out, a kill is noticed | `Client` |
| log (`mbblog.c`) | table of subscribers, levels, trace file | log, register, levels | every component | logging into other threads' queues | as above | `Client` |
| modules (`mbbmodule.c`, `mbbfunc.c`, `mbbauth.c`) | module table, references, `run`; method and auth tables | load, unload, run, stop, export, import, call, auth | tasks, every method | unload against call, stop against task and import | code in use stays mapped, references balance | `Module` |
| server (`mbbserver.c`) | listening sockets, parameter block | accept, hand over | client threads | block reused while the thread still reads it; no thread can be made | each thread serves its own connection | `Server` |
| HTTP client (`mbbthreadhttp.c`, `http.c`) | request, headers, batch | read, auth, call | sessions, methods | answers collected in lists that turn round | one answer per request, in order | `Server` |
| variables (`mbbvar.c`, `varconv.c`) | tables per session and for all, caches | register, read, write, cache | sessions, modules | unload against use | no stale variable, no value from who may not set it | `Vars` |
| registry (`mbbunit*.c`, `mbbconsumer*.c`, `mbbinetpool.c`, `mbbtime.c`, `mbbdbload.c`) | units, consumers, addresses with times | add, drop, rename, times, set and unset parents | database, map | a query fails between two changes; a restart | memory equals the database; times nest | `Registry` |
| users, groups, keys (`mbbuser*.c`, `mbbgroup*.c`, `mbbauthkeys.c`) | users with references and a spin lock, group tables, keys | add, drop, rename, secrets, capabilities, keys | sessions, consumers | a user is dropped or renamed while sessions, keys, groups or listings hold it | references balance, authority is what the database grants | `Access` |
| gateways (`mbbgateway*.c`, `mbboperator*.c`, `mbbgwlink*.c`) | gateways, operators, queues of links | add, drop, rename, times | database, netflow | a change kept after a failed query; rows loaded in any order | one link of an interface in force at a time | `Gateway` |
| address map (`map.c`, `slicer.c`, `separator.c`, `mbbinetmap.c`) | slices of addresses and times, node lists, copies | add, delete, split, glue, reload, find | registry, netflow, map_reload | splitting at boundaries, collisions half way | the finder returns the owner of the address | `Slicer`, `InetMap`, `AddressPlan` |
| database (`mbbdb.c`, `psql.c`, `query.c`) | a shared connection with a recursive mutex, connections of threads | query, begin, commit, rollback | every method that stores | queries that fail, two threads on one connection | a refused change is not half done, a transaction is one thread's alone | `Stat`, and in `Registry`, `Access`, `Gateway` |
| statistics and netflow (`modules/stat`, `modules/netflow/calcstat.c`) | pools of counters, a task's files, three tables of counters | plain, update and feed tasks; wipe; queries | tasks, database, address map, gateways | a wipe among saves, a failed COMMIT, cancel in a save | what is counted is counted once, the tables agree, a pool is freed once | `Stat`, `Task` |
| map_reload, private, auth_salt | tables of sessions | methods | registry, variables, sessions | tables that outlive a module | as their components | `InetMap`, `Vars`, `Access` |
| attr, auth_apache, pinger, shell (`mbbsh/`), rest of `lib/` | - | queries, files, terminal, Lua, XML text | - | sequential | - | not modelled |

## Modules

### Task, MCTask, TaskProofs

`Task` models `mbbtask.c`, and of the statistics module (`modules/stat/mbbstat.c`)
the save that runs inside a task under a mutex. The state is the table of tasks,
the fields of `struct mbb_task` (`run`, `cancel`), who holds each task's mutex and
the save mutex, who reads the table, and a program counter per client thread and
per task thread. There is one action per piece of code between two points where
another thread can observe a difference: `TaskNew`, `Spawn`, `FindTask`, `LockTask`,
`Signal`, `SetRun`, `Poll`, `PauseLock`, `PauseTest`, `Unlink`, `FreeTask` and so on.
The reader-writer lock gives way to writers (`mbbplock.h` is a GStaticRWLock).
`g_cond_wait` may wake up by itself (`SpuriousWakeup`).

Run `task`: one task, two clients, fair. Two clients are what it takes for one to stop a
task the other cancels. `NoDanglingUse`, `NoLostWakeup`, `StopTakesEffect` and
`SaveMutexReleased`; a cancelled task ends (`CancelEnds`) and every method returns
(`MethodEnds`). The safety properties are proved for any number of tasks, two tasks that
save at the same time included.

`NoDanglingUse` is about the methods that look a task up in the table, or walk over it.
`mbb_task_create` also reads `task->id` once more after it has made the thread
(`mbbtask.c:241`), with no lock: a task that ends at once has been freed by then. The
model keeps the identity that the read would give (`ReturnId`), and the property says
nothing about that one read.

`CancelEnds` carries an exception: a cancelled task may wait for the save mutex while
its owner is paused inside its save. This is what `save_records` really does, since it
polls its task while it holds the mutex.

Fairness: weak fairness of each thread's own steps, since threads are scheduled by
the operating system, and strong fairness where a thread waits for a mutex that
others take again and again. No client has to send anything: cancels and resumes are
what the properties start from.

Proved (`TaskProofs`, for every finite or infinite set of tasks and clients):
`TaskTypeOK`, `TaskNoDanglingUse`, `TaskNoLostWakeup`, `TaskStopTakesEffect`,
`TaskSaveMutexReleased`. They follow from one inductive invariant `IInv`:

* `ReadersInv`, who reads the table is exactly who is between lock and unlock;
* `TableInv`, a task in the table is alive, and one a reader has found stays in it
  because `Unlink` needs the writer's lock;
* `SpawnInv`, a task that was not spawned has no thread;
* `MutexInv`, the owner of a task's mutex is the method or the task whose program
  counter says so;
* `LateInv` and `RecordInv`, how much work is done since a stop, and that a record is
  written only inside a save.

`NoDanglingUse` alone is not inductive: that a found task is alive depends on the
reader's lock, and that in turn on the program counters. `NoLostWakeup` needs
`MutexInv`: a task that tests `run` and `cancel` and then waits holds the mutex in
between, and whoever changes `run` signals under the same mutex after the change.
The prover takes each action against each part of `IInv` (`TypeStep`,
`ReadersStep`, ...), and `IInvHolds` puts them together.

### Client, MCClient, ClientProofs

`Client` models the XML connections: `mbbthreadxml.c`, `mbbmsgqueue.c`, `signaller.c`,
the session table and `kill_session` of `mbbsession.c`, and the subscribers of
`mbblog.c`. A thread's program counter follows `mbb_thread_client`,
`mbb_thread_xml_client` and `xml_client_loop`; a request runs inside the loop and may
subscribe to the log, unsubscribe, kill a session, or do something else and succeed or
fail. Whatever logs at message level (a new session, a call, a failed call, input that
is not XML, the end) pushes into the queues of the subscribers and raises their
signallers (`LogThen`, `LogFind`, `LogPush`, `LogEnd`). Messages of the other levels
(XML, query, debug) take the same path and are left out. A successful authentication
is to this model a method of no interest (`OtherMethod`). What is read is abstracted
to: nothing more, a part, not XML, a document the loop answers itself, a request.
poll's rare failures, which end the loop like a failed read, are not told apart.

`kill_session` marks its target and replaces the target's `kill_msg` while it holds only
the reader's lock, so several kills of one session overlap, and the victim reads the
message with no lock at all. It is four steps here (`KillMark`, `KillTest`, `KillFree`,
`KillSet`), and the victim's part two, `NoticeKill`, which loads the pointer, and
`PushKill`, which uses it. A message is known by the kill that made it (`nth`, `killMsg`,
and `held` in the loop); `freed`, `kills` and `fault` are histories of who freed which,
of how often a session was marked, and of what happened to its message.

Runs: `client_safety` (two connections, three requests between them, all methods) and
`client_liveness` (one request, to subscribe or to kill). Two threads suffice for a
killer and a victim, a writer and a subscriber, and for both at once; three requests
are what it takes to subscribe, be killed and unsubscribe. Messages also come from
connections that begin and end, without any request.

What `client_safety` shows: nobody uses a freed queue, signaller or session (`NoFreedUse`); a
session the daemon ends has been sent its answers and its kill message
(`NothingUnsent`); it reads at most once more after it noticed the kill, because
`pfd.events` is computed first (`OneReadAfterKill`). The kill message is the exception to the
first, and `NoFreedUse` says how far it goes: the victim can read a freed message only if it
was killed twice, a message can be freed twice only if the session was killed three
times, and `mbb_session_quit`, which comes after all of them, never frees one again.

Fairness (`client_liveness`): threads are scheduled (weak fairness of each thread's own steps),
and nothing is asked of the clients, who may stay silent or stop reading for ever. Under that
`KillNoticed`, a killed session queues its kill message and reads no more, or has ended by
itself, and `QueueWatched`, what is queued is sent, or the connection ends, or the thread sleeps
in a poll that returns as soon as the client takes more. Both have one exception, the history
`missed`: `signaller_unblock` and `poll` are two steps, and a signal which comes after the loop
has looked at `killed` and at the queue, and before it sleeps, is lost
(`mbbthreadxml.c:185-191`). Such a session sleeps until its client does something. That a
killed session *ends* is not claimed: its client may never take the last messages.

Proved (`ClientProofs`, for any set of connections and any number of requests):
`ClientTypeOK`, `ClientNoFreedUse`, `ClientNothingUnsent`, `ClientOneReadAfterKill`. The
inductive invariant has, besides the types:

* `TablesInv`: a thread's place in its life (in the loop, the log messages of its requests
  included, or at one of the steps of its end) says in which tables it is and whether its
  queue is live;
* `HoldersInv`: what a reader has found stays in its table for as long as it has the lock;
* `NothingUnsent` itself, and `LateInv`: a session that has read after its kill only sends,
  and does not poll for input any more;
* `KillInv`, for the kill message: the kills of a session have numbers, and two killers two
  of them (`KillersInv`, `DistinctInv`); a message that is in place or was freed is that of a
  kill that was made, and it was another kill that freed it (`MessagesInv`); one that is freed
  and still in place has a killer about to replace it (`ReplacedInv`).

`NoFreedUse` follows from the first two and the last: it is not inductive, since that a found
queue is live depends on the order in which a thread leaves the tables before it frees.

### Module, MCModule, ModuleProofs

`Module` models `mbbmodule.c` (the module table, load and unload with their hooks,
export and import, references, run and stop) with the method table `mbbfunc.c` and the
auth table `mbbauth.c`, and the tasks that a module's methods create. A client thread
calls a method (`Search`, `UseFound`, then `CreateTask`/`Spawn`, `Return`), loads or
unloads a module, or runs and stops one.

Runs:

* `module`: four modules. `base` and `twin` have functions of one name; `auth` and `copy`
  have authorization methods of one name, and `copy` imports from `base`, as auth_salt does
  from private. Two client threads call, load, unload, stop and run any of them, and there is
  a task. Code in use stays mapped for callers, tasks and importers (`CallersMapped`,
  `TasksMapped`, `ImportsMapped`), a reference count is the number of those who hold one
  (`RefsCounted`), and a load or an unload lets go of the module table in the end
  (`LockReleased`). It takes two modules of one name for a wrong entry to be removed or a load
  to end as void, and two callers for an unload or a stop during a call.
* `module_task_stop` (disagreement): `mbb_task_new` ignores that `mbb_module_use`
  refuses a stopped module; a task created by a method of a module that is being
  stopped runs without a reference, and the module is unmapped under it
  (`TasksStayMapped` fails).

`mbb_module_import` ignores the refusal in the same way (`mbbmodule.c:316`). Who was refused
goes on as a user all the same (`refused`), and gives back at its end a reference it
never had, which may be another's and may take the count below zero. The three properties
therefore have an exception that is exactly this: `slighted`, the modules of which a task or an
importer was refused a reference since they were loaded. It says that nothing else unmaps code
in use, whatever is stopped and run again. A user whose module's structure was freed under it is
`stale`; what it does after that is undefined, and the model goes on only where it touches
neither the structure nor the code (a stale caller creates no task).

A load that ends as "void module" after it has imported, because the name of its authorization
method is taken, keeps the reference it took (`mbbmodule.c:443`), and the exporter can never be
unloaded again. The history variable `extra` counts these references, less the ones given
back that were never taken; `MaxExtra` bounds it where a load begins. `RefsCounted` says that no
other reference is ever lost or kept, and that `extra` is negative for slighted modules only.

Fairness: the threads that load, unload and search are scheduled, and an authorization
method returns (weak). Nothing is assumed of functions and tasks, which may run for hours.

Proved (`ModuleProofs`, for any finite sets of modules and callers, any imports and any
number of tasks): `ModuleTypeOK`, `ModuleCallersMapped`, `ModuleTasksMapped`,
`ModuleImportsMapped`, `ModuleRefsCounted`. They assume of the constants that the sets are
finite and that callers, modules and tasks are apart (`SetsAssumption`), that a module does not
import itself (`ImportAssumption`) and that the bounds are numbers; any module may be stopped and
run, and names may be shared as they like. The inductive invariant:

* `WriterInv` and `TablesInv`: who has the lock as writer, and the order in which a module
  is mapped, registered, put into the table, and leaves them again; `DepInv`: only a module in
  the table or on its way there has imported another;
* `SpawnInv`: a task without a thread yet belongs to one creator, so that its reference is
  given back once; `LoadingInv`: a module that is being loaded is not stale;
* `Counts`: a user of a module out of the table is stale (`UserInv`), refused and stale users
  are users of slighted modules (`HistInv`), `RefsCounted` for modules out of the table too
  (`RefsInv`), and a module that is being unloaded has no references unless it was slighted
  (`ClosingInv`). `UnloadBegin` asks for no references, so nobody but refused users is
  left then.

What an action does to the users of modules is one of six things (`Effect`): nothing
(`Kept`), a user more, with or without a reference (`Gained`), a user less that gives one back
(`Lost`) or keeps it (`Voided`), a module that goes (`Freed`) or is about to come (`Fresh`).
`EffectStep` shows that every action is one of them and `EffectCounts` that each of
them keeps `Counts`; the second is where steps on sets become steps of their cardinality.

### Registry, MCRegistry, RegistryProofs

`Registry` models consumers, their units and the units' inet entries, with their times,
twice: in memory and in the database. There is one action per method that changes them
(`AddConsumer` ... `UnitModInetTime`), and `Restart`, which loads memory from the
database. A method holds the writer's lock from end to end (`mbb_lock_writer_lock`),
so it is one step; what is hard here is not interleaving but failure. A method
that asks the database first does nothing when the query fails. `consumer_mod_time`,
`unit_mod_time` and `unit_unset_consumer` change memory first: `Query` then either does
what it says or leaves memory `torn`, and `unit_unset_consumer`, which makes two queries,
may be cut off between them (`UnsetQueries`). The foreign keys and CHECKs of
`sql/table.sql` are part of what a query does.

Times are small numbers with the two special values of the code: 0 is without bound, -1
is the parent's. Names are identified with objects. Left out: renaming, the users of a
consumer, the local flag of a unit, and an answer lost after the database has committed;
nice values and the address map that follows the entries are `InetMap`'s.

Runs (one consumer, one unit, one entry, times 0, 1 and 2, at most one failed query; one
chain is what it takes for a time to be inherited twice, two times for a wrong order, and
after one failure a restart mends or loses it):

* `registry`: memory and database hold the same objects (`SameObjects`), links agree on
  both ends and nothing refers to what is gone (`Linked`), memory is the database unless
  torn (`InSync`), and what starts does so before it ends, inherited
  times included (`TimesOrdered`), until a restart finds memory torn (`lost`).

Two defects, which history variables keep apart from the rest:

* `unit_mod_inet_time` answers a wrong order of times with an error and stores it in
  memory all the same (`mbbunitipman.c:244`). Clients may ask for one at any time.
  `refused` has the entries whose times in memory never reached the database, until a
  restart or good times mend them: `InSync` is about the others. `wronged` has the entries that
  were refused and had no good times since. A restart does not help them: in the meantime
  changes of their unit were tested against the times in memory, and so their row need not fit
  any more. `TimesOrdered` is about all units and all other entries: the damage does not spread;
* a failed query in `unit_mod_time` (`mbbunitman.c:350`), then `unit_unset_consumer`,
  then a restart leave a unit without a consumer that takes its times from one, and
  `mbb_unit_mod_time` then follows a null pointer. `lost` marks that a restart found
  memory torn, and `OrphansTimedUntilLost` and `TimesOrdered` are stated up to there.

Proved (`RegistryProofs`, for any sets of consumers, units and entries, any range of times,
any number of failures and any requests): `RegistryTypeOK`, `RegistrySameObjects`,
`RegistryLinked`, `RegistryInSync`, `RegistryOrphansTimed` and `RegistryTimesOrdered`. The
argument goes in three layers:

* `IInv` is types, `SameObjects` and `Linked` together. `Linked` alone is not inductive:
  after a restart the owner of an entry is in memory because memory and database have
  the same objects. `DropConsumer` keeps it because the database's foreign key refuses
  where a cut off `unit_unset_consumer` has left the consumer in a row;
* `Sync` and `OrphansTimedUntilLost` rest on it: a restart either changes no unit and no
  consumer or sets `lost`. `Sync` is `InSync` in two parts (`SameRows`, `SameEntries`), and that
  every refused entry is wronged: the entries a restart changes are none that `TimesOrdered`
  is about;
* `TimesOrdered` (`Fit` of every unit) needs both, and `ConsumersOrdered`: a new unit that
  inherits both of its times is in order only if its consumer is, and `unit_set_consumer`,
  which tests nothing, is safe only because an orphan inherits nothing.

### Slicer, InetMap, AddressPlan, MCInetMap

`Slicer` has no state: it is the arithmetic of `slicer.c` and `map.c` as operators. A
slicer is a sequence of slices side by side; a map is a slicer whose slices hold queues of
links. `ApplyChange` cuts slices where a range begins and ends (`slice_cross`), `DataAdd`
joins links that continue each other (`map_data_add`), `GlueNull` joins slices that hold
nothing. A link says whether it has a node in the node list of its entry (`node`): a link is
noted when it is added to the global map and when it is copied with its slice (`Dup`). A bound of
0 is a null pointer in the code, no bound; since `dec(1)` is 0, a range that begins at 1 leaves
a slice before it with no bound (`slicer.c:111`). The ranges of the run begin at 2 or are open, so
that this edge is outside it.

`InetMap` has the state that methods change: the entries of the units with their nice
values, each unit's separator (the order of entries) and map, the global map, the entries
whose node list has a node of a link that is gone (`stale`), which units are removed, and which
units a statistics task's copy of the map (`umap`) holds references to. An entry leaves the
global map by way of its node list (`MapDelInets` takes out the links that have a node), so a link
that was not noted stays behind and points to an entry that is freed. A unit is dropped only
when it has no entries left, as `drop_unit` asks (`UnitRemove`). There is one action per method:
adding, dropping, timing and ranking entries, rebuilding and clearing a unit's map,
adding a unit to and taking it from the global map, clearing and gluing it, and the
reloads of the module map_reload, in the order in which a hash table gives the units.
Methods run under the writer's lock and are one step; `UMapFree`, which drops the last
reference to a removed unit, runs under no lock. The listings (`MapFindNet`,
`MapShowUnit`, ...) and the search in a copy (`UMapFind`, by bisection) are operators.

`AddressPlan` is what all this promises, without slices: of each unit and each point (an
address at a time) which entry owns it, and of each point which entry claimed it. A
rebuild that meets a collision changes nothing, a unit that cannot claim all its points
claims none. `MapsAsPlanned` is the refinement: `InetMap` implements `AddressPlan` with the
maps read point by point through `MapFind`.

Run `inet_map`: two units, one with an entry and a second one that may exclude
addresses, at two ranks, or collide; the other with an entry that overlaps both at one of
two times; addresses 1 to 3 and times 1 to 3. With bounds at 2 a range can begin, end and
be open on either side, and cutting leaves a piece before, inside and after.
It shows the refinement; that slices stay gapless partitions, which
`slicer_apply_change` asserts (`MapsPartition`); that node lists match the links, after
any cut, join and glue (`NodesMatch`): `map_data_split_links` deletes a link and does not tell
its list (`map.c:150-159`), which is in the model (`DeletesLink`), and the run shows that it
never happens in the global map, the only one with node lists; that a copy is searched with the same result
(`FindersAgree`); and that listings name what is in the way (`ListingsTrue`).

### Access, MCAccess, AccessProofs

`Access` models users, groups and keys, and the user of a session: `mbbuser.c`,
`mbbgroup.c`, `mbbuserman.c`, `mbbgroupman.c`, `mbbauth.c`, `mbbauthkeys.c` and
`mbb_session_auth`, and the user of a task in `mbbtask.c`. A user is an object with a reference
count and a spin lock; the user table, every session, every key and every task (`TaskNew` to
`TaskUnref`) hold a reference, a group's table holds none. A
session's thread takes several steps where the code lets others in: between looking the
caller's groups up and running the method (`FuncCall`), between the two halves of
`mbb_session_auth` (`AuthUnref`, `AuthRef`), and between the test and the set of the spin
lock (`LockTest`, `LockSet`). `gather_session` reads `ss->user` four times, to look whether there
is one, to lock it, to copy its name and to unlock it, and the session it lists may change its
user between any two of them: `ShowSessions`, `ReadUser`, `ReadName`, and `CopyName`, which lets
go of the lock of whoever is the user then (`Unlocked`), be it another thread's. The listings of keys and tasks
(`ShowAuthKeys`, `ShowTasks`), log messages (`LogMessage`), which read the name of their own
session's user, and `session.user` are the other readers. A use of a freed user or name is a
`Fault` and ends the behaviour.

Only client threads create tasks: every call of `mbb_task_create` is in a method, so the branch
of `mbb_task_new` for a caller without a session (`mbbtask.c:100-103`) is never taken and is
left out. A task's own log messages read no user.

Run `access`: two sessions, one key, one task, two names, group root, two users ever
added. That a caller has lost the group its method asks for happens with root alone, between
the check and the method. Passwords stay (`Secrets`): a user without one differs only in that the
method "plain" refuses it, while the other authorization methods do not look; the proofs have
both. Two sessions are what it takes to drop a user the other has, to rename while the
other lists, or to lose root between a call and its effect. References are exact
(`RefsExact`); faults happen in four known ways and no other (`FaultsKnown`); authority is
what the database grants (`AuthorityStored`, `GrantedByWheel`). The four ways are defects:

* `mbb_user_remove` clears the user's mask before `mbb_user_detach` uses it to find the
  groups (`mbbuser.c:107`), so that a group keeps a pointer to a freed user;
* the key's user is used after the key's reference to it may have gone;
* `show_sessions` reads the user of a session several times while `mbb_session_auth` replaces it;
* the spin lock of `mbbmacro.h` is tested and set in two steps, so a listing can copy a
  name that a rename frees.

Proved (`AccessProofs`, for any finite sets of sessions, keys and tasks, any names, groups and
number of users): `AccessRefsExact`, `AccessFaultsKnown`, `AccessAuthorityStored` and the
action property `AccessGrantedByWheel`. The inductive invariant:

* `RefsInv`: by the state of a user (never added, listed, removed, freed) what its count is
  in terms of the sessions, keys and tasks that hold it (`Counted`). A session between the
  halves of `mbb_session_auth` still points to a user it no longer holds, which is one of the
  four ways;
* `PointersInv`: nobody points to a user that was never added; `FoundInv`: what a thread knows
  of the user it has found, by the way it was found (a login, a key, a session, a listing of
  keys or tasks, its own) and the lock it has (`FoundAt`). Of the user of a listed session
  it knows that it is still the session's, unless the session changes it meanwhile
  (`ListingAt`, the history `shifted`);
* `RenameInv`: a rename has the writer's lock for itself and is stored before memory changes,
  so that memory and database may differ in that one name; `SpinInv`: two that copy a name
  at once have raced for its lock, or a third has let it go (the history `doubled`);
* `AuthorityStored`, as `RowsInv` and `CapsInv`, and `FaultsKnown` as it is: a fault ends the
  behaviour, so each is shown of a step from a state where everything before it holds.

Assumed of the constants: there is a group root and a first user, as `table.sql` makes them;
sessions, keys and tasks are finite and are not each other (`GroupsAssumption`,
`MaxIdAssumption`, `SetsAssumption`).

### Server, MCServer, ServerProofs

`Server` models `mbbserver.c` and the HTTP client thread. The main thread puts a
connection into one static block, `tp`, under a mutex that the new thread unlocks when it
has read the socket; the thread reads `tp->http` later. An HTTP thread reads a request
line and headers, authorizes, reads a body and runs the calls of a batch; the lists of
`xmltag.c`, which insert second and are turned round (`AddChild`, `AddChildren`, `Reorder`),
carry requests and answers. `Fall` is the request with neither a method nor a body:
`process_request` follows a null pointer. `FdopenFails` is the thread that ends with nothing
said and leaves its socket open (`mbbthreadhttp.c:405-409`).

Run `server`: one connection to each port, batches of up to five requests, two of them
without a name. Every thread gets a connection of its own, over the protocol of its port
unless a connection to the other port came in between (`HandedOver`); answers are in the
order of the requests (`AnsweredInOrder`); every connection is served or closed, also when
no thread can be made (`Served`). Lists need four elements for `xml_tag_reorder` to do
anything a list of two or three would not show.

Fairness: the main thread, a new thread and a request that was read are scheduled (weak).
Clients owe nothing.

Proved (`ServerProofs`, for any finite sets of connections and any batches of any length):
`ServerHandedOver` and `ServerAnsweredInOrder`. For the first, thread `t` is the one of the
`t`-th connection (`OwnerInv`, `ArrivedInv`), the mutex is locked on behalf of the one thread
that has yet to read the socket (`MutexInv`), and the block holds the protocol of a connection
that no thread's connection is later than (`BlockInv`), so that a thread which reads the
wrong one reads that of a later connection (`ProtocolInv`). For the second, `RequestInv`
says what is known of a request at each step of its thread and `AnswerInv` how many answers it
has got. That they are in order is in two parts. About the lists: what `xml_tag_add_child` makes
of the first `m` tags of a sequence is `Turned`, the first tag and then the others backwards;
`xml_tag_reorder`, which adds the children behind the first two once more, gives the sequence
back (`ReorderTurned`, by way of `Between`, the list in the middle of its loop). About the
thread: after `k` calls the requests left are those behind the `k`-th and the answers are
`Turned` from the named ones among the first `k` (`Called`, `BatchInv`). The list of answers
alone is not enough, since which call comes next depends on the list of requests.

### Vars, MCVars, VarsProofs

`Vars` models the variables of modules (`mbbvar.c`), a session's table of its own values
(`mbbsession.c`), the conversions that refuse a text (`varconv.c`), the caches, and the
modules that have such variables: netflow (a base variable and a session variable copied
from it) and private, in whose table auth_salt keeps a salt. A session starts with a walk
over the queue of variables under no lock (`Walk`) and is known to others only after it
(`SessionInsert`). Unloading a module takes its variables out of the registry, then out
of the queue and the known sessions (`Unregister`, `FreeVar`).

Run `vars`: a session of root and one of admin, netflow loaded up to twice. Two loads
tell a variable from its successor with the same name. `TablesLive`: a session uses a freed
variable only if a module was unloaded while the session was on its way in
(`mbbsession.c:116`), or while it used its table without the lock (`mbbsession.c:105`), or
if it reads a private table, which has no function for that. `Trusted`: netflow's
directory is only ever what root, wheel or the configuration chose. `var_cache_load`
does not ask for the variable's own right, only for wheel; this is why wheel is among them.

Proved (`VarsProofs`, for any sessions, any roles and any number of loads): `VarsTablesLive`
and `VarsTrusted`. The inductive invariant:

* `QueueInv`: the queue holds the variable of each module that is not out, once. Lemmas
  `AppendRange` and `RemoveRange` say what appending and `g_queue_remove` do to a queue
  without repetitions;
* `UseInv`, `ImportInv`: a variable in use is kept by the reader's lock, by its module's
  reference, or by auth_salt's import of private;
* `WalkInv`: a session on its way in has and stands at what is in the queue, or left it
  since (`late`); `RacedInv`: a table changed while it was used means that another module
  than the one in use has been unloaded;
* `TextsInv` for `Trusted`: the caches and the data of wheel's sessions are free of other
  clients' texts, not only the base variable. `CacheLoad` and `Register` copy from there.

The proof showed that `FreeVar` removed every copy of a variable from the queue where
`g_queue_remove` removes the first; the model now does the same, and `QueueInv` says why it
makes no difference.

### Gateway, MCGateway

`Gateway` models gateways, operators and links (`mbbgateway.c`, `mbboperator.c`,
`mbbgwlink.c`, their methods, rows and loading). Memory is the objects, the tables by
name and address, an operator's set of links and, for each interface of a gateway, a
queue of links in the order of their times; the database is three tables with the
constraints of `table.sql`. `CanAdd`, `QueueInsert` and `Reordered` are translated from the
loops of `mbbgateway.c`, `GetLink` is what netflow asks for. `gwlink_mod_time` changes
memory before it asks the database (`mbbgwlinkman.c:269`): the history variable `unsaved`
has the links the database refused, `losses` counts restarts that lost such a change.

Run `gateway`: two gateways with one interface each, one operator, three links, times 1 to
3, one refused change and one such restart, one name that reads as an address. Three links
in one queue are what it takes to move one over the next. `OneLinkInForce`: at any time at
most one link of a queue is in force, and the search finds it. `MatchesDatabase`: memory is
what the database holds, but for the times that were refused; a link is in its queue unless
a restart met rows that overlap after such a refusal, of which `mbbdbload.c:492` leaves one
out with a warning.

### Stat, MCStat, StatProofs

`Stat` models the accounting: the tasks of `modules/netflow/calcstat.c`, the pools, saves
and wipes of `modules/stat/mbbstat.c`, the methods of `modules/stat/main.c` and the
connections of `mbbdb.c`. A job is a task with its hooks: `InitHook` (a connection of its
own; an update then wipes its period), `OpenNext`, `ReadFlow`, the save from `SaveBegin`
to `SaveOut`, and `FiniHook`. A client thread wipes, queries, or asks for statistics
(`StatCommon`), which gives it a connection of its own. All others share one, and
`query_mutex`, which is recursive, is held from BEGIN to the end of a transaction on it.
What a flow counts for is arithmetic (`ProcessFlow`, `Key`, `ExtractHour`, `StatFeed`); what
files hold is the same loop run from an empty pool (`CountFlow`, `CountFlows`, `CountFiles`).

The database is external, PostgreSQL at its default level, read committed: a statement
sees what was committed before it, waits for rows another transaction has written
(`WipeWaits`, `WipeResumes`), and does not see rows that one has inserted. An UPDATE takes
its rows at once in the model; that PostgreSQL ends a deadlock between rows with an error
is one of the failures below. Any query, BEGIN, COMMIT, file or thread may fail, at most
`MaxFaults` times; clients make at most `MaxCalls` calls.

Run `stat`: two jobs, a client that wipes and one that does not, two calls, one failure,
hours of two seconds. The database begins with a row that one file adds to while it
inserts another, which is what it takes for a waiting wipe to miss a row; the other file
begins one second after the period of updates and wipes. The system may stop: jobs end,
and a failed BEGIN leaves the mutex locked for ever.

* `TablesAgree`: what a unit or a link has in an hour is the sum over its pairs, whatever
  fails, is cancelled or races. The exception is `torn`: a wipe is not kept apart from the
  saves (`mbbstat.c:306`), and one that a save is committed in the middle of wipes part of it.
* `UpdateExact`: an update of whole hours leaves exactly what its files hold, once, if
  nothing of it failed and nobody else touched its period (`clean`). A period that does
  not begin with an hour is wiped by the hour and counted by the second
  (`calcstat.c:197`), so that the property cannot hold for it; a failed COMMIT of the wipe
  is not noticed (`mbbstat.c:320`).
* `SharedConnection`: a transaction on the shared connection is one thread's alone, and
  the mutex is left locked only by a failed BEGIN (`kept`, `mbbdb.c:277`), after which
  every other query on that connection waits.
* `FreedOnce`: a pool is freed once and its pointer forgotten; so are the data of a task, but
  when the init hook fails (never freed) and when `feed_stat` gets no thread
  (`calcstat.c:476`, freed twice).

Proved (`StatProofs`, for any tasks, clients, files, calls and failures):
`StatSharedConnection`, `StatFreedOnce`, `StatTablesAgree` and `StatUpdateExact`. `MutexInv` is
the heart of the first: the clients
without a connection of their own that are inside are at most the owner of the mutex, and its
depth is the number of failed BEGINs (`kept`) and one for who is inside; `OwnInv` keeps tasks
out of it, which have a connection before they begin. `PoolInv` is that of the second: a pool
is live exactly from the opening of a file to the end of its save.

`StatTablesAgree` has three layers.

* Sums over finite sets: what `MapThenSumSet` gives is a sum (`TotalIs`), in whatever order
  (`SumAny`), and the sum of a sum of two is the sum of their sums, where what one of them lacks
  counts nothing (`SumAdd`).
* Rows: `AgreeAt(f, p)`, the rows of `f` at hour `p` agree. It survives when another lot that
  agrees is added (`TogetherAgree`), and when whole groups are set to zero, a row of both
  together with those of its unit and its link (`ZeroAgree`). The three records of one entry
  agree (`SingleGood`), hence every pool does (`FeedGood`, `FlowsGood`).
* Transactions: the inductive invariant `SInv`. No row is written by two (`ConnInv`); a save has
  written, for each record it is done with, the committed row plus the record (`SaveOk`), so
  that its commit adds the whole pool (`SaveAdds`); a wipe has written zeros and, at hours that
  are not torn, has found every row of the tables it is done with (`WipeOk`), so that its commit
  sets whole groups to zero. `TablesAgree` alone is not inductive: a commit
  depends on what was written many steps earlier, while others committed. This is also where
  `torn` is needed, and enough: a save that commits between two statements of a wipe, or while
  one waits, is the only step that can break `WipeOk` of another thread (`OthersSaved`).

`StatUpdateExact` rests on the same invariant and on `UInv`. Counting is additive: a file counted
on top of some rows is those rows together with the file counted from nothing (`FlowsAdd`), and a
flow inside a period of whole hours counts in an hour inside it (`HourWithin`). `CleanOk` then
follows an undisturbed update: its wipe has found every row of the period, so the period is
empty when it is committed; from then on it holds what the files that are done with hold, the
pool is what has been read of the open one (`Reading`), and a save adds it. Whoever else
commits rows of the period takes the update out of `clean` (`Spared`).

## What is only model-checked

* Liveness (`CancelEnds`, `MethodEnds`, `KillNoticed`, `QueueWatched`, `LockReleased`,
  `Served`): the prover reasons neither about fairness nor about `ENABLED`.
* The slices of `InetMap` (`MapsPartition`, `NodesMatch`, `FindersAgree`, `ListingsTrue` and the
  refinement `MapsAsPlanned`): maps are nested sequences that are cut, folded over and merged,
  and nothing about them is shorter than the operators themselves.
* `Gateway`: `OneLinkInForce` and `MatchesDatabase`. Every edit of a link takes it out of its
  queue and puts it back at the place its times give it, and a restart folds the rows into the
  queues one by one; the argument would be an induction over that fold and over the library's
  `FoldLeft` and `Remove`, and it has not been carried out.

The library's induction theorems take an operator as a parameter, which the installed provers
cannot instantiate. Where a proof needs induction over numbers, sequences or finite sets, it
goes by a least counterexample: every set of naturals that is not empty has a least element
(`Least`, from `WFMin` and `NatLessThanWellFounded`), so a *set* takes the place of the
predicate. That a recursive function exists is proved in the same way (`SumExists`,
`FlowsExist`, `AddedExists`).

Every other invariant and action property of a run is a theorem. The inductive invariants
were checked with TLC on the instances below before they were proved.

What the proofs changed in the models: `Stat!QueryUnlock` and `Module!LoadHook` had CASEs with
arms that overlap, of which TLA+ takes any and TLC the first; they are IFs now
(`Module!AfterImport`). `Vars!FreeVar` removes the first copy from the queue. `Server!AddChildren`,
`Stat!CountFlows` and `Stat!CountFiles` are recursive functions where there were folds, and
`Stat!Over` is `@@` written out. Assumptions on
constants that TLC's model values satisfy by themselves are stated (`NoneAssumption`,
`SetsAssumption`, `ThreadsAssumption`, `FilesAssumption`, `TimeAssumption`): identities of sessions, keys, threads and modules
are different kinds of things and "none" is none of them, and there are finitely many of
what is counted; times and octets of flows are numbers, and an hour has a length. Days,
months and years have none: the period a time is in is `Calendar`'s to say, since local time
has days of 23 and 25 hours.

Deadlock is checked except where the system may really stop: where a fault ends the
daemon (`Access`, `Server`, `Vars`), and where every object of a bounded set is used up
(`InetMap`, `Gateway`, `Stat`).

Runs, in short:

| run | module | instance | properties |
|---|---|---|---|
| `task` | `Task` | 1 task, 2 clients, fair | `NoDanglingUse`, `NoLostWakeup`, `StopTakesEffect`, `SaveMutexReleased`, `CancelEnds`, `MethodEnds` |
| `client_safety` | `Client` | 2 connections, 3 requests | `NoFreedUse`, `NothingUnsent`, `OneReadAfterKill` |
| `client_liveness` | `Client` | 2 connections, 1 request, fair | `KillNoticed`, `QueueWatched` |
| `module` | `Module` | 4 modules, 2 callers, 1 task, fair | `CallersMapped`, `TasksMapped`, `ImportsMapped`, `RefsCounted`, `LockReleased` |
| `module_task_stop` | `Module` | 1 module that is stopped | `TasksStayMapped` fails |
| `registry` | `Registry` | a consumer, a unit, an entry, 1 failed query | `SameObjects`, `Linked`, `InSync`, `TimesOrdered` |
| `inet_map` | `InetMap` | 2 units, 3 entries, 3 x 3 points | `MapsPartition`, `NodesMatch`, `FindersAgree`, `ListingsTrue`, `MapsAsPlanned` |
| `access` | `Access` | 2 sessions, 1 key, 1 task, 2 users | `RefsExact`, `FaultsKnown`, `AuthorityStored`, `GrantedByWheel` |
| `server` | `Server` | 2 connections, fair | `HandedOver`, `AnsweredInOrder`, `Served` |
| `vars` | `Vars` | 2 sessions, 3 modules | `TablesLive`, `Trusted` |
| `gateway` | `Gateway` | 2 gateways, 3 links | `OneLinkInForce`, `MatchesDatabase` |
| `stat` | `Stat` | 2 jobs, 2 clients, 1 failure | `TablesAgree`, `UpdateExact`, `SharedConnection`, `FreedOnce` |

## Plan

1. Lemmas on slices (a cut covers what was cut), towards `InetMap!MapsPartition`.
2. The rest of the registry: renaming, users of consumers, the local flag.
3. The log's filter and trace file.

## Not modelled

* The attribute module: each method is one or two queries on rows nobody else reads.
* Names of groups (`group_mod_name`), a user's consumers, the log's levels and trace
  file, the text of the statistics' selects, and the reading of flow files (`grepstat.c`).
* `killed` of a session over HTTP, which nothing reads: killing one has no effect.
* Text: XML, HTTP headers, the SQL of a query, number and time formats. Terminal and Lua
  of the shell, the password file of auth_apache. The pinger module, which uses an
  interface (`mbb_module_ref_sym`) the daemon no longer has and is not built.
