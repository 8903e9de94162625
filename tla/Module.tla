------------------------------- MODULE Module -------------------------------
(***************************************************************************)
(* Loadable modules of the daemon (mbbd/mbbmodule.c): loading, unloading,   *)
(* stopping and the reference count that keeps a module's code mapped while *)
(* a method (mbbfunc.c), an authorization method (mbbauth.c), a task        *)
(* (mbbtask.c) or an importing module uses it.                             *)
(*                                                                         *)
(* A reference to a module is a reader's hold of its rwlock: mbb_module_use *)
(* takes it, mbb_module_unuse gives it back, and unloading begins with a    *)
(* writer_trylock.  The module table, the function table and the table of   *)
(* authorization methods have a reader-writer lock (plock) each; loading    *)
(* and unloading hold the first as writers over many steps, the holders of  *)
(* the other two show in the program counters.                             *)
(***************************************************************************)
EXTENDS Integers, FiniteSets

CONSTANTS
  Modules,   \* the .so files
  Import,    \* [Modules -> Modules \cup {None}]: the module its load hook imports
  Auth,      \* modules that register an authorization method, the others functions
  Onready,   \* modules with an onready hook
  Name,      \* [Modules -> names]: the name of what a module registers
  Callers,   \* client threads
  MaxTasks,  \* bound: tasks created in a behaviour
  MaxExtra,  \* bound: references to a module that are kept, or overdrawn, by imports
  None

Tasks == 1 .. MaxTasks

ASSUME ImportAssumption ==
  /\ None \notin Modules \cup Callers
  /\ Import \in [Modules -> Modules \cup {None}]
  /\ \A m \in Modules : Import[m] # m
ASSUME SetsAssumption ==
  /\ IsFiniteSet(Modules) /\ IsFiniteSet(Callers) /\ Modules # {}
  /\ Modules \cap Callers = {} /\ (Modules \cup Callers) \cap Tasks = {}
ASSUME KindAssumption == Auth \subseteq Modules /\ Onready \subseteq Modules
ASSUME BoundAssumption == MaxTasks \in Nat /\ MaxExtra \in Nat

VARIABLES
  writer,      \* the caller that holds the module table's plock as writer, or None
  loaded,      \* modules in the table dlink
  mapped,      \* modules whose code is mapped: between dlopen and dlclose
  registered,  \* modules whose methods are in the function or auth table
  run,         \* [Modules -> BOOLEAN]: mod->run
  refs,        \* [Modules -> Int]: read_counter of mod->rwlock
  dep,         \* [Modules -> Modules \cup {None}]: mod->deps
  extra,       \* [Modules -> Int], history: references that void loads kept, less
               \* the ones given back that were never taken
  refused,     \* history: users that mbb_module_use refused and that went on
  stale,       \* history: users whose module's structure was freed under them
  slighted,    \* history: modules with such users since they were loaded
  pc,          \* [Callers -> PC]
  cur,         \* [Callers -> Modules]: the module a caller deals with
  task,        \* [Callers -> Tasks]: the task a caller is creating
  tpc,         \* [Tasks -> "none" | "new" | "run" | "done"]
  tmod         \* [Tasks -> Modules]: task->mod

vars == <<writer, loaded, mapped, registered, run, refs, dep, extra, refused, stale, slighted,
          pc, cur, task, tpc, tmod>>
tables == <<loaded, mapped, registered, dep>>
hist == <<extra, refused, stale, slighted>>
taskVars == <<task, tpc, tmod>>

PC == {"idle", "found", "calling", "spawn", "returning", "load", "auth", "void",
       "reg", "ready", "unreg", "close"}

TypeOK ==
  /\ writer \in Callers \cup {None}
  /\ loaded \subseteq Modules
  /\ mapped \subseteq Modules
  /\ registered \subseteq Modules
  /\ run \in [Modules -> BOOLEAN]
  /\ refs \in [Modules -> Int]
  /\ dep \in [Modules -> Modules \cup {None}]
  /\ extra \in [Modules -> Int]
  /\ refused \subseteq Callers \cup Tasks \cup Modules
  /\ stale \subseteq Callers \cup Tasks \cup Modules
  /\ slighted \subseteq Modules
  /\ pc \in [Callers -> PC]
  /\ cur \in [Callers -> Modules]
  /\ task \in [Callers -> Tasks \cup {0}]
  /\ tpc \in [Tasks -> {"none", "new", "run", "done"}]
  /\ tmod \in [Tasks -> Modules]

Init ==
  /\ writer = None
  /\ loaded = {} /\ mapped = {} /\ registered = {}
  /\ run = [m \in Modules |-> FALSE]
  /\ refs = [m \in Modules |-> 0]
  /\ dep = [m \in Modules |-> None]
  /\ extra = [m \in Modules |-> 0]
  /\ refused = {} /\ stale = {} /\ slighted = {}
  /\ pc = [c \in Callers |-> "idle"]
  /\ cur = [c \in Callers |-> CHOOSE m \in Modules : TRUE]
  /\ task = [c \in Callers |-> 0]
  /\ tpc = [t \in Tasks |-> "none"]
  /\ tmod = [t \in Tasks |-> CHOOSE m \in Modules : TRUE]

Goto(c, label) == pc' = [pc EXCEPT ![c] = label]

-----------------------------------------------------------------------------
(* The locks of the two method tables (mbbfunc.c, mbbauth.c).              *)

Kind(m) == IF m \in Auth THEN "auth" ELSE "func"

\* mbb_func_call lets go of the function table before it calls the function,
\* mbb_auth holds the table of methods until the method has returned.
Reads(c, k) ==
  /\ Kind(cur[c]) = k
  /\ pc[c] \in IF k = "auth" THEN {"found", "calling"} ELSE {"found"}

MayWrite(k) == \A c \in Callers : ~Reads(c, k)

\* A thread waits for the writer's side of the lock: no reader enters.
WriterWaits(k) ==
  \E c \in Callers :
    /\ Kind(cur[c]) = k
    /\ pc[c] \in IF k = "auth" THEN {"auth", "close"} ELSE {"reg", "unreg"}

\* mbb_func_mregister and mbb_auth_method_register look for the name first.
NameTaken(m) ==
  \E n \in registered : n # m /\ Kind(n) = Kind(m) /\ Name[n] = Name[m]

-----------------------------------------------------------------------------
(* References.                                                             *)

\* Who uses a module, by right or not: calls under way, tasks, importing modules.
\* One user uses one module at a time.
UsersOf(m) ==
  {c \in Callers : cur[c] = m /\ pc[c] \in {"calling", "spawn", "returning", "ready"}}
    \cup {t \in Tasks : tmod[t] = m /\ tpc[t] \in {"new", "run"}}
    \cup {n \in Modules : dep[n] = m}

\* mbb_module_use: no reference to a module that is stopped.
Use(m) == refs' = IF run[m] THEN [refs EXCEPT ![m] = @ + 1] ELSE refs

\* mbb_module_use by a user that does not look at what it returns.
UseBlindly(u, m) ==
  /\ Use(m)
  /\ refused' = IF run[m] THEN refused ELSE refused \cup {u}
  /\ slighted' = IF run[m] THEN slighted ELSE slighted \cup {m}

\* mbb_module_unuse, whether or not the use before it succeeded: a user that was
\* refused gives back what another holds, and the counter may pass zero downwards.
\* Where the structure is gone, the counter that changes is in freed memory.
Unuse(u, m) ==
  /\ refs' = IF u \in stale THEN refs ELSE [refs EXCEPT ![m] = @ - 1]
  /\ extra' = IF u \in refused THEN [extra EXCEPT ![m] = @ - 1] ELSE extra
  /\ refused' = refused \ {u}
  /\ stale' = stale \ {u}
  /\ UNCHANGED slighted

-----------------------------------------------------------------------------
(* Calling a method of a module.                                           *)

\* mbb_func_search and mbb_auth look the name up under the table's lock.
Search(c, m) ==
  /\ pc[c] = "idle"
  /\ m \in registered
  /\ ~WriterWaits(Kind(m))
  /\ cur' = [cur EXCEPT ![c] = m]
  /\ Goto(c, "found")
  /\ UNCHANGED <<writer, tables, run, refs, hist, taskVars>>

\* ... and use its module.  If that fails the call is missed.
UseFound(c) ==
  /\ pc[c] = "found"
  /\ Use(cur[c])
  /\ Goto(c, IF run[cur[c]] THEN "calling" ELSE "idle")
  /\ UNCHANGED <<writer, tables, run, hist, cur, taskVars>>

\* mbb_task_new: the task belongs to the module last used by this thread; what
\* mbb_module_use returns is not looked at.  A thread whose module was unmapped under
\* it gets no further than to its own return, or ends the daemon (which starts again
\* as in Init).
CreateTask(c) ==
  /\ pc[c] = "calling"
  /\ cur[c] \notin Auth
  /\ c \notin stale
  /\ \E t \in Tasks :
       /\ tpc[t] = "none"
       /\ tpc' = [tpc EXCEPT ![t] = "new"]
       /\ tmod' = [tmod EXCEPT ![t] = cur[c]]
       /\ task' = [task EXCEPT ![c] = t]
       /\ UseBlindly(t, cur[c])
  /\ Goto(c, "spawn")
  /\ UNCHANGED <<writer, tables, run, extra, stale, cur>>

\* g_thread_create starts the task's thread, which runs the module's hooks.
Spawn(c) ==
  /\ pc[c] = "spawn"
  /\ tpc' = [tpc EXCEPT ![task[c]] = "run"]
  /\ Goto(c, "returning")
  /\ UNCHANGED <<writer, tables, run, refs, hist, cur, task, tmod>>

\* Mutant: the failed task's module is forgotten.
SpawnFailsLeaks(c) ==
  /\ pc[c] = "spawn"
  /\ tpc' = [tpc EXCEPT ![task[c]] = "done"]
  /\ Goto(c, "returning")
  /\ UNCHANGED <<writer, tables, run, refs, hist, cur, task, tmod>>

\* No thread: mbb_task_free gives the reference back.
SpawnFails(c) ==
  /\ pc[c] = "spawn"
  /\ tpc' = [tpc EXCEPT ![task[c]] = "done"]
  /\ Unuse(task[c], tmod[task[c]])
  /\ Goto(c, "returning")
  /\ UNCHANGED <<writer, tables, run, cur, task, tmod>>

\* The method returns to mbb_func_call (or mbb_auth).
Return(c) ==
  /\ pc[c] \in {"calling", "returning"}
  /\ Unuse(c, cur[c])
  /\ Goto(c, "idle")
  /\ task' = [task EXCEPT ![c] = 0]
  /\ UNCHANGED <<writer, tables, run, cur, tpc, tmod>>

\* Mutant: a task gives its module back before its last hook has run.
TaskEndEarly(t) ==
  /\ tpc[t] = "run"
  /\ refs[tmod[t]] > 0
  /\ refs' = [refs EXCEPT ![tmod[t]] = @ - 1]
  /\ UNCHANGED <<writer, tables, run, hist, pc, cur, task, tpc, tmod>>

\* The last hook of a task has returned: mbb_task_free.
TaskEnd(t) ==
  /\ tpc[t] = "run"
  /\ tpc' = [tpc EXCEPT ![t] = "done"]
  /\ Unuse(t, tmod[t])
  /\ UNCHANGED <<writer, tables, run, pc, cur, task, tmod>>

-----------------------------------------------------------------------------
(* mbb-module-stop and mbb-module-run: the flag changes under the reader's  *)
(* side of the module table's lock, without the module's own lock.         *)

ModuleRun(c, m) ==
  /\ pc[c] = "idle"
  /\ writer = None
  /\ m \in loaded
  /\ run' = [run EXCEPT ![m] = ~@]
  /\ UNCHANGED <<writer, tables, refs, hist, pc, cur, taskVars>>

-----------------------------------------------------------------------------
(* mbb_module_load.                                                        *)

\* The name is free; dlopen maps the code, a new structure is made.
LoadBegin(c, m) ==
  /\ pc[c] = "idle"
  /\ writer = None
  /\ m \notin loaded
  /\ Import[m] # None => extra[Import[m]] > - MaxExtra
  /\ m \in Auth /\ Import[m] # None => extra[Import[m]] < MaxExtra
  /\ writer' = c
  /\ mapped' = mapped \cup {m}
  /\ run' = [run EXCEPT ![m] = FALSE]
  /\ refs' = [refs EXCEPT ![m] = 0]
  /\ dep' = [dep EXCEPT ![m] = None]
  /\ cur' = [cur EXCEPT ![c] = m]
  /\ slighted' = IF UsersOf(m) = {} THEN slighted \ {m} ELSE slighted
  /\ Goto(c, "load")
  /\ UNCHANGED <<loaded, registered, extra, refused, stale, taskVars>>

\* Where the load hook goes on: it gives up without the module it imports.
AfterImport(m) ==
  IF Import[m] \notin loaded \cup {None} THEN "void" ELSE IF m \in Auth THEN "auth" ELSE "reg"

\* Mutant: mbb_module_import takes no reference.
LoadHookNoUse(c) ==
  LET m == cur[c] IN
  /\ pc[c] = "load"
  /\ IF Import[m] \in loaded
       THEN dep' = [dep EXCEPT ![m] = Import[m]]
       ELSE UNCHANGED dep
  /\ Goto(c, AfterImport(m))
  /\ UNCHANGED <<writer, loaded, mapped, registered, run, refs, hist, cur, taskVars>>

\* The load hook imports: mbb_module_import notes the dependence and uses the
\* exporting module, whatever mbb_module_use says.  Without the module it
\* imports, the hook gives up before it has added anything.
LoadHook(c) ==
  LET m == cur[c] IN
  /\ pc[c] = "load"
  /\ IF Import[m] \in loaded
       THEN dep' = [dep EXCEPT ![m] = Import[m]] /\ UseBlindly(m, Import[m])
       ELSE UNCHANGED <<dep, refs, refused, slighted>>
  /\ Goto(c, AfterImport(m))
  /\ UNCHANGED <<writer, loaded, mapped, registered, run, extra, stale, cur, taskVars>>

\* The load hook of an authorization module: mbb_auth_method_register refuses a
\* name that is taken, and the hook gives up.
RegisterAuth(c) ==
  LET m == cur[c] IN
  /\ pc[c] = "auth"
  /\ MayWrite("auth")
  /\ IF NameTaken(m)
       THEN Goto(c, "void") /\ UNCHANGED registered
       ELSE Goto(c, "reg") /\ registered' = registered \cup {m}
  /\ UNCHANGED <<writer, loaded, mapped, run, refs, dep, hist, cur, taskVars>>

\* A module that added nothing is closed again; the list deps is freed, the
\* references behind it are not given back.
VoidModule(c) ==
  LET m == cur[c] IN
  /\ pc[c] = "void"
  /\ mapped' = mapped \ {m}
  /\ dep' = [dep EXCEPT ![m] = None]
  /\ extra' = IF dep[m] = None \/ m \in refused THEN extra
              ELSE [extra EXCEPT ![dep[m]] = @ + 1]
  /\ refused' = refused \ {m}
  /\ writer' = None
  /\ Goto(c, "idle")
  /\ UNCHANGED <<loaded, registered, run, refs, stale, slighted, cur, taskVars>>

\* mbb_module_reg_data under the module's own lock, which keeps a caller that
\* finds a function early waiting; a module of which all is registered runs.
\* The structure enters the table, and a reference covers the onready hook.
RegData(c) ==
  LET m == cur[c] IN
  /\ pc[c] = "reg"
  /\ m \in Auth \/ MayWrite("func")
  /\ IF m \notin Auth /\ NameTaken(m)
       THEN UNCHANGED <<registered, run>>
       ELSE /\ registered' = registered \cup {m}
            /\ run' = [run EXCEPT ![m] = TRUE]
  /\ loaded' = loaded \cup {m}
  /\ refs' = [refs EXCEPT ![m] = IF m \in Onready THEN @ + 1 ELSE @]
  /\ writer' = None
  /\ Goto(c, IF m \in Onready THEN "ready" ELSE "idle")
  /\ UNCHANGED <<mapped, dep, hist, cur, taskVars>>

\* onready has returned.
OnreadyDone(c) ==
  /\ pc[c] = "ready"
  /\ Unuse(c, cur[c])
  /\ Goto(c, "idle")
  /\ UNCHANGED <<writer, tables, run, cur, taskVars>>

-----------------------------------------------------------------------------
(* mbb_module_unload.                                                      *)

\* Mutant: run keeps its value once the lock was free.
UnloadBeginRuns(c, m) ==
  /\ pc[c] = "idle"
  /\ writer = None
  /\ m \in loaded
  /\ refs[m] = 0
  /\ writer' = c
  /\ cur' = [cur EXCEPT ![c] = m]
  /\ Goto(c, "unreg")
  /\ UNCHANGED <<tables, run, refs, hist, taskVars>>

\* The module's lock has no reader: from here on run is FALSE and no use of the
\* module succeeds.
UnloadBegin(c, m) ==
  /\ pc[c] = "idle"
  /\ writer = None
  /\ m \in loaded
  /\ refs[m] = 0
  /\ writer' = c
  /\ run' = [run EXCEPT ![m] = FALSE]
  /\ cur' = [cur EXCEPT ![c] = m]
  /\ Goto(c, "unreg")
  /\ UNCHANGED <<tables, refs, hist, taskVars>>

\* mbb_module_unreg_data: the functions leave the table, imported modules are
\* given back.
UnregData(c) ==
  LET m == cur[c] IN
  /\ pc[c] = "unreg"
  /\ m \in Auth \/ MayWrite("func")
  /\ registered' = IF m \in Auth THEN registered ELSE registered \ {m}
  /\ dep' = [dep EXCEPT ![m] = None]
  /\ IF dep[m] = None THEN UNCHANGED <<refs, hist>> ELSE Unuse(m, dep[m])
  /\ Goto(c, "close")
  /\ UNCHANGED <<writer, loaded, mapped, run, cur, taskVars>>

\* Users of a module that is gone.
FreedUnder(m) ==
  /\ refs' = [refs EXCEPT ![m] = 0]
  /\ extra' = [extra EXCEPT ![m] = 0]
  /\ refused' = refused \ UsersOf(m)
  /\ stale' = stale \cup UsersOf(m)
  /\ UNCHANGED slighted

\* Mutant: the error paths of unloading forget the module table's lock.
CloseKeepsLock(c) ==
  /\ pc[c] = "close"
  /\ cur[c] \in Auth => MayWrite("auth")
  /\ registered' = registered \ {cur[c]}
  /\ mapped' = mapped \ {cur[c]}
  /\ loaded' = loaded \ {cur[c]}
  /\ FreedUnder(cur[c])
  /\ Goto(c, "idle")
  /\ UNCHANGED <<writer, run, dep, cur, taskVars>>

\* The unload hook removes an authorization method, then the code is unmapped and
\* the structure freed.
Close(c) ==
  /\ pc[c] = "close"
  /\ cur[c] \in Auth => MayWrite("auth")
  /\ registered' = registered \ {cur[c]}
  /\ mapped' = mapped \ {cur[c]}
  /\ loaded' = loaded \ {cur[c]}
  /\ FreedUnder(cur[c])
  /\ writer' = None
  /\ Goto(c, "idle")
  /\ UNCHANGED <<run, dep, cur, taskVars>>

-----------------------------------------------------------------------------
\* The steps a thread takes by itself once it has begun something.
Loading(c) ==
  LoadHook(c) \/ RegisterAuth(c) \/ VoidModule(c) \/ RegData(c)
    \/ OnreadyDone(c) \/ UnregData(c) \/ Close(c)

Calling(c) ==
  UseFound(c) \/ CreateTask(c) \/ Spawn(c) \/ SpawnFails(c) \/ Return(c)

Next ==
  \/ \E c \in Callers :
       \/ Loading(c)
       \/ Calling(c)
       \/ \E m \in Modules :
            Search(c, m) \/ ModuleRun(c, m) \/ LoadBegin(c, m) \/ UnloadBegin(c, m)
  \/ \E t \in Tasks : TaskEnd(t)

Spec == Init /\ [][Next]_vars

\* Threads are scheduled and an authorization method returns.  Nothing is
\* assumed of functions and tasks, which may go on for hours.
Fairness ==
  \A c \in Callers :
    /\ WF_vars(Loading(c))
    /\ WF_vars(UseFound(c))
    /\ WF_vars(cur[c] \in Auth /\ Return(c))

FairSpec == Spec /\ Fairness

-----------------------------------------------------------------------------
(* Properties.                                                             *)

\* The code of a module stays mapped while a thread searches, calls or returns
\* from its method, or runs its onready hook (mbb_func_call, mbb_auth,
\* mbb_module_load against mbb_module_unload), whatever is stopped and run again.
\* The one exception is a module of which a task or an importer was refused a
\* reference (mbb_task_new, mbb_module_import) since it was loaded: that user gives
\* back a reference it never had, which may be the caller's.
CallersMapped ==
  \A c \in Callers :
    pc[c] \in {"found", "calling", "spawn", "returning", "ready"} => cur[c] \in mapped \cup slighted

\* The code of a module stays mapped while a task made by its method runs its
\* hooks (mbb_task_new against mbb_module_unload), with the same exception.
TasksMapped ==
  \A t \in Tasks : tpc[t] \in {"new", "run"} => tmod[t] \in mapped \cup slighted

\* A module that imported another's functions never outlives them
\* (mbb_module_import against mbb_module_unload), with the same exception.
ImportsMapped ==
  \A m \in loaded : dep[m] # None => dep[m] \in mapped \cup slighted

\* Without the exception: what src/TODO says of a module that is in use.
TasksStayMapped ==
  \A t \in Tasks : tpc[t] \in {"new", "run"} => tmod[t] \in mapped

\* Who holds a reference to m.
Holders(m) == UsersOf(m) \ (refused \cup stale)

\* The count that decides whether a module may be unloaded ("module referenced %d
\* times") is the number of its holders, more by the references that modules which
\* ended as "void module" never gave back, less by those that refused users gave
\* back; so it is on every path of a call, a task, a load and an unload
\* (mbb_module_use, mbb_module_unuse, mbb_module_import, mbb_module_unreg_data), and
\* a module that was never refused to anybody is not overdrawn.
RefsCounted ==
  \A m \in loaded :
    /\ refs[m] = Cardinality(Holders(m)) + extra[m]
    /\ m \notin slighted => extra[m] >= 0

\* Loading and unloading always let go of the module table's lock, whatever
\* functions and tasks of the modules are doing.
LockReleased == \A c \in Callers : writer = c ~> writer # c
=============================================================================
