-------------------------------- MODULE Vars --------------------------------
(* Variables of modules (mbbvar.c, varconv.c, the variables of a session in  *)
(* mbbsession.c, modules private and auth_salt, netflow's directories).      *)
(*                                                                         *)
(* A session variable is an object in the queue var_queue; each session has  *)
(* a table from these objects to its own data, which its thread uses without *)
(* a lock.  The thread that unloads a module takes the module's variable out *)
(* of the queue and out of the tables of the sessions it finds in the table  *)
(* of sessions, and frees it.  Netflow has a base variable and a session     *)
(* variable that starts as a copy of it; private has a session variable      *)
(* whose data is a table where auth_salt keeps a salt.  A cache of texts,    *)
(* one for all and one of each session, outlives the modules.               *)
EXTENDS Naturals, Sequences, FiniteSets, SequencesExt

CONSTANTS
  Sessions,
  Roles,     \* of the sessions' users, [Sessions -> {"admin", "wheel", "root"}]
  MaxLoads,  \* bound: times each module is loaded
  None

Mods == {"netflow", "private", "salt"}

ASSUME RolesAssumption == Roles \subseteq [Sessions -> {"admin", "wheel", "root"}]
ASSUME MaxLoadsAssumption == MaxLoads \in [Mods -> Nat]

HasVar == {"netflow", "private"}  \* modules with a session variable

\* Each load makes a new object.
Objs == UNION {{m} \X (1 .. MaxLoads[m]) : m \in HasVar}

\* Texts told apart by what the properties ask: one that var_conv_dir refuses,
\* one that wheel, root or the configuration chose, one of another client.
Texts == {"bad", "trusted", "other"}
Values == Texts \cup {None}

ASSUME NoneAssumption == None \notin Texts \cup Objs

VARIABLES
  role,     \* [Sessions -> {"admin", "wheel", "root"}]: the group of its user
  stage,    \* [Mods -> {"out", "new", "in", "stop", "unreg"}]
  loads,    \* [Mods -> Nat]: times loaded
  busy,     \* the session that loads or unloads (writer lock of mbbmodule.c)
  queue,    \* sequence of Objs: var_queue
  reg,      \* SUBSET Objs: variables in the table of mbbvar.c
  base,     \* value of netflow's base variable, None when not set
  cache,    \* value of it in ht_cache_global
  table,    \* [Sessions -> SUBSET Objs]: keys of ss->vars
  own,      \* [Sessions -> Values]: the session's data of netflow's variable
  ownCache, \* [Sessions -> Values]: in ss->cached_vars
  salted,   \* SUBSET Sessions: whose private table has a salt
  htList,   \* SUBSET Sessions: whose private table is in ht_list
  pc,       \* [Sessions -> ...]
  loc,      \* [Sessions -> Objs \cup Mods \cup Values]
  via,      \* [Sessions -> why a table is used]
  raced,    \* SUBSET Sessions: whose table was changed while they used it
  late      \* [Sessions -> SUBSET Objs]: removed before the session was known

modVars == <<stage, loads, busy, queue, reg>>
cacheVars == <<cache, ownCache>>
tableVars == <<table, own, salted, htList, late>>
vars == <<role, modVars, base, cacheVars, tableVars, pc, loc, via, raced>>

\* readselfconfig: section "cache" fills the cache for all; there is no session
\* yet whose cache a name with the prefix of session variables could go to.
Init ==
  /\ role \in Roles
  /\ stage = [m \in Mods |-> "out"]
  /\ loads = [m \in Mods |-> 0]
  /\ busy = None
  /\ queue = <<>>
  /\ reg = {}
  /\ base = None
  /\ cache \in {None, "trusted", "bad"}
  /\ table = [s \in Sessions |-> {}]
  /\ own = [s \in Sessions |-> None]
  /\ ownCache = [s \in Sessions |-> None]
  /\ salted = {}
  /\ htList = {}
  /\ pc = [s \in Sessions |-> "off"]
  /\ loc = [s \in Sessions |-> None]
  /\ via = [s \in Sessions |-> None]
  /\ raced = {}
  /\ late = [s \in Sessions |-> {}]

Goto(s, where, what, why) ==
  /\ pc' = [pc EXCEPT ![s] = where]
  /\ loc' = [loc EXCEPT ![s] = what]
  /\ via' = [via EXCEPT ![s] = why]

Done(s) == Goto(s, "idle", None, None)

Obj(m) == <<m, loads[m]>>

\* mbb_var_get_by_name finds the variables of a module that runs.
Alive(m) == stage[m] = "in" /\ Obj(m) \in reg

\* mbb_cap_check against the groups a method or a variable asks for.
Wheel(s) == role[s] \in {"wheel", "root"}
Root(s) == role[s] = "root"

\* What a client sends.
Sends(s) == {"bad", IF Wheel(s) THEN "trusted" ELSE "other"}

\* The thread runs a method, which begins and ends between two steps of the
\* others unless it says otherwise.
Calls(s) == pc[s] = "idle" /\ busy # s

\* The writer lock of mbbvar.c waits for the methods that use a variable there.
MayWriteVars == \A s \in Sessions : pc[s] = "using" => via[s] # "var"

\* The writer lock of mbbmodule.c waits for mbb-module-vars-save.
MayWriteModules == busy = None /\ \A s \in Sessions : pc[s] # "save"

-----------------------------------------------------------------------------
(* Texts and values.                                                       *)

\* var_str_str: one that is not set reads "(dummy)".
Read(value) == IF value = None THEN "bad" ELSE value

\* var_conv_dir: what a write of the text leaves; there may be no text.
Write(value, text) == IF text \in {None, "bad"} THEN value ELSE text

\* session_insert_var, with g_ptr_vardup for netflow: what the session has when
\* it has used o.
Insert(s, o) ==
  /\ table' = [table EXCEPT ![s] = @ \cup {o}]
  /\ own' = IF o[1] = "netflow" /\ o \notin table[s] THEN [own EXCEPT ![s] = Read(base)] ELSE own

-----------------------------------------------------------------------------
(* Sessions.                                                               *)

\* mbb_session_new: session_vars_init walks the queue without a lock.
SessionNew(s) ==
  /\ pc[s] = "off"
  /\ Goto(s, "walk", IF queue = <<>> THEN None ELSE Head(queue), None)
  /\ UNCHANGED <<role, modVars, base, cacheVars, tableVars, raced>>

Walk(s) ==
  /\ pc[s] = "walk"
  /\ loc[s] # None
  /\ \E i \in 1 .. Len(queue) :
       /\ queue[i] = loc[s]
       /\ Goto(s, "walk", IF i = Len(queue) THEN None ELSE queue[i + 1], None)
  /\ Insert(s, loc[s])
  /\ UNCHANGED <<role, modVars, base, cacheVars, salted, htList, late, raced>>

\* Now it is in the table of sessions, for others to find.
SessionInsert(s) ==
  /\ pc[s] = "walk"
  /\ loc[s] = None
  /\ Done(s)
  /\ UNCHANGED <<role, modVars, base, cacheVars, tableVars, raced>>

\* mbb_session_free: session_vars_fini asks each variable how to free its data,
\* private_table_free leaves ht_list.
SessionQuit(s) ==
  /\ Calls(s)
  /\ table[s] \subseteq Range(queue)
  /\ table' = [table EXCEPT ![s] = {}]
  /\ own' = [own EXCEPT ![s] = None]
  /\ ownCache' = [ownCache EXCEPT ![s] = None]
  /\ salted' = salted \ {s}
  /\ htList' = htList \ {s}
  /\ late' = [late EXCEPT ![s] = {}]
  /\ Goto(s, "off", None, None)
  /\ UNCHANGED <<role, modVars, base, cache, raced>>

-----------------------------------------------------------------------------
(* Modules: mbb_module_load and mbb_module_unload.                          *)

\* The load hook makes the variables (mbb_session_add_var); salt imports
\* private and is void without it.
LoadBegin(s, m) ==
  /\ Calls(s)
  /\ Root(s)
  /\ MayWriteModules
  /\ stage[m] = "out"
  /\ loads[m] < MaxLoads[m]
  /\ m = "salt" => stage["private"] = "in"
  /\ busy' = s
  /\ stage' = [stage EXCEPT ![m] = "new"]
  /\ loads' = [loads EXCEPT ![m] = @ + 1]
  /\ queue' = IF m \in HasVar THEN Append(queue, <<m, loads[m] + 1>>) ELSE queue
  /\ base' = IF m = "netflow" THEN None ELSE base
  /\ UNCHANGED <<role, reg, cacheVars, tableVars, pc, loc, via, raced>>

\* mbb_var_mregister: the base variable gets the value the loader's session
\* keeps for the session variable of that name, else the value kept for all.
Restored(s) == Write(None, IF ownCache[s] # None THEN ownCache[s] ELSE cache)

Register(s, m) ==
  /\ busy = s
  /\ stage[m] = "new"
  /\ MayWriteVars
  /\ stage' = [stage EXCEPT ![m] = "in"]
  /\ reg' = IF m \in HasVar THEN reg \cup {Obj(m)} ELSE reg
  /\ base' = IF m = "netflow" THEN Restored(s) ELSE base
  /\ busy' = None
  /\ UNCHANGED <<role, loads, queue, cacheVars, tableVars, pc, loc, via, raced>>

\* A module is used by its methods that run and by the module that imports it.
Used(m) ==
  \/ m = "private" /\ stage["salt"] \in {"new", "in"}
  \/ \E s \in Sessions : pc[s] = "using" /\ via[s] = m

UnloadBegin(s, m) ==
  /\ Calls(s)
  /\ Root(s)
  /\ MayWriteModules
  /\ stage[m] = "in"
  /\ ~ Used(m)
  /\ busy' = s
  /\ stage' = [stage EXCEPT ![m] = "stop"]
  /\ UNCHANGED <<role, loads, queue, reg, base, cacheVars, tableVars, pc, loc, via, raced>>

Unregister(s, m) ==
  /\ busy = s
  /\ m \in HasVar
  /\ stage[m] = "stop"
  /\ MayWriteVars
  /\ stage' = [stage EXCEPT ![m] = "unreg"]
  /\ reg' = reg \ {Obj(m)}
  /\ UNCHANGED <<role, loads, busy, queue, base, cacheVars, tableVars, pc, loc, via, raced>>

\* Sessions in the table of sessions.
Known == {s \in Sessions : pc[s] \notin {"off", "walk"}}

\* Mutant: the data of the sessions is left where it is.
ForgetNothing(o) == {}

\* mbb_session_del_var: the sessions whose tables lose o.
ForgetIn(o) == {s \in Known : o \in table[s]}

\* mbb_var_free of the session variable, then of the base variable, and the
\* module is gone: nobody can find it any more.  A session that is not in the table of
\* sessions keeps what it has of it; one that uses its table at that moment has
\* the table changed under its hands.
FreeVar(s, m) ==
  /\ busy = s
  /\ stage[m] = "unreg"
  /\ stage' = [stage EXCEPT ![m] = "out"]
  /\ busy' = None
  /\ base' = IF m = "netflow" THEN None ELSE base
  /\ LET o == Obj(m)
         hit == ForgetIn(o)
     IN /\ queue' = RemoveFirst(queue, o)
        /\ table' = [t \in Sessions |-> IF t \in hit THEN table[t] \ {o} ELSE table[t]]
        /\ own' = IF m = "netflow" THEN [t \in Sessions |-> IF t \in hit THEN None ELSE own[t]] ELSE own
        /\ raced' = raced \cup {t \in hit : pc[t] = "using"}
        /\ late' = [t \in Sessions |-> IF pc[t] = "walk" THEN late[t] \cup {o} ELSE late[t]]
        /\ IF m = "private"
           THEN salted' = salted \ hit /\ htList' = htList \ hit
           ELSE UNCHANGED <<salted, htList>>
  /\ UNCHANGED <<role, loads, reg, cacheVars, pc, loc, via>>

\* private_remove, the unload hook of auth_salt, looks into the tables of
\* ht_list and forgets those that are empty then.
PrivateRemove(s) ==
  /\ busy = s
  /\ stage["salt"] = "stop"
  /\ stage' = [stage EXCEPT !["salt"] = "out"]
  /\ salted' = salted \ htList
  /\ htList' = {}
  /\ busy' = None
  /\ UNCHANGED <<role, loads, queue, reg, base, cacheVars, table, own, late, pc, loc, via, raced>>

-----------------------------------------------------------------------------
(* The session's own data: mbb_session_var_get_data.                         *)

\* mbb-var-show, mbb-show-vars and mbb-var-set of a session variable hold the
\* reader lock of mbbvar.c; private's variable can be neither read nor written.
VarUse(s) ==
  /\ Calls(s)
  /\ Alive("netflow")
  /\ Goto(s, "using", Obj("netflow"), "var")
  /\ UNCHANGED <<role, modVars, base, cacheVars, tableVars, raced>>

\* A method of netflow and the salt method of authorization look at their data
\* while their module is used.
ModuleUse(s, m) ==
  /\ Calls(s)
  /\ stage[m] = "in"
  /\ m \in {"netflow", "salt"}
  /\ Goto(s, "using", Obj(IF m = "salt" THEN "private" ELSE m), m)
  /\ UNCHANGED <<role, modVars, base, cacheVars, tableVars, raced>>

\* A write of a bad text is none, as is mbb-var-show.  private_init: the salt is
\* put into the session's table, the table into ht_list.
UseDone(s, text) ==
  /\ pc[s] = "using"
  /\ table' = [table EXCEPT ![s] = @ \cup {loc[s]}]
  /\ own' = IF loc[s][1] # "netflow" THEN own
            ELSE [own EXCEPT ![s] =
                    LET had == IF loc[s] \in table[s] THEN own[s] ELSE Read(base)
                    IN IF via[s] = "var" THEN Write(had, text) ELSE had]
  /\ IF via[s] = "salt"
     THEN salted' = salted \cup {s} /\ htList' = htList \cup {s}
     ELSE UNCHANGED <<salted, htList>>
  /\ raced' = raced \ {s}
  /\ Done(s)
  /\ UNCHANGED <<role, modVars, base, cacheVars, late>>

-----------------------------------------------------------------------------
(* The base variable and the caches.                                        *)

\* mbb-var-set: root only, by the variable's own mask.
BaseSet(s, text) ==
  /\ Calls(s)
  /\ Alive("netflow")
  /\ Root(s)
  /\ base' = Write(base, text)
  /\ UNCHANGED <<role, modVars, cacheVars, tableVars, pc, loc, via, raced>>

\* Mutant: anyone may fill the caches.
AnyoneCaches(s) == TRUE

MayCache(s) == Wheel(s)

\* mbb-var-cache-add with a text, which nothing looks at.
CacheAdd(s, text, mine) ==
  /\ Calls(s)
  /\ MayCache(s)
  /\ MayWriteVars
  /\ IF mine
     THEN ownCache' = [ownCache EXCEPT ![s] = text] /\ UNCHANGED cache
     ELSE cache' = text /\ UNCHANGED ownCache
  /\ UNCHANGED <<role, modVars, base, tableVars, pc, loc, via, raced>>

\* mbb-var-cache-add without a text keeps what the variable reads.
CacheAddRead(s, mine) ==
  /\ Calls(s)
  /\ MayCache(s)
  /\ MayWriteVars
  /\ Alive("netflow")
  /\ IF mine
     THEN /\ Insert(s, Obj("netflow"))
          /\ ownCache' = [ownCache EXCEPT ![s] = Read(own'[s])]
          /\ UNCHANGED cache
     ELSE /\ cache' = Read(base)
          /\ UNCHANGED <<table, own, ownCache>>
  /\ UNCHANGED <<role, modVars, base, salted, htList, late, pc, loc, via, raced>>

CacheDel(s, mine) ==
  /\ Calls(s)
  /\ Wheel(s)
  /\ MayWriteVars
  /\ IF mine
     THEN ownCache' = [ownCache EXCEPT ![s] = None] /\ UNCHANGED cache
     ELSE cache' = None /\ UNCHANGED ownCache
  /\ UNCHANGED <<role, modVars, base, tableVars, pc, loc, via, raced>>

\* mbb-var-cache-load writes a variable from its cache whoever may set it, if
\* there is anything in the cache.
CacheLoad(s, mine) ==
  /\ Calls(s)
  /\ Wheel(s)
  /\ Alive("netflow")
  /\ IF mine
     THEN /\ ownCache[s] # None
          /\ table' = [table EXCEPT ![s] = @ \cup {Obj("netflow")}]
          /\ own' = [own EXCEPT ![s] =
                       Write(IF Obj("netflow") \in table[s] THEN @ ELSE Read(base), ownCache[s])]
          /\ UNCHANGED base
     ELSE /\ base' = Write(base, cache)
          /\ UNCHANGED <<table, own>>
  /\ UNCHANGED <<role, modVars, cacheVars, salted, htList, late, pc, loc, via, raced>>

\* mbb-module-vars-load does that for the variables of a module, run or not.
ModuleVarsLoad(s) ==
  /\ Calls(s)
  /\ Wheel(s)
  /\ busy = None
  /\ stage["netflow"] = "in"
  /\ IF ownCache[s] = None THEN UNCHANGED <<table, own>>
     ELSE /\ table' = [table EXCEPT ![s] = @ \cup {Obj("netflow")}]
          /\ own' = [own EXCEPT ![s] =
                       Write(IF Obj("netflow") \in table[s] THEN @ ELSE Read(base), ownCache[s])]
  /\ base' = Write(base, cache)
  /\ UNCHANGED <<role, modVars, cacheVars, salted, htList, late, pc, loc, via, raced>>

\* mbb-module-vars-save holds the reader lock of mbbmodule.c: the session
\* variable, then the base variable, each read before the writer lock of
\* mbbvar.c is taken to store it.
ModuleVarsSave(s) ==
  /\ Calls(s)
  /\ Wheel(s)
  /\ busy = None
  /\ stage["netflow"] = "in"
  /\ MayWriteVars
  /\ Insert(s, Obj("netflow"))
  /\ ownCache' = [ownCache EXCEPT ![s] = Read(own'[s])]
  /\ Goto(s, "save", Read(base), None)
  /\ UNCHANGED <<role, modVars, base, cache, salted, htList, late, raced>>

SaveBase(s) ==
  /\ pc[s] = "save"
  /\ MayWriteVars
  /\ cache' = loc[s]
  /\ Done(s)
  /\ UNCHANGED <<role, modVars, base, ownCache, tableVars, raced>>

-----------------------------------------------------------------------------
(* What stops the daemon.                                                  *)

Fault(s, why) ==
  /\ Goto(s, "fault", loc[s], why)
  /\ UNCHANGED <<role, modVars, base, cacheVars, tableVars, raced>>

\* The link of the queue the session stands at was freed.
WalkFault(s) == pc[s] = "walk" /\ loc[s] \notin Range(queue) \cup {None} /\ Fault(s, "walk")

\* A variable that was freed is asked how to free its data.
QuitFault(s) == Calls(s) /\ ~ table[s] \subseteq Range(queue) /\ Fault(s, "quit")

\* A hash table was changed by another thread in the middle of a lookup.
TableFault(s) == pc[s] = "using" /\ s \in raced /\ Fault(s, "table")

\* private's variable has no op_read, which mbb_var_read calls: on
\* mbb-module-vars-save and on mbb-var-cache-add without a text.
ReadFault(s) ==
  /\ Calls(s)
  /\ Wheel(s)
  /\ Alive("private")
  /\ Fault(s, "read")

-----------------------------------------------------------------------------
Running == \A s \in Sessions : pc[s] # "fault"

SessionSteps(s) == SessionNew(s) \/ Walk(s) \/ SessionInsert(s) \/ SessionQuit(s)

ModuleSteps(s) ==
  \E m \in Mods :
    \/ LoadBegin(s, m) \/ Register(s, m)
    \/ UnloadBegin(s, m) \/ Unregister(s, m) \/ FreeVar(s, m) \/ PrivateRemove(s)
    \/ ModuleUse(s, m)

VarSteps(s) ==
  \/ VarUse(s) \/ ModuleVarsLoad(s) \/ ModuleVarsSave(s) \/ SaveBase(s)
  \/ \E text \in Sends(s) :
       UseDone(s, text) \/ BaseSet(s, text) \/ \E mine \in BOOLEAN : CacheAdd(s, text, mine)
  \/ \E mine \in BOOLEAN : CacheAddRead(s, mine) \/ CacheDel(s, mine) \/ CacheLoad(s, mine)

FaultSteps(s) == WalkFault(s) \/ QuitFault(s) \/ TableFault(s) \/ ReadFault(s)

Next ==
  /\ Running
  /\ \E s \in Sessions : SessionSteps(s) \/ ModuleSteps(s) \/ VarSteps(s) \/ FaultSteps(s)

Spec == Init /\ [][Next]_vars

-----------------------------------------------------------------------------
(* Properties.                                                             *)

\* The tables of the sessions, used without a lock, name only variables that
\* exist, whenever modules come and go, but for a session that was on its way
\* in when a module was unloaded (mbb_session_new and mbb_session_del_var); no
\* session follows a freed variable otherwise, and a table is changed under the
\* hands of its session only while a module is unloaded.  A salt does not
\* outlive auth_salt (private_remove).
TablesLive ==
  /\ \A s \in Sessions :
       /\ table[s] \subseteq Range(queue) \cup late[s]
       /\ pc[s] = "using" => loc[s] \in Range(queue)
       /\ pc[s] = "fault" =>
            \/ via[s] = "walk" /\ loc[s] \in late[s]
            \/ via[s] = "quit" /\ table[s] \cap late[s] # {}
            \/ via[s] = "table" /\ \E m \in HasVar \ {loc[s][1]} : stage[m] \notin {"new", "in"} \/ loads[m] > 1
            \/ via[s] = "read"
  /\ salted \subseteq htList
  /\ salted # {} => stage["salt"] # "out"

\* Netflow's directory is only ever one that root or wheel or the configuration
\* chose and that var_conv_dir accepts, although caches keep any text, a load
\* copies what they have, and every client may set its own copy (mbb_var_set,
\* mbb_var_mregister, var_cache_add, var_cache_load, module_vars_load).
Trusted == base \in {None, "trusted"}
=============================================================================
