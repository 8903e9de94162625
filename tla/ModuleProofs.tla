---------------------------- MODULE ModuleProofs ----------------------------
(***************************************************************************)
(* Proofs about Module: code stays mapped while it is used and references   *)
(* are counted, for every set of modules, callers and tasks, whichever      *)
(* modules are stopped and whatever they import or register.               *)
(***************************************************************************)
EXTENDS Module, FiniteSetTheorems, TLAPS

All == Callers \cup Tasks \cup Modules

(* The inductive invariant, in parts.                                      *)

\* Who holds the module table's lock as writer.
WriterInv ==
  \A c \in Callers :
    writer = c <=> pc[c] \in {"load", "auth", "void", "reg", "unreg", "close"}

\* A module's way into the tables and out of them.
TablesInv ==
  /\ loaded \subseteq mapped /\ registered \subseteq mapped
  /\ \A m \in Modules : run[m] => m \in loaded
  /\ \A m \in registered : m \in loaded \/ \E c \in Callers : pc[c] = "reg" /\ cur[c] = m
  /\ \A c \in Callers :
       /\ pc[c] \in {"load", "auth", "void", "reg"} => cur[c] \in mapped \ loaded
       /\ pc[c] \in {"unreg", "close"} => cur[c] \in loaded /\ ~ run[cur[c]]
       /\ pc[c] = "close" /\ cur[c] \notin Auth => cur[c] \notin registered
       /\ pc[c] = "found" => cur[c] \in registered

\* Only a module in the table, or on its way there, has imported another.
DepInv ==
  /\ \A m \in Modules : dep[m] # None =>
       m \in loaded \/ \E c \in Callers : pc[c] \in {"auth", "void", "reg"} /\ cur[c] = m
  /\ \A c \in Callers : pc[c] = "close" => dep[cur[c]] = None

\* A task whose thread is not created yet belongs to one creator.
SpawnInv ==
  /\ \A c \in Callers : pc[c] = "spawn" =>
       task[c] \in Tasks /\ tpc[task[c]] = "new" /\ tmod[task[c]] = cur[c]
  /\ \A c, d \in Callers : pc[c] = "spawn" /\ pc[d] = "spawn" /\ task[c] = task[d] => c = d

\* What a module that is being loaded imports is not freed under it.
LoadingInv ==
  \A c \in Callers : pc[c] \in {"load", "auth", "void", "reg"} => cur[c] \notin stale

\* A user whose module is not in the table is stale.
UserInv == \A m \in Modules : \A u \in UsersOf(m) : u \in stale \/ m \in loaded

\* Refused and stale users are users, of modules that were slighted.
HistInv ==
  /\ \A u \in refused \cup stale : \E m \in Modules : u \in UsersOf(m)
  /\ \A m \in Modules : \A u \in UsersOf(m) : u \in refused \cup stale => m \in slighted
  /\ refused \cap stale = {}

\* RefsCounted for modules that are not in the table too.
RefsInv ==
  \A m \in Modules :
    /\ refs[m] = Cardinality(Holders(m)) + extra[m]
    /\ m \notin slighted => extra[m] >= 0
    /\ m \notin loaded => refs[m] = 0 /\ extra[m] = 0

\* A module that is being unloaded.
Closing(m) == \E c \in Callers : pc[c] \in {"unreg", "close"} /\ cur[c] = m

\* What mbb_module_unload found stays so, unless the module was slighted.
ClosingInv == \A m \in Modules : Closing(m) /\ m \notin slighted => refs[m] = 0

Counts == UserInv /\ HistInv /\ RefsInv /\ ClosingInv

IInv == TypeOK /\ WriterInv /\ TablesInv /\ DepInv /\ SpawnInv /\ LoadingInv /\ Counts

-----------------------------------------------------------------------------
(* Users and holders.                                                      *)

LEMMA UsersInAll ==
  ASSUME NEW m PROVE UsersOf(m) \subseteq All
BY DEF UsersOf, All

LEMMA HoldersFinite ==
  ASSUME NEW m
  PROVE  IsFiniteSet(Holders(m)) /\ Cardinality(Holders(m)) \in Nat
<1>1. IsFiniteSet(Tasks)
  BY BoundAssumption, FS_Interval DEF Tasks
<1>2. IsFiniteSet(Callers \cup Tasks)
  BY <1>1, SetsAssumption, FS_Union
<1>3. IsFiniteSet(All)
  BY <1>2, SetsAssumption, FS_Union DEF All
<1>4. Holders(m) \subseteq All
  BY UsersInAll DEF Holders
<1>q. QED
  BY <1>3, <1>4, FS_Subset, FS_CardinalityType

\* Nobody uses two modules at a time.
LEMMA OneModule ==
  ASSUME NEW m, NEW n, NEW u \in UsersOf(m), u \in UsersOf(n)
  PROVE  m = n
BY SetsAssumption DEF UsersOf

\* A module that was not slighted and has no references has no users.
LEMMA NobodyUses ==
  ASSUME Counts, NEW m \in Modules, m \notin slighted, refs[m] = 0, TypeOK
  PROVE  UsersOf(m) = {}
<1>1. UsersOf(m) = Holders(m)
  BY DEF Counts, HistInv, Holders
<1>2. Cardinality(Holders(m)) = 0
  <2>1. refs[m] = Cardinality(Holders(m)) + extra[m] /\ extra[m] >= 0 /\ extra[m] \in Int
    BY DEF Counts, RefsInv, TypeOK
  <2>q. QED
    BY <2>1, HoldersFinite
<1>3. Holders(m) = {}
  BY <1>2, HoldersFinite, FS_EmptySet
<1>q. QED
  BY <1>1, <1>3

-----------------------------------------------------------------------------
(* What a step does to users and counts: one of six things.                *)

Others(m) == \A n \in Modules : n # m => UsersOf(n)' = UsersOf(n)
NoneCloses == \A n \in Modules : Closing(n)' => Closing(n)

\* Nothing; a module may come into the table, or its unloading begin.
Kept ==
  /\ \A n \in Modules : UsersOf(n)' = UsersOf(n)
  /\ UNCHANGED <<refs, extra, refused, stale, slighted>>
  /\ loaded \subseteq loaded'
  /\ \A n \in Modules : Closing(n)' => Closing(n) \/ refs[n] = 0

\* A user more, with or without a reference.
Gained(u, m) ==
  /\ \A n \in Modules : u \notin UsersOf(n)
  /\ loaded \subseteq loaded' /\ m \in loaded'
  /\ UsersOf(m)' = UsersOf(m) \cup {u}
  /\ Others(m)
  /\ NoneCloses
  /\ UNCHANGED <<extra, stale>>
  /\ \/ /\ refs' = [refs EXCEPT ![m] = refs[m] + 1]
        /\ ~Closing(m)
        /\ UNCHANGED <<refused, slighted>>
     \/ refused' = refused \cup {u} /\ slighted' = slighted \cup {m} /\ UNCHANGED refs

\* A user less, that gives a reference back.
Lost(u, m) ==
  /\ u \in UsersOf(m)
  /\ UsersOf(m)' = UsersOf(m) \ {u}
  /\ Others(m)
  /\ NoneCloses
  /\ Unuse(u, m)
  /\ UNCHANGED loaded

\* A user less, that keeps its reference.
Voided(u, m) ==
  /\ u \in UsersOf(m) /\ u \notin stale /\ m \in loaded
  /\ UsersOf(m)' = UsersOf(m) \ {u}
  /\ Others(m)
  /\ NoneCloses
  /\ extra' = IF u \in refused THEN extra ELSE [extra EXCEPT ![m] = extra[m] + 1]
  /\ refused' = refused \ {u}
  /\ UNCHANGED <<refs, stale, slighted, loaded>>

\* A module goes.
Freed(m) ==
  /\ \A n \in Modules : UsersOf(n)' = UsersOf(n)
  /\ Closing(m)
  /\ \A n \in Modules : Closing(n)' => Closing(n) /\ n # m
  /\ loaded' = loaded \ {m}
  /\ FreedUnder(m)

\* A module is about to come.
Fresh(m) ==
  /\ \A n \in Modules : UsersOf(n)' = UsersOf(n)
  /\ NoneCloses
  /\ m \notin loaded
  /\ slighted' = IF UsersOf(m) = {} THEN slighted \ {m} ELSE slighted
  /\ UNCHANGED <<refs, extra, refused, stale, loaded>>

Effect ==
  \/ Kept
  \/ \E u \in All, m \in Modules : Gained(u, m) \/ Lost(u, m) \/ Voided(u, m)
  \/ \E m \in Modules : Freed(m) \/ Fresh(m)

LEMMA KeptCounts ==
  ASSUME TypeOK, Counts, Kept
  PROVE  Counts'
<1>1. \A n \in Modules : Holders(n)' = Holders(n)
  BY DEF Kept, Holders
<1>2. UserInv' /\ HistInv'
  BY DEF Kept, Counts, UserInv, HistInv
<1>3. RefsInv' /\ ClosingInv'
  BY <1>1 DEF Kept, Counts, RefsInv, ClosingInv
<1>q. QED
  BY <1>2, <1>3 DEF Counts

LEMMA GainedCounts ==
  ASSUME TypeOK, Counts, NEW u \in All, NEW m \in Modules, Gained(u, m)
  PROVE  Counts'
<1>0. u \notin refused \cup stale
  BY DEF Gained, Counts, HistInv
<1>1. \A n \in Modules : n # m => Holders(n)' = Holders(n)
  BY DEF Gained, Others, Holders
<1>2. UserInv' /\ HistInv'
  <2>1. UserInv'
    BY DEF Gained, Others, Counts, UserInv
  <2>2. HistInv'
    <3>1. \A v \in (refused \cup stale)' : \E n \in Modules : v \in UsersOf(n)'
      BY DEF Gained, Others, Counts, HistInv
    <3>2. \A n \in Modules : \A v \in UsersOf(n)' : v \in (refused \cup stale)' => n \in slighted'
      BY <1>0 DEF Gained, Others, Counts, HistInv
    <3>3. refused' \cap stale' = {}
      BY <1>0 DEF Gained, Counts, HistInv
    <3>q. QED
      BY <3>1, <3>2, <3>3 DEF HistInv
  <2>q. QED
    BY <2>1, <2>2
<1>3. CASE /\ refs' = [refs EXCEPT ![m] = refs[m] + 1] /\ ~Closing(m)
           /\ UNCHANGED <<refused, slighted>>
  <2>1. Holders(m)' = Holders(m) \cup {u} /\ u \notin Holders(m)
    BY <1>0, <1>3 DEF Gained, Holders
  <2>2. Cardinality(Holders(m)') = Cardinality(Holders(m)) + 1
    BY <2>1, HoldersFinite, FS_AddElement
  <2>3. RefsInv'
    <3>1. /\ refs'[m] = refs[m] + 1
          /\ \A n \in Modules : n # m => refs'[n] = refs[n]
      BY <1>3 DEF TypeOK
    <3>2. refs[m] = Cardinality(Holders(m)) + extra[m] /\ extra[m] \in Int
      BY DEF Counts, RefsInv, TypeOK
    <3>3. refs'[m] = Cardinality(Holders(m)') + extra[m]
      BY <2>2, <3>1, <3>2, HoldersFinite
    <3>4. \A n \in Modules : n # m => refs'[n] = Cardinality(Holders(n)') + extra[n]
      BY <1>1, <3>1 DEF Counts, RefsInv
    <3>5. loaded \subseteq loaded' /\ m \in loaded' /\ UNCHANGED <<extra, slighted>>
      BY <1>3 DEF Gained
    <3>q. QED
      BY <3>1, <3>3, <3>4, <3>5 DEF Counts, RefsInv
  <2>4. ClosingInv'
    BY <1>3 DEF Gained, NoneCloses, Counts, ClosingInv, TypeOK
  <2>q. QED
    BY <1>2, <2>3, <2>4 DEF Counts
<1>4. CASE /\ refused' = refused \cup {u} /\ slighted' = slighted \cup {m} /\ UNCHANGED refs
  <2>1. Holders(m)' = Holders(m)
    BY <1>0, <1>4 DEF Gained, Holders
  <2>2. \A n \in Modules : Holders(n)' = Holders(n)
    BY <1>1, <2>1
  <2>3. RefsInv' /\ ClosingInv'
    BY <1>4, <2>2 DEF Gained, NoneCloses, Counts, RefsInv, ClosingInv
  <2>q. QED
    BY <1>2, <2>3 DEF Counts
<1>q. QED
  BY <1>3, <1>4 DEF Gained

\* What the last two have in common: a user goes, and with it its history.
LEMMA GoneUser ==
  ASSUME Counts, NEW u, NEW m \in Modules, u \in UsersOf(m),
         UsersOf(m)' = UsersOf(m) \ {u}, Others(m),
         refused' = refused \ {u}, stale' = stale \ {u}, UNCHANGED <<slighted, loaded>>
  PROVE  /\ UserInv' /\ HistInv'
         /\ \A n \in Modules : n # m => Holders(n)' = Holders(n)
         /\ u \notin refused \cup stale =>
              Cardinality(Holders(m)') = Cardinality(Holders(m)) - 1 /\ Cardinality(Holders(m)) > 0
         /\ u \in refused \cup stale => Holders(m)' = Holders(m)
<1>1. \A n \in Modules : n # m => u \notin UsersOf(n)
  BY OneModule
<1>2. UserInv'
  BY <1>1 DEF Counts, UserInv, Others
<1>3. HistInv'
  <2>1. \A v \in (refused \cup stale)' : \E n \in Modules : v \in UsersOf(n)'
    BY DEF Others, Counts, HistInv
  <2>2. \A n \in Modules : \A v \in UsersOf(n)' : v \in (refused \cup stale)' => n \in slighted'
    BY DEF Others, Counts, HistInv
  <2>3. refused' \cap stale' = {}
    BY DEF Counts, HistInv
  <2>q. QED
    BY <2>1, <2>2, <2>3 DEF HistInv
<1>4. \A n \in Modules : n # m => Holders(n)' = Holders(n)
  BY <1>1 DEF Holders, Others
<1>5. ASSUME u \notin refused \cup stale
      PROVE  Cardinality(Holders(m)') = Cardinality(Holders(m)) - 1 /\ Cardinality(Holders(m)) > 0
  <2>1. Holders(m)' = Holders(m) \ {u} /\ u \in Holders(m)
    BY <1>5 DEF Holders
  <2>2. Cardinality(Holders(m)) # 0
    BY <2>1, HoldersFinite, FS_EmptySet
  <2>q. QED
    BY <2>1, <2>2, HoldersFinite, FS_RemoveElement
<1>6. ASSUME u \in refused \cup stale
      PROVE  Holders(m)' = Holders(m)
  BY <1>6 DEF Holders
<1>q. QED
  BY <1>2, <1>3, <1>4, <1>5, <1>6

LEMMA LostCounts ==
  ASSUME TypeOK, Counts, NEW u \in All, NEW m \in Modules, Lost(u, m)
  PROVE  Counts'
<1>1. /\ UserInv' /\ HistInv'
      /\ \A n \in Modules : n # m => Holders(n)' = Holders(n)
      /\ u \notin refused \cup stale =>
           Cardinality(Holders(m)') = Cardinality(Holders(m)) - 1 /\ Cardinality(Holders(m)) > 0
      /\ u \in refused \cup stale => Holders(m)' = Holders(m)
  BY GoneUser DEF Lost, Unuse
<1>2. /\ refs' \in [Modules -> Int] /\ extra' \in [Modules -> Int]
      /\ \A n \in Modules : n # m => refs'[n] = refs[n] /\ extra'[n] = extra[n]
  BY DEF Lost, Unuse, TypeOK
<1>3. \/ /\ u \notin refused \cup stale
         /\ refs'[m] = refs[m] - 1 /\ extra'[m] = extra[m]
      \/ u \in refused /\ u \notin stale /\ refs'[m] = refs[m] - 1 /\ extra'[m] = extra[m] - 1
      \/ u \in stale /\ u \notin refused /\ refs'[m] = refs[m] /\ extra'[m] = extra[m]
  BY DEF Lost, Unuse, TypeOK, Counts, HistInv
<1>4. u \in refused \cup stale => m \in slighted
  BY DEF Lost, Counts, HistInv
<1>5. u \notin stale => m \in loaded
  BY DEF Lost, Counts, UserInv
<1>6. UNCHANGED <<slighted, loaded>>
  BY DEF Lost, Unuse
<1>7. refs'[m] = Cardinality(Holders(m)') + extra'[m]
  <2>1. refs[m] = Cardinality(Holders(m)) + extra[m] /\ refs[m] \in Int /\ extra[m] \in Int
    BY DEF Counts, RefsInv, TypeOK
  <2>q. QED
    BY <1>1, <1>3, <2>1, HoldersFinite
<1>8. m \notin slighted => extra'[m] >= 0
  BY <1>3, <1>4 DEF Counts, RefsInv
<1>9. m \notin loaded => refs'[m] = 0 /\ extra'[m] = 0
  BY <1>3, <1>5 DEF Counts, RefsInv
<1>10. RefsInv'
  BY <1>1, <1>2, <1>6, <1>7, <1>8, <1>9 DEF Counts, RefsInv
<1>11. ClosingInv'
  <2>1. ASSUME Closing(m), m \notin slighted PROVE FALSE
    <3>1. refs[m] = 0
      BY <2>1 DEF Counts, ClosingInv
    <3>q. QED
      BY <2>1, <3>1, NobodyUses DEF Lost
  <2>q. QED
    BY <1>2, <1>6, <2>1 DEF Lost, NoneCloses, Counts, ClosingInv
<1>q. QED
  BY <1>1, <1>10, <1>11 DEF Counts

LEMMA VoidedCounts ==
  ASSUME TypeOK, Counts, NEW u \in All, NEW m \in Modules, Voided(u, m)
  PROVE  Counts'
<1>0. stale' = stale \ {u}
  BY DEF Voided
<1>1. /\ UserInv' /\ HistInv'
      /\ \A n \in Modules : n # m => Holders(n)' = Holders(n)
      /\ u \notin refused \cup stale =>
           Cardinality(Holders(m)') = Cardinality(Holders(m)) - 1 /\ Cardinality(Holders(m)) > 0
      /\ u \in refused \cup stale => Holders(m)' = Holders(m)
  BY <1>0, GoneUser DEF Voided
<1>2. /\ extra' \in [Modules -> Int]
      /\ \A n \in Modules : n # m => extra'[n] = extra[n]
      /\ extra'[m] = IF u \in refused THEN extra[m] ELSE extra[m] + 1
  BY DEF Voided, TypeOK
<1>3. refs[m] = Cardinality(Holders(m)') + extra'[m]
  <2>1. refs[m] = Cardinality(Holders(m)) + extra[m] /\ refs[m] \in Int /\ extra[m] \in Int
    BY DEF Counts, RefsInv, TypeOK
  <2>q. QED
    BY <1>1, <1>2, <2>1, HoldersFinite DEF Voided
<1>4. m \notin slighted => extra'[m] >= 0
  BY <1>2 DEF Counts, RefsInv, TypeOK
<1>5. RefsInv'
  BY <1>1, <1>2, <1>3, <1>4 DEF Voided, Counts, RefsInv
<1>6. ClosingInv'
  BY DEF Voided, NoneCloses, Counts, ClosingInv
<1>q. QED
  BY <1>1, <1>5, <1>6 DEF Counts

LEMMA FreedCounts ==
  ASSUME TypeOK, Counts, NEW m \in Modules, Freed(m)
  PROVE  Counts'
<1>1. m \notin slighted => UsersOf(m) = {}
  BY NobodyUses DEF Freed, Counts, ClosingInv
<1>2. /\ refused' = refused \ UsersOf(m) /\ stale' = stale \cup UsersOf(m)
      /\ UNCHANGED slighted /\ loaded' = loaded \ {m}
      /\ \A n \in Modules : UsersOf(n)' = UsersOf(n)
  BY DEF Freed, FreedUnder
<1>3. UserInv'
  BY <1>2 DEF Counts, UserInv
<1>4. HistInv'
  <2>1. \A v \in (refused \cup stale)' : \E n \in Modules : v \in UsersOf(n)'
    BY <1>2 DEF Counts, HistInv
  <2>2. \A n \in Modules : \A v \in UsersOf(n)' : v \in (refused \cup stale)' => n \in slighted'
    BY <1>1, <1>2, OneModule DEF Counts, HistInv
  <2>3. refused' \cap stale' = {}
    BY <1>2 DEF Counts, HistInv
  <2>q. QED
    BY <2>1, <2>2, <2>3 DEF HistInv
<1>5. Holders(m)' = {}
  BY <1>2 DEF Holders
<1>6. \A n \in Modules : n # m => Holders(n)' = Holders(n)
  <2> SUFFICES ASSUME NEW n \in Modules, n # m PROVE Holders(n)' = Holders(n)
    OBVIOUS
  <2>1. \A v \in UsersOf(n) : v \notin UsersOf(m)
    BY OneModule
  <2>q. QED
    BY <1>2, <2>1 DEF Holders
<1>7. /\ refs'[m] = 0 /\ extra'[m] = 0
      /\ \A n \in Modules : n # m => refs'[n] = refs[n] /\ extra'[n] = extra[n]
  BY DEF Freed, FreedUnder, TypeOK
<1>8. RefsInv'
  <2>1. refs'[m] = Cardinality(Holders(m)') + extra'[m] /\ extra'[m] >= 0
    BY <1>5, <1>7, FS_EmptySet
  <2>q. QED
    BY <1>2, <1>6, <1>7, <2>1 DEF Counts, RefsInv
<1>9. ClosingInv'
  BY <1>2, <1>7 DEF Freed, Counts, ClosingInv
<1>q. QED
  BY <1>3, <1>4, <1>8, <1>9 DEF Counts

LEMMA FreshCounts ==
  ASSUME TypeOK, Counts, NEW m \in Modules, Fresh(m)
  PROVE  Counts'
<1>1. \A n \in Modules : Holders(n)' = Holders(n)
  BY DEF Fresh, Holders
<1>2. UserInv' /\ HistInv'
  BY DEF Fresh, Counts, UserInv, HistInv
<1>3. extra[m] = 0 /\ refs[m] = 0
  BY DEF Fresh, Counts, RefsInv
<1>4. RefsInv' /\ ClosingInv'
  BY <1>1, <1>3 DEF Fresh, NoneCloses, Counts, RefsInv, ClosingInv
<1>q. QED
  BY <1>2, <1>4 DEF Counts

LEMMA EffectCounts ==
  ASSUME TypeOK, Counts, Effect PROVE Counts'
BY KeptCounts, GainedCounts, LostCounts, VoidedCounts, FreedCounts, FreshCounts DEF Effect

-----------------------------------------------------------------------------
(* One lemma per part of the invariant, one step per action.               *)

LEMMA TypeStep ==
  ASSUME IInv, [Next]_vars PROVE TypeOK'
<1> USE ImportAssumption DEF IInv, TypeOK, PC, UsersOf
<1>1. ASSUME NEW c \in Callers, LoadHook(c) PROVE TypeOK'
  BY <1>1 DEF LoadHook, AfterImport, UseBlindly, Use, Goto, taskVars, hist
<1>2. ASSUME NEW c \in Callers, RegisterAuth(c) PROVE TypeOK'
  BY <1>2 DEF RegisterAuth, MayWrite, Reads, Goto, taskVars, hist
<1>3. ASSUME NEW c \in Callers, VoidModule(c) PROVE TypeOK'
  BY <1>3 DEF VoidModule, Goto, taskVars, hist
<1>4. ASSUME NEW c \in Callers, RegData(c) PROVE TypeOK'
  <2>1. run' \in [Modules -> BOOLEAN]
    <3>1. run' = run \/ run' = [run EXCEPT ![cur[c]] = TRUE]
      BY <1>4 DEF RegData
    <3>q. QED
      BY <3>1, Zenon
  <2>2. refs' \in [Modules -> Int]
    BY <1>4 DEF RegData
  <2>3. pc' \in [Callers -> PC]
    BY <1>4 DEF RegData, Goto
  <2>q. QED
    BY <1>4, <2>1, <2>2, <2>3 DEF RegData, hist, taskVars
<1>5. ASSUME NEW c \in Callers, OnreadyDone(c) PROVE TypeOK'
  BY <1>5 DEF OnreadyDone, Unuse, Goto, tables, taskVars, hist
<1>6. ASSUME NEW c \in Callers, UnregData(c) PROVE TypeOK'
  BY <1>6 DEF UnregData, MayWrite, Reads, Unuse, Goto, taskVars, hist
<1>7. ASSUME NEW c \in Callers, Close(c) PROVE TypeOK'
  BY <1>7 DEF Close, FreedUnder, MayWrite, Reads, Goto, taskVars, hist
<1>8. ASSUME NEW c \in Callers, UseFound(c) PROVE TypeOK'
  BY <1>8 DEF UseFound, Use, Goto, tables, taskVars, hist
<1>9. ASSUME NEW c \in Callers, CreateTask(c) PROVE TypeOK'
  BY <1>9 DEF CreateTask, UseBlindly, Use, Goto, tables, hist
<1>10. ASSUME NEW c \in Callers, Spawn(c) PROVE TypeOK'
  BY <1>10 DEF Spawn, Goto, tables, hist
<1>11. ASSUME NEW c \in Callers, SpawnFails(c) PROVE TypeOK'
  <2>1. task[c] \in Tasks /\ tmod[task[c]] \in Modules
    BY <1>11 DEF SpawnFails, SpawnInv
  <2>q. QED
    BY <1>11, <2>1 DEF SpawnFails, Unuse, Goto, tables
<1>12. ASSUME NEW c \in Callers, Return(c) PROVE TypeOK'
  BY <1>12 DEF Return, Unuse, Goto, tables, hist
<1>13. ASSUME NEW c \in Callers, NEW m \in Modules, Search(c, m) PROVE TypeOK'
  BY <1>13 DEF Search, Goto, tables, taskVars, hist
<1>14. ASSUME NEW c \in Callers, NEW m \in Modules, ModuleRun(c, m) PROVE TypeOK'
  BY <1>14 DEF ModuleRun, tables, taskVars, hist
<1>15. ASSUME NEW c \in Callers, NEW m \in Modules, LoadBegin(c, m) PROVE TypeOK'
  BY <1>15 DEF LoadBegin, Goto, taskVars, hist
<1>16. ASSUME NEW c \in Callers, NEW m \in Modules, UnloadBegin(c, m) PROVE TypeOK'
  BY <1>16 DEF UnloadBegin, Goto, tables, taskVars, hist
<1>17. ASSUME NEW t \in Tasks, TaskEnd(t) PROVE TypeOK'
  BY <1>17 DEF TaskEnd, Unuse, tables, hist
<1>18. CASE UNCHANGED vars
  BY <1>18 DEF vars, hist
<1>q. QED
  BY <1>1, <1>2, <1>3, <1>4, <1>5, <1>6, <1>7, <1>8, <1>9, <1>10, <1>11, <1>12, <1>13, <1>14, <1>15,
     <1>16, <1>17, <1>18 DEF Next, Loading, Calling

LEMMA WriterStep ==
  ASSUME IInv, [Next]_vars PROVE WriterInv'
<1> USE ImportAssumption DEF IInv, TypeOK, WriterInv
<1>1. ASSUME NEW c \in Callers, LoadHook(c) PROVE WriterInv'
  BY <1>1 DEF LoadHook, AfterImport, UseBlindly, Use, Goto, taskVars
<1>2. ASSUME NEW c \in Callers, RegisterAuth(c) PROVE WriterInv'
  BY <1>2 DEF RegisterAuth, MayWrite, Reads, Goto, taskVars
<1>3. ASSUME NEW c \in Callers, VoidModule(c) PROVE WriterInv'
  BY <1>3 DEF VoidModule, Goto, taskVars
<1>4. ASSUME NEW c \in Callers, RegData(c) PROVE WriterInv'
  BY <1>4 DEF RegData, NameTaken, Goto, taskVars
<1>5. ASSUME NEW c \in Callers, OnreadyDone(c) PROVE WriterInv'
  BY <1>5 DEF OnreadyDone, Unuse, Goto, tables, taskVars
<1>6. ASSUME NEW c \in Callers, UnregData(c) PROVE WriterInv'
  BY <1>6 DEF UnregData, MayWrite, Reads, Unuse, Goto, taskVars
<1>7. ASSUME NEW c \in Callers, Close(c) PROVE WriterInv'
  BY <1>7 DEF Close, FreedUnder, MayWrite, Reads, Goto, taskVars
<1>8. ASSUME NEW c \in Callers, UseFound(c) PROVE WriterInv'
  BY <1>8 DEF UseFound, Use, Goto, tables, taskVars
<1>9. ASSUME NEW c \in Callers, CreateTask(c) PROVE WriterInv'
  BY <1>9 DEF CreateTask, UseBlindly, Use, Goto, tables
<1>10. ASSUME NEW c \in Callers, Spawn(c) PROVE WriterInv'
  BY <1>10 DEF Spawn, Goto, tables
<1>11. ASSUME NEW c \in Callers, SpawnFails(c) PROVE WriterInv'
  BY <1>11 DEF SpawnFails, Unuse, Goto, tables
<1>12. ASSUME NEW c \in Callers, Return(c) PROVE WriterInv'
  BY <1>12 DEF Return, Unuse, Goto, tables
<1>13. ASSUME NEW c \in Callers, NEW m \in Modules, Search(c, m) PROVE WriterInv'
  BY <1>13 DEF Search, Goto, tables, taskVars
<1>14. ASSUME NEW c \in Callers, NEW m \in Modules, ModuleRun(c, m) PROVE WriterInv'
  BY <1>14 DEF ModuleRun, tables, taskVars
<1>15. ASSUME NEW c \in Callers, NEW m \in Modules, LoadBegin(c, m) PROVE WriterInv'
  BY <1>15 DEF LoadBegin, Goto, taskVars
<1>16. ASSUME NEW c \in Callers, NEW m \in Modules, UnloadBegin(c, m) PROVE WriterInv'
  BY <1>16 DEF UnloadBegin, Goto, tables, taskVars
<1>17. ASSUME NEW t \in Tasks, TaskEnd(t) PROVE WriterInv'
  BY <1>17 DEF TaskEnd, Unuse, tables
<1>18. CASE UNCHANGED vars
  BY <1>18 DEF vars, hist
<1>q. QED
  BY <1>1, <1>2, <1>3, <1>4, <1>5, <1>6, <1>7, <1>8, <1>9, <1>10, <1>11, <1>12, <1>13, <1>14, <1>15,
     <1>16, <1>17, <1>18 DEF Next, Loading, Calling

LEMMA TablesStep ==
  ASSUME IInv, [Next]_vars PROVE TablesInv'
<1> USE ImportAssumption DEF IInv, TypeOK, WriterInv, TablesInv, Kind
<1>1. ASSUME NEW c \in Callers, LoadHook(c) PROVE TablesInv'
  BY <1>1 DEF LoadHook, AfterImport, UseBlindly, Use, Goto, taskVars
<1>2. ASSUME NEW c \in Callers, RegisterAuth(c) PROVE TablesInv'
  BY <1>2 DEF RegisterAuth, MayWrite, Reads, Goto, taskVars
<1>3. ASSUME NEW c \in Callers, VoidModule(c) PROVE TablesInv'
  BY <1>3 DEF VoidModule, Goto, taskVars
<1>4. ASSUME NEW c \in Callers, RegData(c) PROVE TablesInv'
  BY <1>4 DEF RegData, NameTaken, Goto, taskVars
<1>5. ASSUME NEW c \in Callers, OnreadyDone(c) PROVE TablesInv'
  BY <1>5 DEF OnreadyDone, Unuse, Goto, tables, taskVars
<1>6. ASSUME NEW c \in Callers, UnregData(c) PROVE TablesInv'
  <2>1. /\ UNCHANGED <<loaded, mapped, run, cur>> /\ pc' = [pc EXCEPT ![c] = "close"]
        /\ pc[c] = "unreg"
        /\ registered' = IF cur[c] \in Auth THEN registered ELSE registered \ {cur[c]}
    BY <1>6 DEF UnregData, Goto
  <2>2. CASE cur[c] \in Auth
    BY <2>1, <2>2
  <2>3. CASE cur[c] \notin Auth
    <3>1. \A d \in Callers : pc[d] = "found" => cur[d] # cur[c]
      BY <1>6, <2>3 DEF UnregData, MayWrite, Reads
    <3>q. QED
      BY <2>1, <2>3, <3>1
  <2>q. QED
    BY <2>2, <2>3
<1>7. ASSUME NEW c \in Callers, Close(c) PROVE TablesInv'
  BY <1>7 DEF Close, FreedUnder, MayWrite, Reads, Goto, taskVars
<1>8. ASSUME NEW c \in Callers, UseFound(c) PROVE TablesInv'
  BY <1>8 DEF UseFound, Use, Goto, tables, taskVars
<1>9. ASSUME NEW c \in Callers, CreateTask(c) PROVE TablesInv'
  BY <1>9 DEF CreateTask, UseBlindly, Use, Goto, tables
<1>10. ASSUME NEW c \in Callers, Spawn(c) PROVE TablesInv'
  BY <1>10 DEF Spawn, Goto, tables
<1>11. ASSUME NEW c \in Callers, SpawnFails(c) PROVE TablesInv'
  BY <1>11 DEF SpawnFails, Unuse, Goto, tables
<1>12. ASSUME NEW c \in Callers, Return(c) PROVE TablesInv'
  BY <1>12 DEF Return, Unuse, Goto, tables
<1>13. ASSUME NEW c \in Callers, NEW m \in Modules, Search(c, m) PROVE TablesInv'
  BY <1>13 DEF Search, Goto, tables, taskVars
<1>14. ASSUME NEW c \in Callers, NEW m \in Modules, ModuleRun(c, m) PROVE TablesInv'
  BY <1>14 DEF ModuleRun, tables, taskVars
<1>15. ASSUME NEW c \in Callers, NEW m \in Modules, LoadBegin(c, m) PROVE TablesInv'
  BY <1>15 DEF LoadBegin, Goto, taskVars
<1>16. ASSUME NEW c \in Callers, NEW m \in Modules, UnloadBegin(c, m) PROVE TablesInv'
  BY <1>16 DEF UnloadBegin, Goto, tables, taskVars
<1>17. ASSUME NEW t \in Tasks, TaskEnd(t) PROVE TablesInv'
  BY <1>17 DEF TaskEnd, Unuse, tables
<1>18. CASE UNCHANGED vars
  BY <1>18 DEF vars, hist
<1>q. QED
  BY <1>1, <1>2, <1>3, <1>4, <1>5, <1>6, <1>7, <1>8, <1>9, <1>10, <1>11, <1>12, <1>13, <1>14, <1>15,
     <1>16, <1>17, <1>18 DEF Next, Loading, Calling

LEMMA DepStep ==
  ASSUME IInv, [Next]_vars PROVE DepInv'
<1> USE ImportAssumption DEF IInv, TypeOK, WriterInv, DepInv
<1>1. ASSUME NEW c \in Callers, LoadHook(c) PROVE DepInv'
  BY <1>1 DEF LoadHook, AfterImport, UseBlindly, Use, Goto, taskVars
<1>2. ASSUME NEW c \in Callers, RegisterAuth(c) PROVE DepInv'
  BY <1>2 DEF RegisterAuth, MayWrite, Reads, Goto, taskVars
<1>3. ASSUME NEW c \in Callers, VoidModule(c) PROVE DepInv'
  BY <1>3 DEF VoidModule, Goto, taskVars
<1>4. ASSUME NEW c \in Callers, RegData(c) PROVE DepInv'
  BY <1>4 DEF RegData, NameTaken, Goto, taskVars
<1>5. ASSUME NEW c \in Callers, OnreadyDone(c) PROVE DepInv'
  BY <1>5 DEF OnreadyDone, Unuse, Goto, tables, taskVars
<1>6. ASSUME NEW c \in Callers, UnregData(c) PROVE DepInv'
  BY <1>6 DEF UnregData, MayWrite, Reads, Unuse, Goto, taskVars
<1>7. ASSUME NEW c \in Callers, Close(c) PROVE DepInv'
  BY <1>7 DEF Close, FreedUnder, MayWrite, Reads, Goto, taskVars
<1>8. ASSUME NEW c \in Callers, UseFound(c) PROVE DepInv'
  BY <1>8 DEF UseFound, Use, Goto, tables, taskVars
<1>9. ASSUME NEW c \in Callers, CreateTask(c) PROVE DepInv'
  BY <1>9 DEF CreateTask, UseBlindly, Use, Goto, tables
<1>10. ASSUME NEW c \in Callers, Spawn(c) PROVE DepInv'
  BY <1>10 DEF Spawn, Goto, tables
<1>11. ASSUME NEW c \in Callers, SpawnFails(c) PROVE DepInv'
  BY <1>11 DEF SpawnFails, Unuse, Goto, tables
<1>12. ASSUME NEW c \in Callers, Return(c) PROVE DepInv'
  BY <1>12 DEF Return, Unuse, Goto, tables
<1>13. ASSUME NEW c \in Callers, NEW m \in Modules, Search(c, m) PROVE DepInv'
  BY <1>13 DEF Search, Goto, tables, taskVars
<1>14. ASSUME NEW c \in Callers, NEW m \in Modules, ModuleRun(c, m) PROVE DepInv'
  BY <1>14 DEF ModuleRun, tables, taskVars
<1>15. ASSUME NEW c \in Callers, NEW m \in Modules, LoadBegin(c, m) PROVE DepInv'
  BY <1>15 DEF LoadBegin, Goto, taskVars
<1>16. ASSUME NEW c \in Callers, NEW m \in Modules, UnloadBegin(c, m) PROVE DepInv'
  BY <1>16 DEF UnloadBegin, Goto, tables, taskVars
<1>17. ASSUME NEW t \in Tasks, TaskEnd(t) PROVE DepInv'
  BY <1>17 DEF TaskEnd, Unuse, tables
<1>18. CASE UNCHANGED vars
  BY <1>18 DEF vars, hist
<1>q. QED
  BY <1>1, <1>2, <1>3, <1>4, <1>5, <1>6, <1>7, <1>8, <1>9, <1>10, <1>11, <1>12, <1>13, <1>14, <1>15,
     <1>16, <1>17, <1>18 DEF Next, Loading, Calling

LEMMA SpawnStep ==
  ASSUME IInv, [Next]_vars PROVE SpawnInv'
<1> USE ImportAssumption DEF IInv, TypeOK, SpawnInv
<1>1. ASSUME NEW c \in Callers, LoadHook(c) PROVE SpawnInv'
  BY <1>1 DEF LoadHook, AfterImport, UseBlindly, Use, Goto, taskVars
<1>2. ASSUME NEW c \in Callers, RegisterAuth(c) PROVE SpawnInv'
  BY <1>2 DEF RegisterAuth, MayWrite, Reads, Goto, taskVars
<1>3. ASSUME NEW c \in Callers, VoidModule(c) PROVE SpawnInv'
  BY <1>3 DEF VoidModule, Goto, taskVars
<1>4. ASSUME NEW c \in Callers, RegData(c) PROVE SpawnInv'
  BY <1>4 DEF RegData, NameTaken, Goto, taskVars
<1>5. ASSUME NEW c \in Callers, OnreadyDone(c) PROVE SpawnInv'
  BY <1>5 DEF OnreadyDone, Unuse, Goto, tables, taskVars
<1>6. ASSUME NEW c \in Callers, UnregData(c) PROVE SpawnInv'
  BY <1>6 DEF UnregData, MayWrite, Reads, Unuse, Goto, taskVars
<1>7. ASSUME NEW c \in Callers, Close(c) PROVE SpawnInv'
  BY <1>7 DEF Close, FreedUnder, MayWrite, Reads, Goto, taskVars
<1>8. ASSUME NEW c \in Callers, UseFound(c) PROVE SpawnInv'
  BY <1>8 DEF UseFound, Use, Goto, tables, taskVars
<1>9. ASSUME NEW c \in Callers, CreateTask(c) PROVE SpawnInv'
  BY <1>9 DEF CreateTask, UseBlindly, Use, Goto, tables
<1>10. ASSUME NEW c \in Callers, Spawn(c) PROVE SpawnInv'
  BY <1>10 DEF Spawn, Goto, tables
<1>11. ASSUME NEW c \in Callers, SpawnFails(c) PROVE SpawnInv'
  BY <1>11 DEF SpawnFails, Unuse, Goto, tables
<1>12. ASSUME NEW c \in Callers, Return(c) PROVE SpawnInv'
  BY <1>12 DEF Return, Unuse, Goto, tables
<1>13. ASSUME NEW c \in Callers, NEW m \in Modules, Search(c, m) PROVE SpawnInv'
  BY <1>13 DEF Search, Goto, tables, taskVars
<1>14. ASSUME NEW c \in Callers, NEW m \in Modules, ModuleRun(c, m) PROVE SpawnInv'
  BY <1>14 DEF ModuleRun, tables, taskVars
<1>15. ASSUME NEW c \in Callers, NEW m \in Modules, LoadBegin(c, m) PROVE SpawnInv'
  BY <1>15 DEF LoadBegin, Goto, taskVars
<1>16. ASSUME NEW c \in Callers, NEW m \in Modules, UnloadBegin(c, m) PROVE SpawnInv'
  BY <1>16 DEF UnloadBegin, Goto, tables, taskVars
<1>17. ASSUME NEW t \in Tasks, TaskEnd(t) PROVE SpawnInv'
  BY <1>17 DEF TaskEnd, Unuse, tables
<1>18. CASE UNCHANGED vars
  BY <1>18 DEF vars, hist
<1>q. QED
  BY <1>1, <1>2, <1>3, <1>4, <1>5, <1>6, <1>7, <1>8, <1>9, <1>10, <1>11, <1>12, <1>13, <1>14, <1>15,
     <1>16, <1>17, <1>18 DEF Next, Loading, Calling

\* No other thread is unloading while one loads.
LEMMA OneWriter ==
  ASSUME IInv, NEW c \in Callers, NEW d \in Callers,
         pc[c] \in {"load", "auth", "void", "reg", "unreg", "close"},
         pc[d] \in {"load", "auth", "void", "reg", "unreg", "close"}
  PROVE  c = d
BY DEF IInv, WriterInv

LEMMA LoadingStep ==
  ASSUME IInv, [Next]_vars PROVE LoadingInv'
<1> USE ImportAssumption DEF IInv, TypeOK, LoadingInv
<1>1. ASSUME NEW c \in Callers, LoadHook(c) PROVE LoadingInv'
  BY <1>1 DEF LoadHook, AfterImport, UseBlindly, Goto
<1>2. ASSUME NEW c \in Callers, RegisterAuth(c) PROVE LoadingInv'
  BY <1>2 DEF RegisterAuth, Goto, hist
<1>3. ASSUME NEW c \in Callers, VoidModule(c) PROVE LoadingInv'
  BY <1>3 DEF VoidModule, Goto
<1>4. ASSUME NEW c \in Callers, RegData(c) PROVE LoadingInv'
  BY <1>4 DEF RegData, Goto, hist
<1>5. ASSUME NEW c \in Callers, OnreadyDone(c) PROVE LoadingInv'
  BY <1>5 DEF OnreadyDone, Unuse, Goto
<1>6. ASSUME NEW c \in Callers, UnregData(c) PROVE LoadingInv'
  BY <1>6 DEF UnregData, Unuse, Goto, hist
<1>7. ASSUME NEW c \in Callers, Close(c) PROVE LoadingInv'
  <2>1. \A d \in Callers : d # c => pc[d] \notin {"load", "auth", "void", "reg"}
    BY <1>7, OneWriter DEF Close
  <2>q. QED
    BY <1>7, <2>1 DEF Close, Goto
<1>8. ASSUME NEW c \in Callers, UseFound(c) PROVE LoadingInv'
  BY <1>8 DEF UseFound, Goto, hist
<1>9. ASSUME NEW c \in Callers, CreateTask(c) PROVE LoadingInv'
  BY <1>9 DEF CreateTask, Goto
<1>10. ASSUME NEW c \in Callers, Spawn(c) PROVE LoadingInv'
  BY <1>10 DEF Spawn, Goto, hist
<1>11. ASSUME NEW c \in Callers, SpawnFails(c) PROVE LoadingInv'
  BY <1>11 DEF SpawnFails, Unuse, Goto
<1>12. ASSUME NEW c \in Callers, Return(c) PROVE LoadingInv'
  BY <1>12 DEF Return, Unuse, Goto
<1>13. ASSUME NEW c \in Callers, NEW m \in Modules, Search(c, m) PROVE LoadingInv'
  BY <1>13 DEF Search, Goto, hist
<1>14. ASSUME NEW c \in Callers, NEW m \in Modules, ModuleRun(c, m) PROVE LoadingInv'
  BY <1>14 DEF ModuleRun, hist
<1>15. ASSUME NEW c \in Callers, NEW m \in Modules, LoadBegin(c, m) PROVE LoadingInv'
  <2>1. dep[m] = None
    BY <1>15 DEF LoadBegin, DepInv, WriterInv
  <2>2. \A n \in Modules : m \notin UsersOf(n)
    BY <2>1, SetsAssumption DEF UsersOf
  <2>3. m \notin stale
    BY <2>2 DEF Counts, HistInv
  <2>q. QED
    BY <1>15, <2>3 DEF LoadBegin, Goto
<1>16. ASSUME NEW c \in Callers, NEW m \in Modules, UnloadBegin(c, m) PROVE LoadingInv'
  BY <1>16 DEF UnloadBegin, Goto, hist
<1>17. ASSUME NEW t \in Tasks, TaskEnd(t) PROVE LoadingInv'
  BY <1>17 DEF TaskEnd, Unuse
<1>18. CASE UNCHANGED vars
  BY <1>18 DEF vars
<1>q. QED
  BY <1>1, <1>2, <1>3, <1>4, <1>5, <1>6, <1>7, <1>8, <1>9, <1>10, <1>11, <1>12, <1>13, <1>14, <1>15,
     <1>16, <1>17, <1>18 DEF Next, Loading, Calling

LEMMA EffectStep ==
  ASSUME IInv, [Next]_vars PROVE Effect
<1> USE ImportAssumption, SetsAssumption DEF IInv, TypeOK
<1>1. ASSUME NEW c \in Callers, LoadHook(c) PROVE Effect
  <2> DEFINE m == cur[c]
             i == Import[m]
  <2>1. m \in Modules /\ m \notin loaded /\ dep[m] = None /\ pc[c] = "load"
    BY <1>1 DEF LoadHook, TablesInv, DepInv, WriterInv
  <2>2. pc' = [pc EXCEPT ![c] = pc'[c]] /\ pc'[c] \in {"void", "auth", "reg"}
    BY <1>1 DEF LoadHook, AfterImport, Goto
  <2>3. UNCHANGED <<loaded, cur, task, tpc, tmod, extra, stale>>
    BY <1>1 DEF LoadHook, taskVars
  <2>4. NoneCloses
    BY <2>1, <2>2, <2>3 DEF NoneCloses, Closing
  <2>5. CASE i \in loaded
    <3>1. i \in Modules /\ dep' = [dep EXCEPT ![m] = i] /\ UseBlindly(m, i)
      BY <1>1, <2>1, <2>5 DEF LoadHook
    <3>2. \A n \in Modules : m \notin UsersOf(n)
      BY <2>1 DEF UsersOf
    <3>3. UsersOf(i)' = UsersOf(i) \cup {m}
      BY <2>1, <2>2, <2>3, <3>1 DEF UsersOf
    <3>4. Others(i)
      BY <2>1, <2>2, <2>3, <3>1 DEF UsersOf, Others
    <3>5. run[i] => ~Closing(i)
      BY DEF Closing, TablesInv
    <3>6. Gained(m, i)
      BY <2>3, <2>4, <2>5, <3>1, <3>2, <3>3, <3>4, <3>5 DEF Gained, UseBlindly, Use
    <3>q. QED
      BY <2>1, <3>1, <3>6 DEF Effect, All
  <2>6. CASE i \notin loaded
    <3>1. UNCHANGED <<dep, refs, refused, slighted>>
      BY <1>1, <2>6 DEF LoadHook
    <3>2. \A n \in Modules : UsersOf(n)' = UsersOf(n)
      BY <2>1, <2>2, <2>3, <3>1 DEF UsersOf
    <3>3. Kept
      BY <2>3, <2>4, <3>1, <3>2 DEF Kept, NoneCloses
    <3>q. QED
      BY <3>3 DEF Effect
  <2>q. QED
    BY <2>5, <2>6
<1>2. ASSUME NEW c \in Callers, RegisterAuth(c) PROVE Effect
  <2>1. \A n \in Modules : UsersOf(n)' = UsersOf(n)
    BY <1>2 DEF RegisterAuth, UsersOf, Goto, tables, taskVars
  <2>2. \A n \in Modules : Closing(n)' => Closing(n) \/ refs[n] = 0
    BY <1>2 DEF RegisterAuth, Closing, Goto, tables, taskVars
  <2>3. Kept
    BY <1>2, <2>1, <2>2 DEF RegisterAuth, Kept, hist, tables
  <2>q. QED
    BY <2>3 DEF Effect
<1>3. ASSUME NEW c \in Callers, VoidModule(c) PROVE Effect
  <2>0. NoneCloses
    BY <1>3 DEF VoidModule, NoneCloses, Closing, Goto
  <2>1. CASE dep[cur[c]] = None
    <3>1. \A n \in Modules : UsersOf(n)' = UsersOf(n)
      BY <1>3, <2>1 DEF VoidModule, UsersOf, Goto, taskVars
    <3>2. cur[c] \notin refused
      <4>1. \A n \in Modules : cur[c] \notin UsersOf(n)
        BY <2>1 DEF UsersOf
      <4>q. QED
        BY <4>1 DEF Counts, HistInv
    <3>3. Kept
      BY <1>3, <2>0, <2>1, <3>1, <3>2 DEF VoidModule, Kept, NoneCloses
    <3>q. QED
      BY <3>3 DEF Effect
  <2>2. CASE dep[cur[c]] # None
    <3>0. PICK d \in Modules : d = dep[cur[c]]
      BY <2>2
    <3>1. cur[c] \in UsersOf(d)
      BY <3>0 DEF UsersOf
    <3>2. UsersOf(d)' = UsersOf(d) \ {cur[c]} /\ Others(d)
      BY <1>3, <3>0 DEF VoidModule, UsersOf, Others, Goto, taskVars
    <3>3. cur[c] \notin stale /\ d \in loaded
      BY <1>3, <3>0, <3>1 DEF VoidModule, LoadingInv, Counts, UserInv
    <3>4. Voided(cur[c], d)
      BY <1>3, <2>0, <2>2, <3>0, <3>1, <3>2, <3>3 DEF VoidModule, Voided
    <3>q. QED
      BY <3>4 DEF Effect, All
  <2>q. QED
    BY <2>1, <2>2
<1>4. ASSUME NEW c \in Callers, RegData(c) PROVE Effect
  <2>0. PICK m \in Modules : m = cur[c]
    OBVIOUS
  <2>1. NoneCloses /\ ~Closing(m) /\ UNCHANGED hist /\ loaded' = loaded \cup {m}
    BY <1>4, <2>0, OneWriter DEF RegData, NoneCloses, Closing, Goto, TablesInv
  <2>2. CASE m \in Onready
    <3>1. \A n \in Modules : c \notin UsersOf(n)
      BY <1>4 DEF RegData, UsersOf
    <3>2. UsersOf(m)' = UsersOf(m) \cup {c}
      BY <1>4, <2>0, <2>2 DEF RegData, UsersOf, Goto, taskVars
    <3>3. Others(m)
      BY <1>4, <2>0, <2>2 DEF RegData, UsersOf, Others, Goto, taskVars
    <3>4. refs' = [refs EXCEPT ![m] = refs[m] + 1]
      BY <1>4, <2>0, <2>2 DEF RegData
    <3>5. Gained(c, m)
      BY <2>1, <3>1, <3>2, <3>3, <3>4 DEF Gained, hist
    <3>q. QED
      BY <3>5 DEF Effect, All
  <2>3. CASE m \notin Onready
    <3>1. \A n \in Modules : UsersOf(n)' = UsersOf(n)
      BY <1>4, <2>0, <2>3 DEF RegData, UsersOf, Goto, taskVars
    <3>2. UNCHANGED refs
      BY <1>4, <2>0, <2>3 DEF RegData
    <3>3. Kept
      BY <2>1, <3>1, <3>2 DEF Kept, NoneCloses, hist
    <3>q. QED
      BY <3>3 DEF Effect
  <2>q. QED
    BY <2>2, <2>3
<1>5. ASSUME NEW c \in Callers, OnreadyDone(c) PROVE Effect
  <2>1. c \in UsersOf(cur[c]) /\ cur[c] \in Modules /\ c \in All
    BY <1>5 DEF OnreadyDone, UsersOf, All
  <2>2. UsersOf(cur[c])' = UsersOf(cur[c]) \ {c}
    BY <1>5, <2>1, SetsAssumption DEF OnreadyDone, UsersOf, Goto, tables, taskVars
  <2>3. Others(cur[c])
    BY <1>5, <2>1, SetsAssumption DEF OnreadyDone, UsersOf, Others, Goto, tables, taskVars
  <2>4. NoneCloses /\ UNCHANGED loaded
    BY <1>5 DEF OnreadyDone, NoneCloses, Closing, Goto, tables
  <2>5. Lost(c, cur[c])
    BY <1>5, <2>1, <2>2, <2>3, <2>4 DEF OnreadyDone, Lost
  <2>q. QED
    BY <2>1, <2>5 DEF Effect
<1>6. ASSUME NEW c \in Callers, UnregData(c) PROVE Effect
  <2>0. NoneCloses /\ UNCHANGED loaded
    BY <1>6 DEF UnregData, NoneCloses, Closing, Goto
  <2>1. CASE dep[cur[c]] = None
    <3>1. \A n \in Modules : UsersOf(n)' = UsersOf(n)
      BY <1>6, <2>1 DEF UnregData, UsersOf, Goto, taskVars
    <3>2. Kept
      BY <1>6, <2>0, <2>1, <3>1 DEF UnregData, Kept, NoneCloses, hist
    <3>q. QED
      BY <3>2 DEF Effect
  <2>2. CASE dep[cur[c]] # None
    <3>0. PICK d \in Modules : d = dep[cur[c]]
      BY <2>2
    <3>1. cur[c] \in UsersOf(d)
      BY <3>0 DEF UsersOf
    <3>2. UsersOf(d)' = UsersOf(d) \ {cur[c]} /\ Others(d)
      BY <1>6, <3>0 DEF UnregData, UsersOf, Others, Goto, taskVars
    <3>3. Unuse(cur[c], d)
      BY <1>6, <2>2, <3>0 DEF UnregData
    <3>4. Lost(cur[c], d)
      BY <2>0, <3>1, <3>2, <3>3 DEF Lost
    <3>q. QED
      BY <3>4 DEF Effect, All
  <2>q. QED
    BY <2>1, <2>2
<1>7. ASSUME NEW c \in Callers, Close(c) PROVE Effect
  <2>0. PICK m \in Modules : m = cur[c]
    OBVIOUS
  <2>1. \A n \in Modules : UsersOf(n)' = UsersOf(n)
    BY <1>7 DEF Close, UsersOf, Goto, taskVars
  <2>2. Closing(m) /\ \A n \in Modules : Closing(n)' => Closing(n) /\ n # m
    BY <1>7, <2>0, OneWriter DEF Close, Closing, Goto
  <2>3. Freed(m)
    BY <1>7, <2>0, <2>1, <2>2 DEF Close, Freed
  <2>q. QED
    BY <2>3 DEF Effect
<1>8. ASSUME NEW c \in Callers, UseFound(c) PROVE Effect
  <2>0. PICK m \in Modules : m = cur[c]
    OBVIOUS
  <2>1. NoneCloses /\ UNCHANGED <<loaded, extra, refused, stale, slighted>>
    BY <1>8 DEF UseFound, NoneCloses, Closing, Goto, tables, hist
  <2>2. CASE run[m]
    <3>1. (\A n \in Modules : c \notin UsersOf(n)) /\ m \in loaded
      BY <1>8, <2>0, <2>2 DEF UseFound, UsersOf, TablesInv
    <3>2. UsersOf(m)' = UsersOf(m) \cup {c}
      BY <1>8, <2>0, <2>2 DEF UseFound, UsersOf, Goto, tables, taskVars
    <3>3. Others(m)
      BY <1>8, <2>0, <2>2 DEF UseFound, UsersOf, Others, Goto, tables, taskVars
    <3>4. ~Closing(m) /\ refs' = [refs EXCEPT ![m] = refs[m] + 1]
      BY <1>8, <2>0, <2>2 DEF UseFound, Use, Closing, TablesInv
    <3>5. Gained(c, m)
      BY <2>1, <3>1, <3>2, <3>3, <3>4 DEF Gained
    <3>q. QED
      BY <3>5 DEF Effect, All
  <2>3. CASE ~run[m]
    <3>1. \A n \in Modules : UsersOf(n)' = UsersOf(n)
      BY <1>8, <2>0, <2>3 DEF UseFound, UsersOf, Goto, tables, taskVars
    <3>2. Kept
      BY <1>8, <2>0, <2>1, <2>3, <3>1 DEF UseFound, Use, Kept, NoneCloses
    <3>q. QED
      BY <3>2 DEF Effect
  <2>q. QED
    BY <2>2, <2>3
<1>9. ASSUME NEW c \in Callers, CreateTask(c) PROVE Effect
  <2>0. PICK m \in Modules : m = cur[c]
    OBVIOUS
  <2>1. PICK t \in Tasks :
          /\ tpc[t] = "none"
          /\ tpc' = [tpc EXCEPT ![t] = "new"]
          /\ tmod' = [tmod EXCEPT ![t] = m]
          /\ UseBlindly(t, m)
    BY <1>9, <2>0 DEF CreateTask
  <2>2. /\ UNCHANGED <<loaded, dep, extra, stale, cur>> /\ c \notin stale
        /\ pc[c] = "calling" /\ pc' = [pc EXCEPT ![c] = "spawn"]
    BY <1>9 DEF CreateTask, Goto, tables
  <2>3. m \in loaded /\ NoneCloses
    BY <2>0, <2>2 DEF UsersOf, Counts, UserInv, NoneCloses, Closing
  <2>4. \A n \in Modules : t \notin UsersOf(n)
    BY <2>1, SetsAssumption DEF UsersOf
  <2>5. UsersOf(m)' = UsersOf(m) \cup {t}
    BY <2>0, <2>1, <2>2, SetsAssumption DEF UsersOf
  <2>6. Others(m)
    BY <2>0, <2>1, <2>2, SetsAssumption DEF UsersOf, Others
  <2>7. run[m] => ~Closing(m)
    BY DEF Closing, TablesInv
  <2>8. Gained(t, m)
    BY <2>1, <2>2, <2>3, <2>4, <2>5, <2>6, <2>7 DEF Gained, UseBlindly, Use
  <2>q. QED
    BY <2>8 DEF Effect, All
<1>10. ASSUME NEW c \in Callers, Spawn(c) PROVE Effect
  <2>1. \A n \in Modules : UsersOf(n)' = UsersOf(n)
    BY <1>10 DEF Spawn, UsersOf, Goto, tables, SpawnInv
  <2>2. \A n \in Modules : Closing(n)' => Closing(n) \/ refs[n] = 0
    BY <1>10 DEF Spawn, Closing, Goto, tables
  <2>3. Kept
    BY <1>10, <2>1, <2>2 DEF Spawn, Kept, hist, tables
  <2>q. QED
    BY <2>3 DEF Effect
<1>11. ASSUME NEW c \in Callers, SpawnFails(c) PROVE Effect
  <2>1. task[c] \in UsersOf(tmod[task[c]]) /\ tmod[task[c]] \in Modules /\ task[c] \in All
    BY <1>11 DEF SpawnFails, UsersOf, All, SpawnInv
  <2>2. UsersOf(tmod[task[c]])' = UsersOf(tmod[task[c]]) \ {task[c]}
    BY <1>11, <2>1, SetsAssumption DEF SpawnFails, UsersOf, Goto, tables, taskVars, SpawnInv
  <2>3. Others(tmod[task[c]])
    BY <1>11, <2>1, SetsAssumption DEF SpawnFails, UsersOf, Others, Goto, tables, taskVars, SpawnInv
  <2>4. NoneCloses /\ UNCHANGED loaded
    BY <1>11 DEF SpawnFails, NoneCloses, Closing, Goto, tables
  <2>5. Lost(task[c], tmod[task[c]])
    BY <1>11, <2>1, <2>2, <2>3, <2>4 DEF SpawnFails, Lost
  <2>q. QED
    BY <2>1, <2>5 DEF Effect
<1>12. ASSUME NEW c \in Callers, Return(c) PROVE Effect
  <2>1. c \in UsersOf(cur[c]) /\ cur[c] \in Modules /\ c \in All
    BY <1>12 DEF Return, UsersOf, All
  <2>2. UsersOf(cur[c])' = UsersOf(cur[c]) \ {c}
    BY <1>12, <2>1, SetsAssumption DEF Return, UsersOf, Goto, tables, taskVars
  <2>3. Others(cur[c])
    BY <1>12, <2>1, SetsAssumption DEF Return, UsersOf, Others, Goto, tables, taskVars
  <2>4. NoneCloses /\ UNCHANGED loaded
    BY <1>12 DEF Return, NoneCloses, Closing, Goto, tables
  <2>5. Lost(c, cur[c])
    BY <1>12, <2>1, <2>2, <2>3, <2>4 DEF Return, Lost
  <2>q. QED
    BY <2>1, <2>5 DEF Effect
<1>13. ASSUME NEW c \in Callers, NEW m \in Modules, Search(c, m) PROVE Effect
  <2>1. \A n \in Modules : UsersOf(n)' = UsersOf(n)
    BY <1>13 DEF Search, UsersOf, Goto, tables, taskVars
  <2>2. \A n \in Modules : Closing(n)' => Closing(n) \/ refs[n] = 0
    BY <1>13 DEF Search, Closing, Goto, tables, taskVars
  <2>3. Kept
    BY <1>13, <2>1, <2>2 DEF Search, Kept, hist, tables
  <2>q. QED
    BY <2>3 DEF Effect
<1>14. ASSUME NEW c \in Callers, NEW m \in Modules, ModuleRun(c, m) PROVE Effect
  <2>1. \A n \in Modules : UsersOf(n)' = UsersOf(n)
    BY <1>14 DEF ModuleRun, UsersOf, Goto, tables, taskVars
  <2>2. \A n \in Modules : Closing(n)' => Closing(n) \/ refs[n] = 0
    BY <1>14 DEF ModuleRun, Closing, Goto, tables, taskVars
  <2>3. Kept
    BY <1>14, <2>1, <2>2 DEF ModuleRun, Kept, hist, tables
  <2>q. QED
    BY <2>3 DEF Effect
<1>15. ASSUME NEW c \in Callers, NEW m \in Modules, LoadBegin(c, m) PROVE Effect
  <2>1. dep[m] = None /\ refs[m] = 0 /\ m \notin loaded
    BY <1>15 DEF LoadBegin, DepInv, WriterInv, Counts, RefsInv
  <2>2. UNCHANGED <<refs, extra, refused, stale, loaded>>
    BY <1>15, <2>1 DEF LoadBegin
  <2>3. \A n \in Modules : UsersOf(n)' = UsersOf(n)
    BY <1>15, <2>1 DEF LoadBegin, UsersOf, Goto, taskVars
  <2>4. NoneCloses
    BY <1>15 DEF LoadBegin, NoneCloses, Closing, Goto
  <2>5. Fresh(m)
    BY <1>15, <2>1, <2>2, <2>3, <2>4 DEF LoadBegin, Fresh
  <2>q. QED
    BY <2>5 DEF Effect
<1>16. ASSUME NEW c \in Callers, NEW m \in Modules, UnloadBegin(c, m) PROVE Effect
  <2>1. \A n \in Modules : UsersOf(n)' = UsersOf(n)
    BY <1>16 DEF UnloadBegin, UsersOf, Goto, tables, taskVars
  <2>2. \A n \in Modules : Closing(n)' => Closing(n) \/ refs[n] = 0
    BY <1>16 DEF UnloadBegin, Closing, Goto, tables, taskVars
  <2>3. Kept
    BY <1>16, <2>1, <2>2 DEF UnloadBegin, Kept, hist, tables
  <2>q. QED
    BY <2>3 DEF Effect
<1>17. ASSUME NEW t \in Tasks, TaskEnd(t) PROVE Effect
  <2>1. t \in UsersOf(tmod[t]) /\ tmod[t] \in Modules /\ t \in All
    BY <1>17 DEF TaskEnd, UsersOf, All
  <2>2. UsersOf(tmod[t])' = UsersOf(tmod[t]) \ {t}
    BY <1>17, <2>1, SetsAssumption DEF TaskEnd, UsersOf, Goto, tables, taskVars
  <2>3. Others(tmod[t])
    BY <1>17, <2>1, SetsAssumption DEF TaskEnd, UsersOf, Others, Goto, tables, taskVars
  <2>4. NoneCloses /\ UNCHANGED loaded
    BY <1>17 DEF TaskEnd, NoneCloses, Closing, Goto, tables
  <2>5. Lost(t, tmod[t])
    BY <1>17, <2>1, <2>2, <2>3, <2>4 DEF TaskEnd, Lost
  <2>q. QED
    BY <2>1, <2>5 DEF Effect
<1>18. CASE UNCHANGED vars
  <2>1. \A n \in Modules : UsersOf(n)' = UsersOf(n)
    BY <1>18 DEF vars, UsersOf
  <2>2. \A n \in Modules : Closing(n)' => Closing(n)
    BY <1>18 DEF vars, Closing
  <2>3. Kept
    BY <1>18, <2>1, <2>2 DEF vars, Kept
  <2>q. QED
    BY <2>3 DEF Effect
<1>q. QED
  BY <1>1, <1>2, <1>3, <1>4, <1>5, <1>6, <1>7, <1>8, <1>9, <1>10, <1>11, <1>12, <1>13, <1>14, <1>15,
     <1>16, <1>17, <1>18 DEF Next, Loading, Calling

LEMMA IInvInit == Init => IInv
<1> SUFFICES ASSUME Init PROVE IInv
  OBVIOUS
<1> USE ImportAssumption, SetsAssumption DEF Init
<1>1. TypeOK
  <2>1. run \in [Modules -> BOOLEAN]
    BY Zenon
  <2>2. (CHOOSE m \in Modules : TRUE) \in Modules
    OBVIOUS
  <2>q. QED
    BY <2>1, <2>2 DEF TypeOK, PC
<1>2. WriterInv /\ TablesInv /\ DepInv /\ SpawnInv /\ LoadingInv
  BY DEF WriterInv, TablesInv, DepInv, SpawnInv, LoadingInv
<1>3. \A m \in Modules : UsersOf(m) = {} /\ Holders(m) = {} /\ ~Closing(m)
  BY DEF UsersOf, Holders, Closing
<1>4. Counts
  BY <1>3, FS_EmptySet DEF Counts, UserInv, HistInv, RefsInv, ClosingInv
<1>q. QED
  BY <1>1, <1>2, <1>4 DEF IInv

LEMMA IInvHolds == Spec => []IInv
<1>1. IInv /\ [Next]_vars => IInv'
  BY TypeStep, WriterStep, TablesStep, DepStep, SpawnStep, LoadingStep, EffectStep, EffectCounts
     DEF IInv
<1>q. QED
  BY IInvInit, <1>1, PTL DEF Spec

-----------------------------------------------------------------------------
\* Every variable of the module loader keeps its type.
THEOREM ModuleTypeOK == Spec => []TypeOK
<1>1. IInv => TypeOK
  BY DEF IInv
<1>q. QED
  BY IInvHolds, <1>1, PTL

\* No module is unmapped under a thread that searches, calls or returns from its
\* method or runs its onready hook (mbb_func_call, mbb_auth against mbb_module_unload),
\* unless a task or an importer was refused a reference to it and went on.
THEOREM ModuleCallersMapped == Spec => []CallersMapped
<1>1. IInv => CallersMapped
  <2> SUFFICES ASSUME IInv, NEW c \in Callers,
                      pc[c] \in {"found", "calling", "spawn", "returning", "ready"}
               PROVE  cur[c] \in mapped \cup slighted
    BY DEF CallersMapped
  <2>1. CASE pc[c] = "found"
    BY <2>1 DEF IInv, TablesInv
  <2>2. CASE pc[c] # "found"
    <3>1. c \in UsersOf(cur[c]) /\ cur[c] \in Modules
      BY <2>2 DEF UsersOf, IInv, TypeOK
    <3>q. QED
      BY <3>1 DEF IInv, TablesInv, Counts, UserInv, HistInv
  <2>q. QED
    BY <2>1, <2>2
<1>q. QED
  BY IInvHolds, <1>1, PTL

\* No module is unmapped under a task it made (mbb_task_new against
\* mbb_module_unload), with the same exception.
THEOREM ModuleTasksMapped == Spec => []TasksMapped
<1>1. IInv => TasksMapped
  <2> SUFFICES ASSUME IInv, NEW t \in Tasks, tpc[t] \in {"new", "run"}
               PROVE  tmod[t] \in mapped \cup slighted
    BY DEF TasksMapped
  <2>1. t \in UsersOf(tmod[t]) /\ tmod[t] \in Modules
    BY DEF UsersOf, IInv, TypeOK
  <2>q. QED
    BY <2>1 DEF IInv, TablesInv, Counts, UserInv, HistInv
<1>q. QED
  BY IInvHolds, <1>1, PTL

\* No module is unmapped under one that imported it (mbb_module_import against
\* mbb_module_unload), with the same exception.
THEOREM ModuleImportsMapped == Spec => []ImportsMapped
<1>1. IInv => ImportsMapped
  <2> SUFFICES ASSUME IInv, NEW m \in loaded, dep[m] # None
               PROVE  dep[m] \in mapped \cup slighted
    BY DEF ImportsMapped
  <2>1. m \in UsersOf(dep[m]) /\ dep[m] \in Modules
    BY DEF UsersOf, IInv, TypeOK
  <2>q. QED
    BY <2>1 DEF IInv, TablesInv, Counts, UserInv, HistInv
<1>q. QED
  BY IInvHolds, <1>1, PTL

\* The counter of a module is the number of its holders, of what void loads kept and
\* of what refused users overdrew, after every use, unuse, import and
\* unregistration; only a module that was refused to a user is overdrawn.
THEOREM ModuleRefsCounted == Spec => []RefsCounted
<1>1. IInv => RefsCounted
  BY DEF IInv, TypeOK, Counts, RefsInv, RefsCounted
<1>q. QED
  BY IInvHolds, <1>1, PTL
=============================================================================
