----------------------------- MODULE VarsProofs -----------------------------
(***************************************************************************)
(* Proofs about Vars: the tables of the sessions name variables that exist, *)
(* and netflow's directory is one that was chosen by who may choose it, for *)
(* every set of sessions, their roles and every number of loads.            *)
(***************************************************************************)
EXTENDS Vars, SequenceTheorems, TLAPS

(* The inductive invariant, in parts.                                      *)

Stages == {"out", "new", "in", "stop", "unreg"}
PCs == {"off", "walk", "idle", "using", "save", "fault"}

TypeInv ==
  /\ role \in [Sessions -> {"admin", "wheel", "root"}]
  /\ stage \in [Mods -> Stages]
  /\ loads \in [Mods -> Nat]
  /\ queue \in Seq(Objs)
  /\ table \in [Sessions -> SUBSET Objs]
  /\ own \in [Sessions -> Values]
  /\ ownCache \in [Sessions -> Values]
  /\ pc \in [Sessions -> PCs]
  /\ loc \in [Sessions -> Objs \cup Values]
  /\ DOMAIN via = Sessions
  /\ late \in [Sessions -> SUBSET Objs]

\* No text of a client below wheel gets where a wheel session may take it from.
Chosen == {None, "trusted", "bad"}

TextsInv ==
  /\ base \in {None, "trusted"}
  /\ cache \in Chosen
  /\ \A s \in Sessions :
       /\ ownCache[s] \in Chosen
       /\ Wheel(s) => own[s] \in Chosen
       /\ pc[s] = "save" => loc[s] \in Chosen

\* The queue has the variable of each module that is not out, once.
Once(q) == \A i, j \in DOMAIN q : q[i] = q[j] => i = j

QueueInv ==
  /\ Once(queue)
  /\ \A m \in HasVar :
       /\ loads[m] <= MaxLoads[m]
       /\ stage[m] # "out" => loads[m] > 0
       /\ \A n \in Nat : <<m, n>> \in Range(queue) <=> stage[m] # "out" /\ n = loads[m]

\* salt has its import; it has no variable to unregister.
ImportInv ==
  /\ stage["salt"] \in {"new", "in"} => stage["private"] = "in"
  /\ stage["salt"] # "unreg"

\* What keeps a variable while a session uses it: a lock or its module.
UseInv ==
  \A s \in Sessions : pc[s] = "using" =>
    \/ via[s] = "var" /\ loc[s] = Obj("netflow") /\ stage["netflow"] \in {"in", "stop"}
    \/ via[s] = "netflow" /\ loc[s] = Obj("netflow") /\ stage["netflow"] = "in"
    \/ via[s] = "salt" /\ loc[s] = Obj("private") /\ stage["salt"] = "in"

\* A session on its way in.
WalkInv ==
  \A s \in Sessions :
    /\ pc[s] = "off" => table[s] = {}
    /\ pc[s] = "walk" => loc[s] \in Range(queue) \cup late[s] \cup {None}

\* A module whose variable was taken out of a table that was in use.
Gone(m) == (stage[m] = "out" /\ loads[m] > 0) \/ loads[m] > 1

RacedInv ==
  \A s \in raced :
    /\ s \in Sessions
    /\ pc[s] \in {"using", "fault"}
    /\ pc[s] = "using" => \E m \in HasVar : m # loc[s][1] /\ Gone(m)

IInv ==
  /\ TypeInv /\ TextsInv /\ QueueInv /\ ImportInv /\ UseInv /\ WalkInv /\ RacedInv
  /\ TablesLive

-----------------------------------------------------------------------------
(* The queue of variables.                                                 *)

LEMMA AppendRange ==
  ASSUME NEW S, NEW q \in Seq(S), NEW o \in S, Once(q), o \notin Range(q)
  PROVE  /\ Append(q, o) \in Seq(S)
         /\ Range(Append(q, o)) = Range(q) \cup {o}
         /\ Once(Append(q, o))
<1>1. /\ Append(q, o) \in Seq(S) /\ Len(Append(q, o)) = Len(q) + 1
      /\ Append(q, o)[Len(q) + 1] = o
      /\ \A i \in 1 .. Len(q) : Append(q, o)[i] = q[i]
  OBVIOUS
<1>2. DOMAIN q = 1 .. Len(q) /\ DOMAIN Append(q, o) = 1 .. (Len(q) + 1) /\ Len(q) \in Nat
  OBVIOUS
<1>3. Range(Append(q, o)) = Range(q) \cup {o}
  <2>1. Range(Append(q, o)) \subseteq Range(q) \cup {o}
    BY <1>1, <1>2 DEF Range
  <2>2. o \in Range(Append(q, o))
    BY <1>1, <1>2 DEF Range
  <2>3. Range(q) \subseteq Range(Append(q, o))
    BY <1>1, <1>2 DEF Range
  <2>q. QED
    BY <2>1, <2>2, <2>3
<1>4. \A i \in 1 .. Len(q) : q[i] # o
  BY <1>2 DEF Range
<1>5. Once(Append(q, o))
  BY <1>1, <1>2, <1>4 DEF Once
<1>q. QED
  BY <1>1, <1>3, <1>5

\* g_queue_remove, of what is there once.
LEMMA RemoveRange ==
  ASSUME NEW S, NEW q \in Seq(S), Once(q), NEW o \in Range(q)
  PROVE  /\ RemoveFirst(q, o) \in Seq(S)
         /\ Range(RemoveFirst(q, o)) = Range(q) \ {o}
         /\ Once(RemoveFirst(q, o))
<1>0. DOMAIN q = 1 .. Len(q) /\ Len(q) \in Nat
  OBVIOUS
<1>1. PICK i \in 1 .. Len(q) : q[i] = o
  BY <1>0 DEF Range
<1>2. {j \in 1 .. Len(q) : q[j] = o} = {i}
  BY <1>0, <1>1 DEF Once
<1>3. SelectInSeq(q, LAMBDA v : v = o) = i
  <2>1. Min({i}) = i
    BY <1>1 DEF Min
  <2>q. QED
    BY <1>2, <2>1 DEF SelectInSeq
<1>4. RemoveFirst(q, o) = RemoveAt(q, i)
  BY <1>1, <1>3 DEF RemoveFirst
<1> DEFINE r == RemoveAt(q, i)
<1>5. /\ r \in Seq(S) /\ Len(r) = Len(q) - 1
      /\ \A j \in 1 .. Len(r) : r[j] = IF j < i THEN q[j] ELSE q[j + 1]
  <2> DEFINE a == SubSeq(q, 1, i - 1)
             b == SubSeq(q, i + 1, Len(q))
  <2>1. a \in Seq(S) /\ Len(a) = i - 1 /\ \A j \in 1 .. (i - 1) : a[j] = q[j]
    BY <1>0, <1>1
  <2>2. b \in Seq(S) /\ Len(b) = Len(q) - i /\ \A j \in 1 .. (Len(q) - i) : b[j] = q[i + j]
    <3>1. \A j \in (i + 1) .. Len(q) : q[j] \in S
      BY <1>0, <1>1
    <3>2. /\ b \in Seq(S) /\ Len(b) = IF i + 1 <= Len(q) THEN Len(q) - (i + 1) + 1 ELSE 0
          /\ \A j \in 1 .. (Len(q) - (i + 1) + 1) : b[j] = q[(i + 1) + j - 1]
      BY <1>0, <1>1, <3>1, SubSeqProperties
    <3> DEFINE n == Len(q)
    <3>3. i \in Int /\ n \in Int /\ i <= n
      BY <1>0, <1>1
    <3> HIDE DEF n, b
    <3>4. n - (i + 1) + 1 = n - i
      BY <3>3
    <3>5. i + 1 <= n \/ n - i = 0
      BY <3>3
    <3>6. \A j \in 1 .. (n - i) : (i + 1) + j - 1 = i + j
      BY <3>3
    <3>q. QED
      BY <3>2, <3>4, <3>5, <3>6 DEF n
  <2>3. r = a \o b
    BY DEF RemoveAt
  <2> HIDE DEF r, a, b
  <2>4. r \in Seq(S) /\ Len(r) = Len(q) - 1
    <3>1. r \in Seq(S) /\ Len(r) = Len(a) + Len(b)
      BY <2>1, <2>2, <2>3, ConcatProperties
    <3>q. QED
      BY <1>0, <1>1, <2>1, <2>2, <3>1
  <2>5. ASSUME NEW j \in 1 .. Len(r) PROVE r[j] = IF j < i THEN q[j] ELSE q[j + 1]
    <3>1. CASE j < i
      BY <1>0, <1>1, <2>1, <2>2, <2>3, <2>4, <3>1
    <3>2. CASE j >= i
      <4>1. r[j] = b[j - (i - 1)]
        BY <1>0, <1>1, <2>1, <2>2, <2>3, <2>4, <3>2
      <4>2. j - (i - 1) \in 1 .. (Len(q) - i) /\ i + (j - (i - 1)) = j + 1
        BY <1>0, <1>1, <2>4, <3>2
      <4>3. b[j - (i - 1)] = q[i + (j - (i - 1))]
        BY <2>2, <4>2
      <4>q. QED
        BY <1>1, <3>2, <4>1, <4>2, <4>3
    <3>q. QED
      BY <1>1, <2>4, <3>1, <3>2
  <2>q. QED
    BY <2>4, <2>5
<1> HIDE DEF r
<1>6. DOMAIN r = 1 .. (Len(q) - 1)
  BY <1>5
<1>7. Once(r)
  BY <1>0, <1>1, <1>5, <1>6 DEF Once
<1>8. Range(r) = Range(q) \ {o}
  <2>1. ASSUME NEW x \in Range(r) PROVE x \in Range(q) \ {o}
    <3>1. PICK j \in 1 .. (Len(q) - 1) : x = r[j]
      BY <1>6, <2>1 DEF Range
    <3>2. PICK k \in 1 .. Len(q) : k # i /\ x = q[k]
      BY <1>0, <1>1, <1>5, <3>1
    <3>q. QED
      BY <1>0, <1>1, <3>2 DEF Range, Once
  <2>2. ASSUME NEW x \in Range(q) \ {o} PROVE x \in Range(r)
    <3>1. PICK j \in 1 .. Len(q) : x = q[j] /\ j # i
      BY <1>0, <1>1, <2>2 DEF Range
    <3>2. CASE j < i
      <4>1. j \in 1 .. (Len(q) - 1) /\ r[j] = x
        BY <1>0, <1>1, <1>5, <3>1, <3>2
      <4>q. QED
        BY <1>6, <4>1 DEF Range
    <3>3. CASE j > i
      <4>1. j - 1 \in 1 .. (Len(q) - 1) /\ r[j - 1] = x
        BY <1>0, <1>1, <1>5, <3>1, <3>3
      <4>q. QED
        BY <1>6, <4>1 DEF Range
    <3>q. QED
      BY <3>1, <3>2, <3>3
  <2>q. QED
    BY <2>1, <2>2
<1>q. QED
  BY <1>4, <1>5, <1>7, <1>8 DEF r

(* The variables' objects.                                                 *)

LEMMA ObjType ==
  ASSUME NEW m \in HasVar, NEW n \in 1 .. MaxLoads[m]
  PROVE  <<m, n>> \in Objs
  BY DEF Objs

LEMMA ObjForm ==
  ASSUME NEW o \in Objs
  PROVE  o = <<o[1], o[2]>> /\ o[1] \in HasVar /\ o[2] \in Nat
<1>1. PICK m \in HasVar : o \in {m} \X (1 .. MaxLoads[m])
  BY DEF Objs
<1>2. MaxLoads[m] \in Nat
  BY MaxLoadsAssumption DEF Mods, HasVar
<1>q. QED
  BY <1>1, <1>2

\* The variable of a module that is not out is in the queue.
LEMMA ObjQueued ==
  ASSUME TypeInv, QueueInv, NEW m \in HasVar, stage[m] # "out"
  PROVE  Obj(m) \in Range(queue) /\ Obj(m) \in Objs
<1>1. loads[m] \in 1 .. MaxLoads[m]
  BY MaxLoadsAssumption DEF TypeInv, QueueInv, HasVar, Mods
<1>q. QED
  BY <1>1, ObjType DEF QueueInv, Obj

\* What the queue has is the variable of a module that is not out.
LEMMA QueuedObj ==
  ASSUME TypeInv, QueueInv, NEW o \in Range(queue)
  PROVE  o \in Objs /\ o[1] \in HasVar /\ stage[o[1]] # "out" /\ o = Obj(o[1])
<1>1. o \in Objs
  BY DEF TypeInv, Range
<1>q. QED
  BY <1>1, ObjForm DEF QueueInv, Obj

\* How a step changes the queue.
LEMMA Loaded ==
  ASSUME TypeInv, QueueInv, NEW s \in Sessions, NEW m \in HasVar, LoadBegin(s, m)
  PROVE  /\ <<m, loads[m] + 1>> \in Objs \ Range(queue)
         /\ queue' \in Seq(Objs) /\ Once(queue') /\ Range(queue') = Range(queue) \cup {<<m, loads[m] + 1>>}
<1>1. loads[m] \in Nat /\ loads[m] + 1 \in 1 .. MaxLoads[m]
  BY MaxLoadsAssumption DEF TypeInv, LoadBegin, HasVar, Mods
<1>2. <<m, loads[m] + 1>> \in Objs
  BY <1>1, ObjType
<1>3. <<m, loads[m] + 1>> \notin Range(queue)
  BY <1>1 DEF QueueInv, LoadBegin
<1>q. QED
  BY <1>2, <1>3, AppendRange DEF TypeInv, QueueInv, LoadBegin

LEMMA Freed ==
  ASSUME TypeInv, QueueInv, ImportInv, NEW s \in Sessions, NEW m \in Mods, FreeVar(s, m)
  PROVE  /\ m \in HasVar /\ Obj(m) \in Range(queue)
         /\ queue' \in Seq(Objs) /\ Once(queue') /\ Range(queue') = Range(queue) \ {Obj(m)}
<1>1. m \in HasVar
  BY DEF ImportInv, FreeVar, HasVar, Mods
<1>2. Obj(m) \in Range(queue)
  BY <1>1, ObjQueued DEF FreeVar
<1>3. queue' = RemoveFirst(queue, Obj(m))
  BY DEF FreeVar
<1>q. QED
  BY <1>1, <1>2, <1>3, RemoveRange DEF TypeInv, QueueInv

-----------------------------------------------------------------------------
(* The parts of the invariant, step by step.                                *)

LEMMA InsertType ==
  ASSUME TypeInv, base \in Values, NEW s \in Sessions, NEW o \in Objs, Insert(s, o)
  PROVE  own' \in [Sessions -> Values] /\ table' \in [Sessions -> SUBSET Objs]
<1>1. Read(base) \in Values
  BY DEF Read, Values, Texts
<1>q. QED
  BY <1>1 DEF Insert, TypeInv

\* A write of a text to the session's own data.
LEMMA WriteType ==
  ASSUME TypeInv, base \in Values, NEW s \in Sessions, NEW o \in Objs, NEW t \in Values,
         own' = [own EXCEPT ![s] = Write(IF o \in table[s] THEN @ ELSE Read(base), t)]
  PROVE  own' \in [Sessions -> Values]
<1>1. Write(IF o \in table[s] THEN own[s] ELSE Read(base), t) \in Values
  BY DEF TypeInv, Read, Write, Values, Texts
<1>q. QED
  BY <1>1 DEF TypeInv

LEMMA TypeStep ==
  ASSUME IInv, [Next]_vars PROVE TypeInv'
<1> USE DEF IInv, TypeInv, Values, Texts, PCs, Stages, modVars, cacheVars, tableVars
<1>b. base \in Values
  BY DEF TextsInv
<1>o. \A m \in HasVar : stage[m] # "out" => Obj(m) \in Objs
  BY ObjQueued
<1>h. "netflow" \in HasVar /\ "private" \in HasVar
  BY DEF HasVar
<1>w. \A v \in Values, t \in Values : Read(v) \in Values /\ Write(v, t) \in Values
  BY DEF Read, Write
<1>a. ASSUME Next PROVE Running
  BY <1>a DEF Next
<1>1. ASSUME Running, NEW s \in Sessions, SessionNew(s) PROVE TypeInv'
  BY <1>1 DEF SessionNew, Goto
<1>2. ASSUME Running, NEW s \in Sessions, Walk(s) PROVE TypeInv'
  <2>1. PICK i \in 1 .. Len(queue) : queue[i] = loc[s] /\ Goto(s, "walk", IF i = Len(queue) THEN None ELSE queue[i + 1], None)
    BY <1>2 DEF Walk
  <2>2. loc[s] \in Objs /\ (IF i = Len(queue) THEN None ELSE queue[i + 1]) \in Objs \cup Values
    BY <2>1
  <2>3. own' \in [Sessions -> Values] /\ table' \in [Sessions -> SUBSET Objs]
    BY <1>2, <1>b, <1>w, <2>2 DEF Walk, Insert
  <2>4. pc' \in [Sessions -> PCs] /\ loc' \in [Sessions -> Objs \cup Values] /\ DOMAIN via' = Sessions
    BY <2>1, <2>2 DEF Goto
  <2>q. QED
    BY <1>2, <2>3, <2>4 DEF Walk
<1>3. ASSUME Running, NEW s \in Sessions, SessionInsert(s) PROVE TypeInv'
  BY <1>3 DEF SessionInsert, Done, Goto
<1>4. ASSUME Running, NEW s \in Sessions, SessionQuit(s) PROVE TypeInv'
  BY <1>4 DEF SessionQuit, Calls, Goto
<1>5. ASSUME Running, NEW s \in Sessions, NEW m \in Mods, LoadBegin(s, m) PROVE TypeInv'
  <2>1. queue' \in Seq(Objs)
    BY <1>5, Loaded DEF LoadBegin
  <2>q. QED
    BY <1>5, <2>1 DEF LoadBegin, Calls
<1>6. ASSUME Running, NEW s \in Sessions, NEW m \in Mods, Register(s, m) PROVE TypeInv'
  BY <1>6 DEF Register, Restored, Write
<1>7. ASSUME Running, NEW s \in Sessions, NEW m \in Mods, UnloadBegin(s, m) PROVE TypeInv'
  BY <1>7 DEF UnloadBegin, Calls
<1>8. ASSUME Running, NEW s \in Sessions, NEW m \in Mods, Unregister(s, m) PROVE TypeInv'
  BY <1>8 DEF Unregister
<1>9. ASSUME Running, NEW s \in Sessions, NEW m \in Mods, FreeVar(s, m) PROVE TypeInv'
  <2>1. queue' \in Seq(Objs) /\ Obj(m) \in Objs
    BY <1>9, <1>o, Freed DEF FreeVar
  <2>2. table' \in [Sessions -> SUBSET Objs]
    BY <1>9 DEF FreeVar
  <2>3. own' \in [Sessions -> Values]
    BY <1>9 DEF FreeVar
  <2>4. late' \in [Sessions -> SUBSET Objs]
    BY <1>9, <2>1 DEF FreeVar
  <2>q. QED
    BY <1>9, <2>1, <2>2, <2>3, <2>4 DEF FreeVar
<1>10. ASSUME Running, NEW s \in Sessions, PrivateRemove(s) PROVE TypeInv'
  BY <1>10 DEF PrivateRemove
<1>11. ASSUME Running, NEW s \in Sessions, NEW m \in Mods, ModuleUse(s, m) PROVE TypeInv'
  <2>1. Obj(IF m = "salt" THEN "private" ELSE m) \in Objs
    BY <1>11, <1>o, <1>h DEF ModuleUse, ImportInv
  <2>q. QED
    BY <1>11, <2>1 DEF ModuleUse, Calls, Goto
<1>12. ASSUME Running, NEW s \in Sessions, VarUse(s) PROVE TypeInv'
  BY <1>12, <1>o, <1>h DEF VarUse, Calls, Alive, Goto
<1>13. ASSUME Running, NEW s \in Sessions, NEW text \in Sends(s), UseDone(s, text) PROVE TypeInv'
  <2>1. loc[s] \in Objs
    BY <1>13, <1>o, <1>h DEF UseDone, UseInv, ImportInv
  <2>2. table' \in [Sessions -> SUBSET Objs]
    BY <1>13, <2>1 DEF UseDone
  <2>3. text \in Values
    BY <1>13 DEF Sends
  <2>4. (IF loc[s] \in table[s] THEN own[s] ELSE Read(base)) \in Values
    BY <1>b, <1>w
  <2>5. own' \in [Sessions -> Values]
    BY <1>13, <1>w, <2>3, <2>4 DEF UseDone
  <2>q. QED
    BY <1>13, <2>2, <2>5 DEF UseDone, Done, Goto
<1>14. ASSUME Running, NEW s \in Sessions, NEW text \in Sends(s), BaseSet(s, text) PROVE TypeInv'
  BY <1>14 DEF BaseSet, Calls, Alive, Write
<1>15. ASSUME Running, NEW s \in Sessions, NEW text \in Sends(s), NEW mine \in BOOLEAN, CacheAdd(s, text, mine) PROVE TypeInv'
  BY <1>15 DEF CacheAdd, Calls, MayCache, Sends
<1>16. ASSUME Running, NEW s \in Sessions, NEW mine \in BOOLEAN, CacheAddRead(s, mine) PROVE TypeInv'
  <2>1. Obj("netflow") \in Objs
    BY <1>16, <1>o, <1>h DEF CacheAddRead, Calls, MayCache, Alive, Insert, Read
  <2>2. CASE mine
    <3>1. own' \in [Sessions -> Values] /\ table' \in [Sessions -> SUBSET Objs]
      BY <1>16, <1>b, <2>1, <2>2, InsertType DEF CacheAddRead
    <3>2. ownCache' = [ownCache EXCEPT ![s] = Read(own'[s])] /\ Read(own'[s]) \in Values
      BY <1>16, <1>w, <2>2, <3>1 DEF CacheAddRead
    <3>q. QED
      BY <1>16, <3>1, <3>2 DEF CacheAddRead
  <2>3. CASE ~ mine
    BY <1>16, <2>3 DEF CacheAddRead
  <2>q. QED
    BY <2>2, <2>3
<1>17. ASSUME Running, NEW s \in Sessions, NEW mine \in BOOLEAN, CacheDel(s, mine) PROVE TypeInv'
  BY <1>17 DEF CacheDel, Calls
<1>18. ASSUME Running, NEW s \in Sessions, NEW mine \in BOOLEAN, CacheLoad(s, mine) PROVE TypeInv'
  <2>1. Obj("netflow") \in Objs
    BY <1>18, <1>o, <1>h DEF CacheLoad, Calls, Alive, Read, Write
  <2>2. own' \in [Sessions -> Values]
    BY <1>18, <1>b, <2>1, WriteType DEF CacheLoad
  <2>3. table' \in [Sessions -> SUBSET Objs]
    <3>1. table' = [table EXCEPT ![s] = @ \cup {Obj("netflow")}] \/ table' = table
      BY <1>18 DEF CacheLoad
    <3>q. QED
      BY <2>1, <3>1
  <2>q. QED
    BY <1>18, <2>2, <2>3 DEF CacheLoad
<1>19. ASSUME Running, NEW s \in Sessions, ModuleVarsLoad(s) PROVE TypeInv'
  <2>1. Obj("netflow") \in Objs
    BY <1>19, <1>o, <1>h DEF ModuleVarsLoad
  <2>2. own' \in [Sessions -> Values]
    BY <1>19, <1>b, <2>1, WriteType DEF ModuleVarsLoad
  <2>3. table' \in [Sessions -> SUBSET Objs]
    <3>1. table' = [table EXCEPT ![s] = @ \cup {Obj("netflow")}] \/ table' = table
      BY <1>19 DEF ModuleVarsLoad
    <3>q. QED
      BY <2>1, <3>1
  <2>q. QED
    BY <1>19, <2>2, <2>3 DEF ModuleVarsLoad
<1>20. ASSUME Running, NEW s \in Sessions, ModuleVarsSave(s) PROVE TypeInv'
  <2>1. Obj("netflow") \in Objs
    BY <1>20, <1>o, <1>h DEF ModuleVarsSave
  <2>2. own' \in [Sessions -> Values] /\ table' \in [Sessions -> SUBSET Objs]
    BY <1>20, <1>b, <1>w, <2>1 DEF ModuleVarsSave, Insert
  <2>3. ownCache' \in [Sessions -> Values]
    BY <1>20, <1>w, <2>2 DEF ModuleVarsSave
  <2>q. QED
    BY <1>20, <1>b, <1>w, <2>2, <2>3 DEF ModuleVarsSave, Goto
<1>21. ASSUME Running, NEW s \in Sessions, SaveBase(s) PROVE TypeInv'
  BY <1>21 DEF SaveBase, Done, Goto
<1>22. ASSUME Running, NEW s \in Sessions, WalkFault(s) PROVE TypeInv'
  BY <1>22 DEF WalkFault, Fault, Goto
<1>23. ASSUME Running, NEW s \in Sessions, QuitFault(s) PROVE TypeInv'
  BY <1>23 DEF QuitFault, Calls, Fault, Goto
<1>24. ASSUME Running, NEW s \in Sessions, TableFault(s) PROVE TypeInv'
  BY <1>24 DEF TableFault, Fault, Goto
<1>25. ASSUME Running, NEW s \in Sessions, ReadFault(s) PROVE TypeInv'
  BY <1>25 DEF ReadFault, Calls, Fault, Goto
<1>u. CASE UNCHANGED vars
  BY <1>u DEF vars
<1>q. QED
  BY <1>a, <1>1, <1>2, <1>3, <1>4, <1>5, <1>6, <1>7, <1>8, <1>9, <1>10, <1>11, <1>12, <1>13, <1>14,
     <1>15, <1>16, <1>17, <1>18, <1>19, <1>20, <1>21, <1>22, <1>23, <1>24, <1>25, <1>u
     DEF Next, SessionSteps, ModuleSteps, VarSteps, FaultSteps

LEMMA InsertChosen ==
  ASSUME TypeInv, TextsInv, NEW s \in Sessions, NEW o, Wheel(s), Insert(s, o)
  PROVE  /\ Read(base) \in Chosen
         /\ Read(own'[s]) \in Chosen
         /\ \A t \in Sessions : Wheel(t) => own'[t] \in Chosen
<1>1. Read(base) \in Chosen
  BY DEF TextsInv, Read, Chosen
<1>2. own' = [own EXCEPT ![s] = Read(base)] \/ own' = own
  BY DEF Insert
<1>3. \A t \in Sessions : own'[t] = own[t] \/ own'[t] = Read(base)
  BY <1>2 DEF TypeInv
<1>4. \A t \in Sessions : Wheel(t) => own'[t] \in Chosen
  BY <1>1, <1>3 DEF TextsInv
<1>5. Read(own'[s]) \in Chosen
  BY <1>4 DEF Read, Chosen
<1>q. QED
  BY <1>1, <1>4, <1>5

LEMMA TextsStep ==
  ASSUME IInv, [Next]_vars PROVE TextsInv'
<1> USE DEF IInv, TypeInv, Values, Texts, PCs, Stages, modVars, cacheVars, tableVars
<1>a. ASSUME Next PROVE Running
  BY <1>a DEF Next
<1>1. ASSUME Running, NEW s \in Sessions, SessionNew(s) PROVE TextsInv'
  BY <1>1, NoneAssumption DEF SessionNew, Goto, TextsInv, Chosen, Wheel, Root, Sends
<1>2. ASSUME Running, NEW s \in Sessions, Walk(s) PROVE TextsInv'
  BY <1>2, NoneAssumption DEF Walk, Goto, Insert, Read, TextsInv, Chosen, Wheel, Root, Sends
<1>3. ASSUME Running, NEW s \in Sessions, SessionInsert(s) PROVE TextsInv'
  BY <1>3, NoneAssumption DEF SessionInsert, Done, Goto, TextsInv, Chosen, Wheel, Root, Sends
<1>4. ASSUME Running, NEW s \in Sessions, SessionQuit(s) PROVE TextsInv'
  BY <1>4, NoneAssumption DEF SessionQuit, Calls, Goto, TextsInv, Chosen, Wheel, Root, Sends
<1>5. ASSUME Running, NEW s \in Sessions, NEW m \in Mods, LoadBegin(s, m) PROVE TextsInv'
  BY <1>5, NoneAssumption DEF LoadBegin, Calls, TextsInv, Chosen, Wheel, Root, Sends
<1>6. ASSUME Running, NEW s \in Sessions, NEW m \in Mods, Register(s, m) PROVE TextsInv'
  BY <1>6, NoneAssumption DEF Register, Restored, Write, TextsInv, Chosen, Wheel, Root, Sends
<1>7. ASSUME Running, NEW s \in Sessions, NEW m \in Mods, UnloadBegin(s, m) PROVE TextsInv'
  BY <1>7, NoneAssumption DEF UnloadBegin, Calls, TextsInv, Chosen, Wheel, Root, Sends
<1>8. ASSUME Running, NEW s \in Sessions, NEW m \in Mods, Unregister(s, m) PROVE TextsInv'
  BY <1>8, NoneAssumption DEF Unregister, TextsInv, Chosen, Wheel, Root, Sends
<1>9. ASSUME Running, NEW s \in Sessions, NEW m \in Mods, FreeVar(s, m) PROVE TextsInv'
  BY <1>9, NoneAssumption DEF FreeVar, TextsInv, Chosen, Wheel, Root, Sends
<1>10. ASSUME Running, NEW s \in Sessions, PrivateRemove(s) PROVE TextsInv'
  BY <1>10, NoneAssumption DEF PrivateRemove, TextsInv, Chosen, Wheel, Root, Sends
<1>11. ASSUME Running, NEW s \in Sessions, NEW m \in Mods, ModuleUse(s, m) PROVE TextsInv'
  BY <1>11, NoneAssumption DEF ModuleUse, Calls, Goto, TextsInv, Chosen, Wheel, Root, Sends
<1>12. ASSUME Running, NEW s \in Sessions, VarUse(s) PROVE TextsInv'
  BY <1>12, NoneAssumption DEF VarUse, Calls, Alive, Goto, TextsInv, Chosen, Wheel, Root, Sends
<1>13. ASSUME Running, NEW s \in Sessions, NEW text \in Sends(s), UseDone(s, text) PROVE TextsInv'
  BY <1>13, NoneAssumption DEF UseDone, Read, Write, Done, Goto, TextsInv, Chosen, Wheel, Root, Sends
<1>14. ASSUME Running, NEW s \in Sessions, NEW text \in Sends(s), BaseSet(s, text) PROVE TextsInv'
  BY <1>14, NoneAssumption DEF BaseSet, Calls, Alive, Write, TextsInv, Chosen, Wheel, Root, Sends
<1>15. ASSUME Running, NEW s \in Sessions, NEW text \in Sends(s), NEW mine \in BOOLEAN, CacheAdd(s, text, mine) PROVE TextsInv'
  BY <1>15, NoneAssumption DEF CacheAdd, Calls, MayCache, TextsInv, Chosen, Wheel, Root, Sends
<1>16. ASSUME Running, NEW s \in Sessions, NEW mine \in BOOLEAN, CacheAddRead(s, mine) PROVE TextsInv'
  <2>1. Wheel(s)
    BY <1>16 DEF CacheAddRead, MayCache
  <2>2. role' = role /\ base' = base /\ pc' = pc /\ loc' = loc
    BY <1>16 DEF CacheAddRead
  <2>3. CASE mine
    <3>1. Insert(s, Obj("netflow")) /\ ownCache' = [ownCache EXCEPT ![s] = Read(own'[s])] /\ cache' = cache
      BY <1>16, <2>3 DEF CacheAddRead
    <3>2. Read(own'[s]) \in Chosen /\ \A t \in Sessions : Wheel(t) => own'[t] \in Chosen
      BY <2>1, <3>1, InsertChosen
    <3>3. \A t \in Sessions : ownCache'[t] \in Chosen
      BY <3>1, <3>2 DEF TextsInv
    <3>q. QED
      BY <2>2, <3>1, <3>2, <3>3 DEF TextsInv, Wheel
  <2>4. CASE ~ mine
    <3>1. cache' = Read(base) /\ own' = own /\ ownCache' = ownCache
      BY <1>16, <2>4 DEF CacheAddRead
    <3>2. Read(base) \in Chosen
      BY DEF TextsInv, Read, Chosen
    <3>q. QED
      BY <2>2, <3>1, <3>2 DEF TextsInv, Wheel
  <2>q. QED
    BY <2>3, <2>4
<1>17. ASSUME Running, NEW s \in Sessions, NEW mine \in BOOLEAN, CacheDel(s, mine) PROVE TextsInv'
  BY <1>17, NoneAssumption DEF CacheDel, Calls, TextsInv, Chosen, Wheel, Root, Sends
<1>18. ASSUME Running, NEW s \in Sessions, NEW mine \in BOOLEAN, CacheLoad(s, mine) PROVE TextsInv'
  BY <1>18, NoneAssumption DEF CacheLoad, Calls, Alive, Read, Write, TextsInv, Chosen, Wheel, Root, Sends
<1>19. ASSUME Running, NEW s \in Sessions, ModuleVarsLoad(s) PROVE TextsInv'
  BY <1>19, NoneAssumption DEF ModuleVarsLoad, Calls, Read, Write, TextsInv, Chosen, Wheel, Root, Sends
<1>20. ASSUME Running, NEW s \in Sessions, ModuleVarsSave(s) PROVE TextsInv'
  <2>1. /\ Wheel(s) /\ Insert(s, Obj("netflow")) /\ Goto(s, "save", Read(base), None)
        /\ ownCache' = [ownCache EXCEPT ![s] = Read(own'[s])]
        /\ role' = role /\ base' = base /\ cache' = cache
    BY <1>20 DEF ModuleVarsSave
  <2>2. /\ Read(base) \in Chosen /\ Read(own'[s]) \in Chosen
        /\ \A t \in Sessions : Wheel(t) => own'[t] \in Chosen
    BY <2>1, InsertChosen
  <2>3. \A t \in Sessions : ownCache'[t] \in Chosen
    BY <2>1, <2>2 DEF TextsInv
  <2>4. \A t \in Sessions : pc'[t] = "save" => loc'[t] \in Chosen
    BY <2>1, <2>2 DEF TextsInv, Goto
  <2>q. QED
    BY <2>1, <2>2, <2>3, <2>4 DEF TextsInv, Wheel
<1>21. ASSUME Running, NEW s \in Sessions, SaveBase(s) PROVE TextsInv'
  BY <1>21, NoneAssumption DEF SaveBase, Done, Goto, TextsInv, Chosen, Wheel, Root, Sends
<1>22. ASSUME Running, NEW s \in Sessions, WalkFault(s) PROVE TextsInv'
  BY <1>22, NoneAssumption DEF WalkFault, Fault, Goto, TextsInv, Chosen, Wheel, Root, Sends
<1>23. ASSUME Running, NEW s \in Sessions, QuitFault(s) PROVE TextsInv'
  BY <1>23, NoneAssumption DEF QuitFault, Calls, Fault, Goto, TextsInv, Chosen, Wheel, Root, Sends
<1>24. ASSUME Running, NEW s \in Sessions, TableFault(s) PROVE TextsInv'
  BY <1>24, NoneAssumption DEF TableFault, Fault, Goto, TextsInv, Chosen, Wheel, Root, Sends
<1>25. ASSUME Running, NEW s \in Sessions, ReadFault(s) PROVE TextsInv'
  BY <1>25, NoneAssumption DEF ReadFault, Calls, Fault, Goto, TextsInv, Chosen, Wheel, Root, Sends
<1>u. CASE UNCHANGED vars
  BY <1>u DEF vars, TextsInv, Wheel
<1>q. QED
  BY <1>a, <1>1, <1>2, <1>3, <1>4, <1>5, <1>6, <1>7, <1>8, <1>9, <1>10, <1>11, <1>12, <1>13, <1>14,
     <1>15, <1>16, <1>17, <1>18, <1>19, <1>20, <1>21, <1>22, <1>23, <1>24, <1>25, <1>u
     DEF Next, SessionSteps, ModuleSteps, VarSteps, FaultSteps

LEMMA QueueSame ==
  ASSUME TypeInv, QueueInv, UNCHANGED queue,
         \A m \in HasVar : loads'[m] = loads[m] /\ (stage'[m] = "out") = (stage[m] = "out")
  PROVE  QueueInv'
  BY DEF QueueInv

LEMMA QueueStep ==
  ASSUME IInv, [Next]_vars PROVE QueueInv'
<1> USE DEF IInv, TypeInv, modVars, cacheVars, tableVars
<1>a. ASSUME Next PROVE Running
  BY <1>a DEF Next
<1>1. ASSUME Running, NEW s \in Sessions, SessionNew(s) PROVE QueueInv'
  BY <1>1, QueueSame DEF SessionNew, Goto, HasVar, Mods
<1>2. ASSUME Running, NEW s \in Sessions, Walk(s) PROVE QueueInv'
  BY <1>2, QueueSame DEF Walk, Goto, Insert, Read, HasVar, Mods
<1>3. ASSUME Running, NEW s \in Sessions, SessionInsert(s) PROVE QueueInv'
  BY <1>3, QueueSame DEF SessionInsert, Done, Goto, HasVar, Mods
<1>4. ASSUME Running, NEW s \in Sessions, SessionQuit(s) PROVE QueueInv'
  BY <1>4, QueueSame DEF SessionQuit, Calls, Goto, HasVar, Mods
<1>5. ASSUME Running, NEW s \in Sessions, NEW m \in Mods, LoadBegin(s, m) PROVE QueueInv'
  <2>1. CASE m = "salt"
    BY <1>5, <2>1, QueueSame DEF LoadBegin, HasVar, Mods
  <2>2. CASE m \in HasVar
    <3>1. /\ Once(queue') /\ Range(queue') = Range(queue) \cup {<<m, loads[m] + 1>>}
      BY <1>5, <2>2, Loaded
    <3>2. stage'[m] = "new" /\ loads'[m] = loads[m] + 1 /\ loads[m] \in Nat /\ loads[m] < MaxLoads[m] /\ stage[m] = "out"
      BY <1>5 DEF LoadBegin
    <3>3. \A x \in Mods : x # m => stage'[x] = stage[x] /\ loads'[x] = loads[x]
      BY <1>5 DEF LoadBegin
    <3>4. MaxLoads[m] \in Nat
      BY MaxLoadsAssumption
    <3>5. ASSUME NEW x \in HasVar
          PROVE  /\ loads'[x] <= MaxLoads[x]
                 /\ stage'[x] # "out" => loads'[x] > 0
                 /\ \A n \in Nat : <<x, n>> \in Range(queue') <=> stage'[x] # "out" /\ n = loads'[x]
      <4>1. x \in Mods
        BY DEF HasVar, Mods
      <4>2. CASE x = m
        <5>1. \A n \in Nat : <<x, n>> \notin Range(queue)
          BY <2>2, <3>2, <4>2 DEF QueueInv
        <5>2. \A n \in Nat : <<x, n>> \in Range(queue') <=> n = loads[m] + 1
          BY <3>1, <4>2, <5>1
        <5>q. QED
          BY <3>2, <3>4, <4>2, <5>2
      <4>3. CASE x # m
        BY <3>1, <3>3, <4>1, <4>3 DEF QueueInv
      <4>q. QED
        BY <4>2, <4>3
    <3>q. QED
      BY <3>1, <3>5 DEF QueueInv
  <2>q. QED
    BY <1>5, <2>1, <2>2 DEF HasVar, Mods
<1>6. ASSUME Running, NEW s \in Sessions, NEW m \in Mods, Register(s, m) PROVE QueueInv'
  BY <1>6, QueueSame DEF Register, Restored, Write, HasVar, Mods
<1>7. ASSUME Running, NEW s \in Sessions, NEW m \in Mods, UnloadBegin(s, m) PROVE QueueInv'
  BY <1>7, QueueSame DEF UnloadBegin, Calls, HasVar, Mods
<1>8. ASSUME Running, NEW s \in Sessions, NEW m \in Mods, Unregister(s, m) PROVE QueueInv'
  BY <1>8, QueueSame DEF Unregister, HasVar, Mods
<1>9. ASSUME Running, NEW s \in Sessions, NEW m \in Mods, FreeVar(s, m) PROVE QueueInv'
  <2>1. m \in HasVar /\ Once(queue') /\ Range(queue') = Range(queue) \ {<<m, loads[m]>>}
    BY <1>9, Freed DEF Obj
  <2>2. UNCHANGED loads /\ stage'[m] = "out" /\ \A x \in Mods : x # m => stage'[x] = stage[x]
    BY <1>9 DEF FreeVar
  <2>3. ASSUME NEW x \in HasVar
        PROVE  /\ loads'[x] <= MaxLoads[x]
               /\ stage'[x] # "out" => loads'[x] > 0
               /\ \A n \in Nat : <<x, n>> \in Range(queue') <=> stage'[x] # "out" /\ n = loads'[x]
    <3>1. x \in Mods
      BY DEF HasVar, Mods
    <3>q. QED
      BY <2>1, <2>2, <3>1 DEF QueueInv
  <2>q. QED
    BY <2>1, <2>3 DEF QueueInv
<1>10. ASSUME Running, NEW s \in Sessions, PrivateRemove(s) PROVE QueueInv'
  BY <1>10, QueueSame DEF PrivateRemove, HasVar, Mods
<1>11. ASSUME Running, NEW s \in Sessions, NEW m \in Mods, ModuleUse(s, m) PROVE QueueInv'
  BY <1>11, QueueSame DEF ModuleUse, Calls, Goto, HasVar, Mods
<1>12. ASSUME Running, NEW s \in Sessions, VarUse(s) PROVE QueueInv'
  BY <1>12, QueueSame DEF VarUse, Calls, Alive, Goto, HasVar, Mods
<1>13. ASSUME Running, NEW s \in Sessions, NEW text \in Sends(s), UseDone(s, text) PROVE QueueInv'
  BY <1>13, QueueSame DEF UseDone, Read, Write, Done, Goto, HasVar, Mods
<1>14. ASSUME Running, NEW s \in Sessions, NEW text \in Sends(s), BaseSet(s, text) PROVE QueueInv'
  BY <1>14, QueueSame DEF BaseSet, Calls, Alive, Write, HasVar, Mods
<1>15. ASSUME Running, NEW s \in Sessions, NEW text \in Sends(s), NEW mine \in BOOLEAN, CacheAdd(s, text, mine) PROVE QueueInv'
  BY <1>15, QueueSame DEF CacheAdd, Calls, MayCache, HasVar, Mods
<1>16. ASSUME Running, NEW s \in Sessions, NEW mine \in BOOLEAN, CacheAddRead(s, mine) PROVE QueueInv'
  BY <1>16, QueueSame DEF CacheAddRead, Calls, MayCache, Alive, Insert, Read, HasVar, Mods
<1>17. ASSUME Running, NEW s \in Sessions, NEW mine \in BOOLEAN, CacheDel(s, mine) PROVE QueueInv'
  BY <1>17, QueueSame DEF CacheDel, Calls, HasVar, Mods
<1>18. ASSUME Running, NEW s \in Sessions, NEW mine \in BOOLEAN, CacheLoad(s, mine) PROVE QueueInv'
  BY <1>18, QueueSame DEF CacheLoad, Calls, Alive, Read, Write, HasVar, Mods
<1>19. ASSUME Running, NEW s \in Sessions, ModuleVarsLoad(s) PROVE QueueInv'
  BY <1>19, QueueSame DEF ModuleVarsLoad, Calls, Read, Write, HasVar, Mods
<1>20. ASSUME Running, NEW s \in Sessions, ModuleVarsSave(s) PROVE QueueInv'
  BY <1>20, QueueSame DEF ModuleVarsSave, Calls, Insert, Read, Goto, HasVar, Mods
<1>21. ASSUME Running, NEW s \in Sessions, SaveBase(s) PROVE QueueInv'
  BY <1>21, QueueSame DEF SaveBase, Done, Goto, HasVar, Mods
<1>22. ASSUME Running, NEW s \in Sessions, WalkFault(s) PROVE QueueInv'
  BY <1>22, QueueSame DEF WalkFault, Fault, Goto, HasVar, Mods
<1>23. ASSUME Running, NEW s \in Sessions, QuitFault(s) PROVE QueueInv'
  BY <1>23, QueueSame DEF QuitFault, Calls, Fault, Goto, HasVar, Mods
<1>24. ASSUME Running, NEW s \in Sessions, TableFault(s) PROVE QueueInv'
  BY <1>24, QueueSame DEF TableFault, Fault, Goto, HasVar, Mods
<1>25. ASSUME Running, NEW s \in Sessions, ReadFault(s) PROVE QueueInv'
  BY <1>25, QueueSame DEF ReadFault, Calls, Fault, Goto, HasVar, Mods
<1>u. CASE UNCHANGED vars
  BY <1>u DEF vars, QueueInv
<1>q. QED
  BY <1>a, <1>1, <1>2, <1>3, <1>4, <1>5, <1>6, <1>7, <1>8, <1>9, <1>10, <1>11, <1>12, <1>13, <1>14,
     <1>15, <1>16, <1>17, <1>18, <1>19, <1>20, <1>21, <1>22, <1>23, <1>24, <1>25, <1>u
     DEF Next, SessionSteps, ModuleSteps, VarSteps, FaultSteps

LEMMA ImportStep ==
  ASSUME IInv, [Next]_vars PROVE ImportInv'
<1> USE DEF IInv, TypeInv, modVars, cacheVars, tableVars
<1>a. ASSUME Next PROVE Running
  BY <1>a DEF Next
<1>1. ASSUME Running, NEW s \in Sessions, SessionNew(s) PROVE ImportInv'
  BY <1>1 DEF SessionNew, Goto, ImportInv, HasVar, Mods
<1>2. ASSUME Running, NEW s \in Sessions, Walk(s) PROVE ImportInv'
  BY <1>2 DEF Walk, Goto, Insert, Read, ImportInv, HasVar, Mods
<1>3. ASSUME Running, NEW s \in Sessions, SessionInsert(s) PROVE ImportInv'
  BY <1>3 DEF SessionInsert, Done, Goto, ImportInv, HasVar, Mods
<1>4. ASSUME Running, NEW s \in Sessions, SessionQuit(s) PROVE ImportInv'
  BY <1>4 DEF SessionQuit, Calls, Goto, ImportInv, HasVar, Mods
<1>5. ASSUME Running, NEW s \in Sessions, NEW m \in Mods, LoadBegin(s, m) PROVE ImportInv'
  BY <1>5 DEF LoadBegin, Calls, ImportInv, HasVar, Mods
<1>6. ASSUME Running, NEW s \in Sessions, NEW m \in Mods, Register(s, m) PROVE ImportInv'
  BY <1>6 DEF Register, Restored, Write, ImportInv, HasVar, Mods
<1>7. ASSUME Running, NEW s \in Sessions, NEW m \in Mods, UnloadBegin(s, m) PROVE ImportInv'
  BY <1>7 DEF UnloadBegin, Used, ImportInv
<1>8. ASSUME Running, NEW s \in Sessions, NEW m \in Mods, Unregister(s, m) PROVE ImportInv'
  BY <1>8 DEF Unregister, ImportInv, HasVar, Mods
<1>9. ASSUME Running, NEW s \in Sessions, NEW m \in Mods, FreeVar(s, m) PROVE ImportInv'
  BY <1>9 DEF FreeVar, ImportInv, HasVar, Mods
<1>10. ASSUME Running, NEW s \in Sessions, PrivateRemove(s) PROVE ImportInv'
  BY <1>10 DEF PrivateRemove, ImportInv, HasVar, Mods
<1>11. ASSUME Running, NEW s \in Sessions, NEW m \in Mods, ModuleUse(s, m) PROVE ImportInv'
  BY <1>11 DEF ModuleUse, Calls, Goto, ImportInv, HasVar, Mods
<1>12. ASSUME Running, NEW s \in Sessions, VarUse(s) PROVE ImportInv'
  BY <1>12 DEF VarUse, Calls, Alive, Goto, ImportInv, HasVar, Mods
<1>13. ASSUME Running, NEW s \in Sessions, NEW text \in Sends(s), UseDone(s, text) PROVE ImportInv'
  BY <1>13 DEF UseDone, Read, Write, Done, Goto, ImportInv, HasVar, Mods
<1>14. ASSUME Running, NEW s \in Sessions, NEW text \in Sends(s), BaseSet(s, text) PROVE ImportInv'
  BY <1>14 DEF BaseSet, Calls, Alive, Write, ImportInv, HasVar, Mods
<1>15. ASSUME Running, NEW s \in Sessions, NEW text \in Sends(s), NEW mine \in BOOLEAN, CacheAdd(s, text, mine) PROVE ImportInv'
  BY <1>15 DEF CacheAdd, Calls, MayCache, ImportInv, HasVar, Mods
<1>16. ASSUME Running, NEW s \in Sessions, NEW mine \in BOOLEAN, CacheAddRead(s, mine) PROVE ImportInv'
  BY <1>16 DEF CacheAddRead, Calls, MayCache, Alive, Insert, Read, ImportInv, HasVar, Mods
<1>17. ASSUME Running, NEW s \in Sessions, NEW mine \in BOOLEAN, CacheDel(s, mine) PROVE ImportInv'
  BY <1>17 DEF CacheDel, Calls, ImportInv, HasVar, Mods
<1>18. ASSUME Running, NEW s \in Sessions, NEW mine \in BOOLEAN, CacheLoad(s, mine) PROVE ImportInv'
  BY <1>18 DEF CacheLoad, Calls, Alive, Read, Write, ImportInv, HasVar, Mods
<1>19. ASSUME Running, NEW s \in Sessions, ModuleVarsLoad(s) PROVE ImportInv'
  BY <1>19 DEF ModuleVarsLoad, Calls, Read, Write, ImportInv, HasVar, Mods
<1>20. ASSUME Running, NEW s \in Sessions, ModuleVarsSave(s) PROVE ImportInv'
  BY <1>20 DEF ModuleVarsSave, Calls, Insert, Read, Goto, ImportInv, HasVar, Mods
<1>21. ASSUME Running, NEW s \in Sessions, SaveBase(s) PROVE ImportInv'
  BY <1>21 DEF SaveBase, Done, Goto, ImportInv, HasVar, Mods
<1>22. ASSUME Running, NEW s \in Sessions, WalkFault(s) PROVE ImportInv'
  BY <1>22 DEF WalkFault, Fault, Goto, ImportInv, HasVar, Mods
<1>23. ASSUME Running, NEW s \in Sessions, QuitFault(s) PROVE ImportInv'
  BY <1>23 DEF QuitFault, Calls, Fault, Goto, ImportInv, HasVar, Mods
<1>24. ASSUME Running, NEW s \in Sessions, TableFault(s) PROVE ImportInv'
  BY <1>24 DEF TableFault, Fault, Goto, ImportInv, HasVar, Mods
<1>25. ASSUME Running, NEW s \in Sessions, ReadFault(s) PROVE ImportInv'
  BY <1>25 DEF ReadFault, Calls, Fault, Goto, ImportInv, HasVar, Mods
<1>u. CASE UNCHANGED vars
  BY <1>u DEF vars, ImportInv
<1>q. QED
  BY <1>a, <1>1, <1>2, <1>3, <1>4, <1>5, <1>6, <1>7, <1>8, <1>9, <1>10, <1>11, <1>12, <1>13, <1>14,
     <1>15, <1>16, <1>17, <1>18, <1>19, <1>20, <1>21, <1>22, <1>23, <1>24, <1>25, <1>u
     DEF Next, SessionSteps, ModuleSteps, VarSteps, FaultSteps

LEMMA UseStep ==
  ASSUME IInv, [Next]_vars PROVE UseInv'
<1> USE DEF IInv, TypeInv, modVars, cacheVars, tableVars
<1>a. ASSUME Next PROVE Running
  BY <1>a DEF Next
<1>1. ASSUME Running, NEW s \in Sessions, SessionNew(s) PROVE UseInv'
  BY <1>1 DEF SessionNew, Goto, UseInv, Obj
<1>2. ASSUME Running, NEW s \in Sessions, Walk(s) PROVE UseInv'
  BY <1>2 DEF Walk, Goto, Insert, Read, UseInv, Obj
<1>3. ASSUME Running, NEW s \in Sessions, SessionInsert(s) PROVE UseInv'
  BY <1>3 DEF SessionInsert, Done, Goto, UseInv, Obj
<1>4. ASSUME Running, NEW s \in Sessions, SessionQuit(s) PROVE UseInv'
  BY <1>4 DEF SessionQuit, Calls, Goto, UseInv, Obj
<1>5. ASSUME Running, NEW s \in Sessions, NEW m \in Mods, LoadBegin(s, m) PROVE UseInv'
  BY <1>5 DEF LoadBegin, Calls, UseInv, Obj, ImportInv
<1>6. ASSUME Running, NEW s \in Sessions, NEW m \in Mods, Register(s, m) PROVE UseInv'
  BY <1>6 DEF Register, Restored, Write, UseInv, Obj
<1>7. ASSUME Running, NEW s \in Sessions, NEW m \in Mods, UnloadBegin(s, m) PROVE UseInv'
  BY <1>7 DEF UnloadBegin, Calls, UseInv, Obj, Used
<1>8. ASSUME Running, NEW s \in Sessions, NEW m \in Mods, Unregister(s, m) PROVE UseInv'
  BY <1>8 DEF Unregister, UseInv, Obj, MayWriteVars
<1>9. ASSUME Running, NEW s \in Sessions, NEW m \in Mods, FreeVar(s, m) PROVE UseInv'
  BY <1>9 DEF FreeVar, UseInv, Obj, ImportInv
<1>10. ASSUME Running, NEW s \in Sessions, PrivateRemove(s) PROVE UseInv'
  BY <1>10 DEF PrivateRemove, UseInv, Obj
<1>11. ASSUME Running, NEW s \in Sessions, NEW m \in Mods, ModuleUse(s, m) PROVE UseInv'
  BY <1>11 DEF ModuleUse, Calls, Goto, UseInv, Obj, Mods
<1>12. ASSUME Running, NEW s \in Sessions, VarUse(s) PROVE UseInv'
  BY <1>12 DEF VarUse, Calls, Alive, Goto, UseInv, Obj
<1>13. ASSUME Running, NEW s \in Sessions, NEW text \in Sends(s), UseDone(s, text) PROVE UseInv'
  BY <1>13 DEF UseDone, Read, Write, Done, Goto, UseInv, Obj
<1>14. ASSUME Running, NEW s \in Sessions, NEW text \in Sends(s), BaseSet(s, text) PROVE UseInv'
  BY <1>14 DEF BaseSet, Calls, Alive, Write, UseInv, Obj
<1>15. ASSUME Running, NEW s \in Sessions, NEW text \in Sends(s), NEW mine \in BOOLEAN, CacheAdd(s, text, mine) PROVE UseInv'
  BY <1>15 DEF CacheAdd, Calls, MayCache, UseInv, Obj
<1>16. ASSUME Running, NEW s \in Sessions, NEW mine \in BOOLEAN, CacheAddRead(s, mine) PROVE UseInv'
  BY <1>16 DEF CacheAddRead, Calls, MayCache, Alive, Insert, Read, UseInv, Obj
<1>17. ASSUME Running, NEW s \in Sessions, NEW mine \in BOOLEAN, CacheDel(s, mine) PROVE UseInv'
  BY <1>17 DEF CacheDel, Calls, UseInv, Obj
<1>18. ASSUME Running, NEW s \in Sessions, NEW mine \in BOOLEAN, CacheLoad(s, mine) PROVE UseInv'
  BY <1>18 DEF CacheLoad, Calls, Alive, Read, Write, UseInv, Obj
<1>19. ASSUME Running, NEW s \in Sessions, ModuleVarsLoad(s) PROVE UseInv'
  BY <1>19 DEF ModuleVarsLoad, Calls, Read, Write, UseInv, Obj
<1>20. ASSUME Running, NEW s \in Sessions, ModuleVarsSave(s) PROVE UseInv'
  BY <1>20 DEF ModuleVarsSave, Calls, Insert, Read, Goto, UseInv, Obj
<1>21. ASSUME Running, NEW s \in Sessions, SaveBase(s) PROVE UseInv'
  BY <1>21 DEF SaveBase, Done, Goto, UseInv, Obj
<1>22. ASSUME Running, NEW s \in Sessions, WalkFault(s) PROVE UseInv'
  BY <1>22 DEF WalkFault, Fault, Goto, UseInv, Obj
<1>23. ASSUME Running, NEW s \in Sessions, QuitFault(s) PROVE UseInv'
  BY <1>23 DEF QuitFault, Calls, Fault, Goto, UseInv, Obj
<1>24. ASSUME Running, NEW s \in Sessions, TableFault(s) PROVE UseInv'
  BY <1>24 DEF TableFault, Fault, Goto, UseInv, Obj
<1>25. ASSUME Running, NEW s \in Sessions, ReadFault(s) PROVE UseInv'
  BY <1>25 DEF ReadFault, Calls, Fault, Goto, UseInv, Obj
<1>u. CASE UNCHANGED vars
  BY <1>u DEF vars, UseInv, Obj
<1>q. QED
  BY <1>a, <1>1, <1>2, <1>3, <1>4, <1>5, <1>6, <1>7, <1>8, <1>9, <1>10, <1>11, <1>12, <1>13, <1>14,
     <1>15, <1>16, <1>17, <1>18, <1>19, <1>20, <1>21, <1>22, <1>23, <1>24, <1>25, <1>u
     DEF Next, SessionSteps, ModuleSteps, VarSteps, FaultSteps

LEMMA WalkStep ==
  ASSUME IInv, [Next]_vars PROVE WalkInv'
<1> USE DEF IInv, TypeInv, modVars, cacheVars, tableVars
<1>a. ASSUME Next PROVE Running
  BY <1>a DEF Next
<1>1. ASSUME Running, NEW s \in Sessions, SessionNew(s) PROVE WalkInv'
  <2>1. queue # <<>> => Head(queue) \in Range(queue)
    BY DEF Range
  <2>q. QED
    BY <1>1, <2>1 DEF SessionNew, Goto, WalkInv
<1>2. ASSUME Running, NEW s \in Sessions, Walk(s) PROVE WalkInv'
  <2>1. PICK i \in 1 .. Len(queue) : Goto(s, "walk", IF i = Len(queue) THEN None ELSE queue[i + 1], None)
    BY <1>2 DEF Walk
  <2>2. i # Len(queue) => queue[i + 1] \in Range(queue)
    BY DEF Range
  <2>3. UNCHANGED <<queue, late>> /\ \A t \in Sessions : t # s => table'[t] = table[t]
    BY <1>2 DEF Walk, Insert
  <2>q. QED
    BY <2>1, <2>2, <2>3 DEF Goto, WalkInv
<1>3. ASSUME Running, NEW s \in Sessions, SessionInsert(s) PROVE WalkInv'
  BY <1>3 DEF SessionInsert, Done, Goto, WalkInv
<1>4. ASSUME Running, NEW s \in Sessions, SessionQuit(s) PROVE WalkInv'
  BY <1>4 DEF SessionQuit, Calls, Goto, WalkInv
<1>5. ASSUME Running, NEW s \in Sessions, NEW m \in Mods, LoadBegin(s, m) PROVE WalkInv'
  <2>1. Range(queue) \subseteq Range(queue')
    BY <1>5, Loaded DEF LoadBegin
  <2>2. UNCHANGED <<pc, loc, table, late>>
    BY <1>5 DEF LoadBegin
  <2>q. QED
    BY <2>1, <2>2 DEF WalkInv
<1>6. ASSUME Running, NEW s \in Sessions, NEW m \in Mods, Register(s, m) PROVE WalkInv'
  BY <1>6 DEF Register, Restored, Write, WalkInv
<1>7. ASSUME Running, NEW s \in Sessions, NEW m \in Mods, UnloadBegin(s, m) PROVE WalkInv'
  BY <1>7 DEF UnloadBegin, Calls, WalkInv
<1>8. ASSUME Running, NEW s \in Sessions, NEW m \in Mods, Unregister(s, m) PROVE WalkInv'
  BY <1>8 DEF Unregister, WalkInv
<1>9. ASSUME Running, NEW s \in Sessions, NEW m \in Mods, FreeVar(s, m) PROVE WalkInv'
  <2>1. Range(queue') = Range(queue) \ {Obj(m)}
    BY <1>9, Freed
  <2>2. \A t \in Sessions : table'[t] \subseteq table[t]
    BY <1>9 DEF FreeVar
  <2>3. \A t \in Sessions : pc[t] = "walk" => late'[t] = late[t] \cup {Obj(m)}
    BY <1>9 DEF FreeVar
  <2>4. UNCHANGED <<pc, loc>>
    BY <1>9 DEF FreeVar
  <2>q. QED
    BY <2>1, <2>2, <2>3, <2>4 DEF WalkInv
<1>10. ASSUME Running, NEW s \in Sessions, PrivateRemove(s) PROVE WalkInv'
  BY <1>10 DEF PrivateRemove, WalkInv
<1>11. ASSUME Running, NEW s \in Sessions, NEW m \in Mods, ModuleUse(s, m) PROVE WalkInv'
  BY <1>11 DEF ModuleUse, Calls, Goto, WalkInv
<1>12. ASSUME Running, NEW s \in Sessions, VarUse(s) PROVE WalkInv'
  BY <1>12 DEF VarUse, Calls, Alive, Goto, WalkInv
<1>13. ASSUME Running, NEW s \in Sessions, NEW text \in Sends(s), UseDone(s, text) PROVE WalkInv'
  BY <1>13 DEF UseDone, Read, Write, Done, Goto, WalkInv
<1>14. ASSUME Running, NEW s \in Sessions, NEW text \in Sends(s), BaseSet(s, text) PROVE WalkInv'
  BY <1>14 DEF BaseSet, Calls, Alive, Write, WalkInv
<1>15. ASSUME Running, NEW s \in Sessions, NEW text \in Sends(s), NEW mine \in BOOLEAN, CacheAdd(s, text, mine) PROVE WalkInv'
  BY <1>15 DEF CacheAdd, Calls, MayCache, WalkInv
<1>16. ASSUME Running, NEW s \in Sessions, NEW mine \in BOOLEAN, CacheAddRead(s, mine) PROVE WalkInv'
  BY <1>16 DEF CacheAddRead, Calls, MayCache, Alive, Insert, Read, WalkInv
<1>17. ASSUME Running, NEW s \in Sessions, NEW mine \in BOOLEAN, CacheDel(s, mine) PROVE WalkInv'
  BY <1>17 DEF CacheDel, Calls, WalkInv
<1>18. ASSUME Running, NEW s \in Sessions, NEW mine \in BOOLEAN, CacheLoad(s, mine) PROVE WalkInv'
  BY <1>18 DEF CacheLoad, Calls, Alive, Read, Write, WalkInv
<1>19. ASSUME Running, NEW s \in Sessions, ModuleVarsLoad(s) PROVE WalkInv'
  BY <1>19 DEF ModuleVarsLoad, Calls, Read, Write, WalkInv
<1>20. ASSUME Running, NEW s \in Sessions, ModuleVarsSave(s) PROVE WalkInv'
  BY <1>20 DEF ModuleVarsSave, Calls, Insert, Read, Goto, WalkInv
<1>21. ASSUME Running, NEW s \in Sessions, SaveBase(s) PROVE WalkInv'
  BY <1>21 DEF SaveBase, Done, Goto, WalkInv
<1>22. ASSUME Running, NEW s \in Sessions, WalkFault(s) PROVE WalkInv'
  BY <1>22 DEF WalkFault, Fault, Goto, WalkInv
<1>23. ASSUME Running, NEW s \in Sessions, QuitFault(s) PROVE WalkInv'
  BY <1>23 DEF QuitFault, Calls, Fault, Goto, WalkInv
<1>24. ASSUME Running, NEW s \in Sessions, TableFault(s) PROVE WalkInv'
  BY <1>24 DEF TableFault, Fault, Goto, WalkInv
<1>25. ASSUME Running, NEW s \in Sessions, ReadFault(s) PROVE WalkInv'
  BY <1>25 DEF ReadFault, Calls, Fault, Goto, WalkInv
<1>u. CASE UNCHANGED vars
  BY <1>u DEF vars, WalkInv
<1>q. QED
  BY <1>a, <1>1, <1>2, <1>3, <1>4, <1>5, <1>6, <1>7, <1>8, <1>9, <1>10, <1>11, <1>12, <1>13, <1>14,
     <1>15, <1>16, <1>17, <1>18, <1>19, <1>20, <1>21, <1>22, <1>23, <1>24, <1>25, <1>u
     DEF Next, SessionSteps, ModuleSteps, VarSteps, FaultSteps

\* A module that is gone does not come back without a further load.
LEMMA RacedSame ==
  ASSUME TypeInv, RacedInv, NEW t \in raced, pc'[t] = pc[t], loc'[t] = loc[t],
         \A m \in HasVar : Gone(m) => Gone(m)'
  PROVE  /\ pc'[t] \in {"using", "fault"}
         /\ pc'[t] = "using" => \E m \in HasVar : m # loc'[t][1] /\ Gone(m)'
  BY DEF RacedInv

LEMMA RacedStep ==
  ASSUME IInv, [Next]_vars PROVE RacedInv'
<1> USE DEF IInv, TypeInv, modVars, cacheVars, tableVars
<1>a. ASSUME Next PROVE Running
  BY <1>a DEF Next
<1>1. ASSUME Running, NEW s \in Sessions, SessionNew(s) PROVE RacedInv'
  BY <1>1 DEF SessionNew, Goto, RacedInv, Gone, Running
<1>2. ASSUME Running, NEW s \in Sessions, Walk(s) PROVE RacedInv'
  BY <1>2 DEF Walk, Goto, Insert, Read, RacedInv, Gone, Running
<1>3. ASSUME Running, NEW s \in Sessions, SessionInsert(s) PROVE RacedInv'
  BY <1>3 DEF SessionInsert, Done, Goto, RacedInv, Gone, Running
<1>4. ASSUME Running, NEW s \in Sessions, SessionQuit(s) PROVE RacedInv'
  BY <1>4 DEF SessionQuit, Calls, Goto, RacedInv, Gone, Running
<1>5. ASSUME Running, NEW s \in Sessions, NEW m \in Mods, LoadBegin(s, m) PROVE RacedInv'
  <2>1. UNCHANGED raced /\ \A t \in raced : pc'[t] = pc[t] /\ loc'[t] = loc[t]
    BY <1>5 DEF LoadBegin, Calls, RacedInv
  <2>2. \A x \in HasVar : Gone(x) => Gone(x)'
    BY <1>5 DEF LoadBegin, Calls, Gone, HasVar, Mods
  <2>q. QED
    BY <2>1, <2>2, RacedSame DEF RacedInv
<1>6. ASSUME Running, NEW s \in Sessions, NEW m \in Mods, Register(s, m) PROVE RacedInv'
  <2>1. UNCHANGED raced /\ \A t \in raced : pc'[t] = pc[t] /\ loc'[t] = loc[t]
    BY <1>6 DEF Register, Restored, Write, RacedInv
  <2>2. \A x \in HasVar : Gone(x) => Gone(x)'
    BY <1>6 DEF Register, Restored, Write, Gone, HasVar, Mods
  <2>q. QED
    BY <2>1, <2>2, RacedSame DEF RacedInv
<1>7. ASSUME Running, NEW s \in Sessions, NEW m \in Mods, UnloadBegin(s, m) PROVE RacedInv'
  <2>1. UNCHANGED raced /\ \A t \in raced : pc'[t] = pc[t] /\ loc'[t] = loc[t]
    BY <1>7 DEF UnloadBegin, Calls, RacedInv
  <2>2. \A x \in HasVar : Gone(x) => Gone(x)'
    BY <1>7 DEF UnloadBegin, Calls, Gone, HasVar, Mods
  <2>q. QED
    BY <2>1, <2>2, RacedSame DEF RacedInv
<1>8. ASSUME Running, NEW s \in Sessions, NEW m \in Mods, Unregister(s, m) PROVE RacedInv'
  <2>1. UNCHANGED raced /\ \A t \in raced : pc'[t] = pc[t] /\ loc'[t] = loc[t]
    BY <1>8 DEF Unregister, RacedInv
  <2>2. \A x \in HasVar : Gone(x) => Gone(x)'
    BY <1>8 DEF Unregister, Gone, HasVar, Mods
  <2>q. QED
    BY <2>1, <2>2, RacedSame DEF RacedInv
<1>9. ASSUME Running, NEW s \in Sessions, NEW m \in Mods, FreeVar(s, m) PROVE RacedInv'
  <2>1. m \in HasVar /\ loads[m] > 0 /\ stage[m] = "unreg"
    BY <1>9, Freed DEF FreeVar, QueueInv
  <2>2. \A x \in HasVar : Gone(x) => Gone(x)'
    BY <1>9 DEF FreeVar, Gone, HasVar, Mods
  <2>3. Gone(m)'
    BY <1>9, <2>1 DEF FreeVar, Gone
  <2>4. \A t \in raced' : t \in raced \/ (t \in Sessions /\ pc[t] = "using")
    BY <1>9 DEF FreeVar, ForgetIn, Known
  <2>5. \A t \in Sessions : pc[t] = "using" => loc[t][1] # m
    BY <2>1 DEF UseInv, Obj, ImportInv
  <2>6. UNCHANGED <<pc, loc>>
    BY <1>9 DEF FreeVar
  <2>q. QED
    BY <2>1, <2>2, <2>3, <2>4, <2>5, <2>6, RacedSame DEF RacedInv
<1>10. ASSUME Running, NEW s \in Sessions, PrivateRemove(s) PROVE RacedInv'
  <2>1. UNCHANGED raced /\ \A t \in raced : pc'[t] = pc[t] /\ loc'[t] = loc[t]
    BY <1>10 DEF PrivateRemove, RacedInv
  <2>2. \A x \in HasVar : Gone(x) => Gone(x)'
    BY <1>10 DEF PrivateRemove, Gone, HasVar, Mods
  <2>q. QED
    BY <2>1, <2>2, RacedSame DEF RacedInv
<1>11. ASSUME Running, NEW s \in Sessions, NEW m \in Mods, ModuleUse(s, m) PROVE RacedInv'
  BY <1>11 DEF ModuleUse, Calls, Goto, RacedInv, Gone, Running
<1>12. ASSUME Running, NEW s \in Sessions, VarUse(s) PROVE RacedInv'
  BY <1>12 DEF VarUse, Calls, Alive, Goto, RacedInv, Gone, Running
<1>13. ASSUME Running, NEW s \in Sessions, NEW text \in Sends(s), UseDone(s, text) PROVE RacedInv'
  <2>1. \A t \in raced' : t \in raced /\ pc'[t] = pc[t] /\ loc'[t] = loc[t]
    BY <1>13 DEF UseDone, Read, Write, Done, Goto, RacedInv
  <2>q. QED
    BY <1>13, <2>1 DEF UseDone, RacedInv, Gone
<1>14. ASSUME Running, NEW s \in Sessions, NEW text \in Sends(s), BaseSet(s, text) PROVE RacedInv'
  BY <1>14 DEF BaseSet, Calls, Alive, Write, RacedInv, Gone, Running
<1>15. ASSUME Running, NEW s \in Sessions, NEW text \in Sends(s), NEW mine \in BOOLEAN, CacheAdd(s, text, mine) PROVE RacedInv'
  BY <1>15 DEF CacheAdd, Calls, MayCache, RacedInv, Gone, Running
<1>16. ASSUME Running, NEW s \in Sessions, NEW mine \in BOOLEAN, CacheAddRead(s, mine) PROVE RacedInv'
  BY <1>16 DEF CacheAddRead, Calls, MayCache, Alive, Insert, Read, RacedInv, Gone, Running
<1>17. ASSUME Running, NEW s \in Sessions, NEW mine \in BOOLEAN, CacheDel(s, mine) PROVE RacedInv'
  BY <1>17 DEF CacheDel, Calls, RacedInv, Gone, Running
<1>18. ASSUME Running, NEW s \in Sessions, NEW mine \in BOOLEAN, CacheLoad(s, mine) PROVE RacedInv'
  BY <1>18 DEF CacheLoad, Calls, Alive, Read, Write, RacedInv, Gone, Running
<1>19. ASSUME Running, NEW s \in Sessions, ModuleVarsLoad(s) PROVE RacedInv'
  BY <1>19 DEF ModuleVarsLoad, Calls, Read, Write, RacedInv, Gone, Running
<1>20. ASSUME Running, NEW s \in Sessions, ModuleVarsSave(s) PROVE RacedInv'
  BY <1>20 DEF ModuleVarsSave, Calls, Insert, Read, Goto, RacedInv, Gone, Running
<1>21. ASSUME Running, NEW s \in Sessions, SaveBase(s) PROVE RacedInv'
  BY <1>21 DEF SaveBase, Done, Goto, RacedInv, Gone, Running
<1>22. ASSUME Running, NEW s \in Sessions, WalkFault(s) PROVE RacedInv'
  BY <1>22 DEF WalkFault, Fault, Goto, RacedInv, Gone, Running
<1>23. ASSUME Running, NEW s \in Sessions, QuitFault(s) PROVE RacedInv'
  BY <1>23 DEF QuitFault, Calls, Fault, Goto, RacedInv, Gone, Running
<1>24. ASSUME Running, NEW s \in Sessions, TableFault(s) PROVE RacedInv'
  BY <1>24 DEF TableFault, Fault, Goto, RacedInv, Gone, Running
<1>25. ASSUME Running, NEW s \in Sessions, ReadFault(s) PROVE RacedInv'
  BY <1>25 DEF ReadFault, Calls, Fault, Goto, RacedInv, Gone, Running
<1>u. CASE UNCHANGED vars
  BY <1>u DEF vars, RacedInv, Gone
<1>q. QED
  BY <1>a, <1>1, <1>2, <1>3, <1>4, <1>5, <1>6, <1>7, <1>8, <1>9, <1>10, <1>11, <1>12, <1>13, <1>14,
     <1>15, <1>16, <1>17, <1>18, <1>19, <1>20, <1>21, <1>22, <1>23, <1>24, <1>25, <1>u
     DEF Next, SessionSteps, ModuleSteps, VarSteps, FaultSteps

(* TablesLive, in parts.                                                   *)

NamedInv == \A s \in Sessions : table[s] \subseteq Range(queue) \cup late[s]

FaultInv ==
  \A s \in Sessions : pc[s] = "fault" =>
    \/ via[s] = "walk" /\ loc[s] \in late[s]
    \/ via[s] = "quit" /\ table[s] \cap late[s] # {}
    \/ via[s] = "table" /\ \E m \in HasVar \ {loc[s][1]} : stage[m] \notin {"new", "in"} \/ loads[m] > 1
    \/ via[s] = "read"

SaltInv == salted \subseteq htList /\ (salted # {} => stage["salt"] # "out")

LEMMA UsedQueued ==
  ASSUME TypeInv, QueueInv, ImportInv, UseInv, NEW s \in Sessions, pc[s] = "using"
  PROVE  loc[s] \in Range(queue)
<1>1. "netflow" \in HasVar /\ "private" \in HasVar
  BY DEF HasVar
<1>q. QED
  BY <1>1, ObjQueued DEF UseInv, ImportInv

LEMMA LiveParts ==
  TypeInv /\ QueueInv /\ ImportInv /\ UseInv => (TablesLive <=> NamedInv /\ FaultInv /\ SaltInv)
  BY UsedQueued DEF TablesLive, NamedInv, FaultInv, SaltInv

LEMMA LiveNext ==
  (TypeInv /\ QueueInv /\ ImportInv /\ UseInv /\ NamedInv /\ FaultInv /\ SaltInv)' => TablesLive'
  BY LiveParts, PTL

LEMMA Named == ASSUME IInv PROVE NamedInv
  BY LiveParts DEF IInv

\* Tables grow by what is in the queue.
LEMMA NamedMore ==
  ASSUME TypeInv, NamedInv, NEW s \in Sessions, NEW o \in Range(queue), UNCHANGED <<queue, late>>,
         table' = table \/ table' = [table EXCEPT ![s] = @ \cup {o}]
  PROVE  NamedInv'
  BY DEF TypeInv, NamedInv

LEMMA NamedStep ==
  ASSUME IInv, [Next]_vars PROVE NamedInv'
<1> USE DEF IInv, TypeInv, modVars, cacheVars, tableVars
<1>l. NamedInv
  BY Named
<1>a. ASSUME Next PROVE Running
  BY <1>a DEF Next
<1>1. ASSUME Running, NEW s \in Sessions, SessionNew(s) PROVE NamedInv'
  BY <1>1, <1>l DEF SessionNew, Goto, NamedInv
<1>2. ASSUME Running, NEW s \in Sessions, Walk(s) PROVE NamedInv'
  <2>1. loc[s] \in Range(queue)
    BY <1>2 DEF Walk, Range
  <2>q. QED
    BY <1>2, <1>l, <2>1, NamedMore DEF Walk, Goto, Insert, Read
<1>3. ASSUME Running, NEW s \in Sessions, SessionInsert(s) PROVE NamedInv'
  BY <1>3, <1>l DEF SessionInsert, Done, Goto, NamedInv
<1>4. ASSUME Running, NEW s \in Sessions, SessionQuit(s) PROVE NamedInv'
  BY <1>4, <1>l DEF SessionQuit, Calls, Goto, NamedInv
<1>5. ASSUME Running, NEW s \in Sessions, NEW m \in Mods, LoadBegin(s, m) PROVE NamedInv'
  <2>1. Range(queue) \subseteq Range(queue')
    BY <1>5, Loaded DEF LoadBegin
  <2>q. QED
    BY <1>5, <1>l, <2>1 DEF LoadBegin, NamedInv
<1>6. ASSUME Running, NEW s \in Sessions, NEW m \in Mods, Register(s, m) PROVE NamedInv'
  BY <1>6, <1>l DEF Register, Restored, Write, NamedInv
<1>7. ASSUME Running, NEW s \in Sessions, NEW m \in Mods, UnloadBegin(s, m) PROVE NamedInv'
  BY <1>7, <1>l DEF UnloadBegin, Calls, NamedInv
<1>8. ASSUME Running, NEW s \in Sessions, NEW m \in Mods, Unregister(s, m) PROVE NamedInv'
  BY <1>8, <1>l DEF Unregister, NamedInv
<1>9. ASSUME Running, NEW s \in Sessions, NEW m \in Mods, FreeVar(s, m) PROVE NamedInv'
  <2>1. Range(queue') = Range(queue) \ {Obj(m)}
    BY <1>9, Freed
  <2>2. ASSUME NEW t \in Sessions PROVE table'[t] \subseteq Range(queue') \cup late'[t]
    <3>1. table[t] \subseteq Range(queue) \cup late[t] /\ late[t] \subseteq late'[t]
      BY <1>9, <1>l DEF FreeVar, NamedInv
    <3>2. CASE t \in ForgetIn(Obj(m))
      <4>1. table'[t] = table[t] \ {Obj(m)}
        BY <1>9, <3>2 DEF FreeVar
      <4>q. QED
        BY <2>1, <3>1, <4>1
    <3>3. CASE t \notin ForgetIn(Obj(m))
      <4>1. table'[t] = table[t]
        BY <1>9, <3>3 DEF FreeVar
      <4>2. CASE Obj(m) \notin table[t]
        BY <2>1, <3>1, <4>1, <4>2
      <4>3. CASE pc[t] = "off"
        BY <4>1, <4>3 DEF WalkInv
      <4>4. CASE pc[t] = "walk"
        <5>1. late'[t] = late[t] \cup {Obj(m)}
          BY <1>9, <4>4 DEF FreeVar
        <5>q. QED
          BY <2>1, <3>1, <4>1, <5>1
      <4>q. QED
        BY <3>3, <4>2, <4>3, <4>4 DEF ForgetIn, Known
    <3>q. QED
      BY <3>2, <3>3
  <2>q. QED
    BY <2>2 DEF NamedInv
<1>10. ASSUME Running, NEW s \in Sessions, PrivateRemove(s) PROVE NamedInv'
  BY <1>10, <1>l DEF PrivateRemove, NamedInv
<1>11. ASSUME Running, NEW s \in Sessions, NEW m \in Mods, ModuleUse(s, m) PROVE NamedInv'
  BY <1>11, <1>l DEF ModuleUse, Calls, Goto, NamedInv
<1>12. ASSUME Running, NEW s \in Sessions, VarUse(s) PROVE NamedInv'
  BY <1>12, <1>l DEF VarUse, Calls, Alive, Goto, NamedInv
<1>13. ASSUME Running, NEW s \in Sessions, NEW text \in Sends(s), UseDone(s, text) PROVE NamedInv'
  <2>1. loc[s] \in Range(queue)
    BY <1>13, UsedQueued DEF UseDone
  <2>q. QED
    BY <1>13, <1>l, <2>1, NamedMore DEF UseDone, Read, Write, Done, Goto
<1>14. ASSUME Running, NEW s \in Sessions, NEW text \in Sends(s), BaseSet(s, text) PROVE NamedInv'
  BY <1>14, <1>l DEF BaseSet, Calls, Alive, Write, NamedInv
<1>15. ASSUME Running, NEW s \in Sessions, NEW text \in Sends(s), NEW mine \in BOOLEAN, CacheAdd(s, text, mine) PROVE NamedInv'
  BY <1>15, <1>l DEF CacheAdd, Calls, MayCache, NamedInv
<1>16. ASSUME Running, NEW s \in Sessions, NEW mine \in BOOLEAN, CacheAddRead(s, mine) PROVE NamedInv'
  <2>1. Obj("netflow") \in Range(queue)
    BY <1>16, ObjQueued DEF CacheAddRead, Calls, MayCache, Alive, Insert, Read, HasVar
  <2>q. QED
    BY <1>16, <1>l, <2>1, NamedMore DEF CacheAddRead, Calls, MayCache, Alive, Insert, Read
<1>17. ASSUME Running, NEW s \in Sessions, NEW mine \in BOOLEAN, CacheDel(s, mine) PROVE NamedInv'
  BY <1>17, <1>l DEF CacheDel, Calls, NamedInv
<1>18. ASSUME Running, NEW s \in Sessions, NEW mine \in BOOLEAN, CacheLoad(s, mine) PROVE NamedInv'
  <2>1. Obj("netflow") \in Range(queue)
    BY <1>18, ObjQueued DEF CacheLoad, Calls, Alive, Read, Write, HasVar
  <2>q. QED
    BY <1>18, <1>l, <2>1, NamedMore DEF CacheLoad, Calls, Alive, Read, Write
<1>19. ASSUME Running, NEW s \in Sessions, ModuleVarsLoad(s) PROVE NamedInv'
  <2>1. Obj("netflow") \in Range(queue)
    BY <1>19, ObjQueued DEF ModuleVarsLoad, Calls, Read, Write, HasVar
  <2>q. QED
    BY <1>19, <1>l, <2>1, NamedMore DEF ModuleVarsLoad, Calls, Read, Write
<1>20. ASSUME Running, NEW s \in Sessions, ModuleVarsSave(s) PROVE NamedInv'
  <2>1. Obj("netflow") \in Range(queue)
    BY <1>20, ObjQueued DEF ModuleVarsSave, Calls, Insert, Read, Goto, HasVar
  <2>q. QED
    BY <1>20, <1>l, <2>1, NamedMore DEF ModuleVarsSave, Calls, Insert, Read, Goto
<1>21. ASSUME Running, NEW s \in Sessions, SaveBase(s) PROVE NamedInv'
  BY <1>21, <1>l DEF SaveBase, Done, Goto, NamedInv
<1>22. ASSUME Running, NEW s \in Sessions, WalkFault(s) PROVE NamedInv'
  BY <1>22, <1>l DEF WalkFault, Fault, Goto, NamedInv
<1>23. ASSUME Running, NEW s \in Sessions, QuitFault(s) PROVE NamedInv'
  BY <1>23, <1>l DEF QuitFault, Calls, Fault, Goto, NamedInv
<1>24. ASSUME Running, NEW s \in Sessions, TableFault(s) PROVE NamedInv'
  BY <1>24, <1>l DEF TableFault, Fault, Goto, NamedInv
<1>25. ASSUME Running, NEW s \in Sessions, ReadFault(s) PROVE NamedInv'
  BY <1>25, <1>l DEF ReadFault, Calls, Fault, Goto, NamedInv
<1>u. CASE UNCHANGED vars
  BY <1>l, <1>u DEF vars, NamedInv
<1>q. QED
  BY <1>a, <1>1, <1>2, <1>3, <1>4, <1>5, <1>6, <1>7, <1>8, <1>9, <1>10, <1>11, <1>12, <1>13, <1>14,
     <1>15, <1>16, <1>17, <1>18, <1>19, <1>20, <1>21, <1>22, <1>23, <1>24, <1>25, <1>u
     DEF Next, SessionSteps, ModuleSteps, VarSteps, FaultSteps

LEMMA NoFault == ASSUME \A t \in Sessions : pc'[t] # "fault" PROVE FaultInv'
  BY DEF FaultInv

LEMMA FaultStep ==
  ASSUME IInv, [Next]_vars PROVE FaultInv'
<1> USE DEF IInv, TypeInv, modVars, cacheVars, tableVars
<1>f. FaultInv
  BY LiveParts
<1>a. ASSUME Next PROVE Running
  BY <1>a DEF Next
<1>1. ASSUME Running, NEW s \in Sessions, SessionNew(s) PROVE FaultInv'
  BY <1>1, NoFault DEF SessionNew, Goto, Running
<1>2. ASSUME Running, NEW s \in Sessions, Walk(s) PROVE FaultInv'
  BY <1>2, NoFault DEF Walk, Goto, Insert, Read, Running
<1>3. ASSUME Running, NEW s \in Sessions, SessionInsert(s) PROVE FaultInv'
  BY <1>3, NoFault DEF SessionInsert, Done, Goto, Running
<1>4. ASSUME Running, NEW s \in Sessions, SessionQuit(s) PROVE FaultInv'
  BY <1>4, NoFault DEF SessionQuit, Calls, Goto, Running
<1>5. ASSUME Running, NEW s \in Sessions, NEW m \in Mods, LoadBegin(s, m) PROVE FaultInv'
  BY <1>5, NoFault DEF LoadBegin, Calls, Running
<1>6. ASSUME Running, NEW s \in Sessions, NEW m \in Mods, Register(s, m) PROVE FaultInv'
  BY <1>6, NoFault DEF Register, Restored, Write, Running
<1>7. ASSUME Running, NEW s \in Sessions, NEW m \in Mods, UnloadBegin(s, m) PROVE FaultInv'
  BY <1>7, NoFault DEF UnloadBegin, Calls, Running
<1>8. ASSUME Running, NEW s \in Sessions, NEW m \in Mods, Unregister(s, m) PROVE FaultInv'
  BY <1>8, NoFault DEF Unregister, Running
<1>9. ASSUME Running, NEW s \in Sessions, NEW m \in Mods, FreeVar(s, m) PROVE FaultInv'
  BY <1>9, NoFault DEF FreeVar, Running
<1>10. ASSUME Running, NEW s \in Sessions, PrivateRemove(s) PROVE FaultInv'
  BY <1>10, NoFault DEF PrivateRemove, Running
<1>11. ASSUME Running, NEW s \in Sessions, NEW m \in Mods, ModuleUse(s, m) PROVE FaultInv'
  BY <1>11, NoFault DEF ModuleUse, Calls, Goto, Running
<1>12. ASSUME Running, NEW s \in Sessions, VarUse(s) PROVE FaultInv'
  BY <1>12, NoFault DEF VarUse, Calls, Alive, Goto, Running
<1>13. ASSUME Running, NEW s \in Sessions, NEW text \in Sends(s), UseDone(s, text) PROVE FaultInv'
  BY <1>13, NoFault DEF UseDone, Read, Write, Done, Goto, Running
<1>14. ASSUME Running, NEW s \in Sessions, NEW text \in Sends(s), BaseSet(s, text) PROVE FaultInv'
  BY <1>14, NoFault DEF BaseSet, Calls, Alive, Write, Running
<1>15. ASSUME Running, NEW s \in Sessions, NEW text \in Sends(s), NEW mine \in BOOLEAN, CacheAdd(s, text, mine) PROVE FaultInv'
  BY <1>15, NoFault DEF CacheAdd, Calls, MayCache, Running
<1>16. ASSUME Running, NEW s \in Sessions, NEW mine \in BOOLEAN, CacheAddRead(s, mine) PROVE FaultInv'
  BY <1>16, NoFault DEF CacheAddRead, Calls, MayCache, Alive, Insert, Read, Running
<1>17. ASSUME Running, NEW s \in Sessions, NEW mine \in BOOLEAN, CacheDel(s, mine) PROVE FaultInv'
  BY <1>17, NoFault DEF CacheDel, Calls, Running
<1>18. ASSUME Running, NEW s \in Sessions, NEW mine \in BOOLEAN, CacheLoad(s, mine) PROVE FaultInv'
  BY <1>18, NoFault DEF CacheLoad, Calls, Alive, Read, Write, Running
<1>19. ASSUME Running, NEW s \in Sessions, ModuleVarsLoad(s) PROVE FaultInv'
  BY <1>19, NoFault DEF ModuleVarsLoad, Calls, Read, Write, Running
<1>20. ASSUME Running, NEW s \in Sessions, ModuleVarsSave(s) PROVE FaultInv'
  BY <1>20, NoFault DEF ModuleVarsSave, Calls, Insert, Read, Goto, Running
<1>21. ASSUME Running, NEW s \in Sessions, SaveBase(s) PROVE FaultInv'
  BY <1>21, NoFault DEF SaveBase, Done, Goto, Running
<1>22. ASSUME Running, NEW s \in Sessions, WalkFault(s) PROVE FaultInv'
  <2>1. \A t \in Sessions : pc'[t] = "fault" => t = s
    BY <1>22 DEF WalkFault, Fault, Goto, Running
  <2>2. via'[s] = "walk" /\ loc'[s] \in late'[s]
    BY <1>22 DEF WalkFault, Fault, Goto, WalkInv
  <2>q. QED
    BY <2>1, <2>2 DEF FaultInv
<1>23. ASSUME Running, NEW s \in Sessions, QuitFault(s) PROVE FaultInv'
  <2>1. \A t \in Sessions : pc'[t] = "fault" => t = s
    BY <1>23 DEF QuitFault, Calls, Fault, Goto, Running
  <2>2. via'[s] = "quit" /\ table'[s] \cap late'[s] # {}
    BY <1>23, Named DEF QuitFault, Calls, Fault, Goto, NamedInv
  <2>q. QED
    BY <2>1, <2>2 DEF FaultInv
<1>24. ASSUME Running, NEW s \in Sessions, TableFault(s) PROVE FaultInv'
  <2>1. \A t \in Sessions : pc'[t] = "fault" => t = s
    BY <1>24 DEF TableFault, Fault, Goto, Running
  <2>2. via'[s] = "table" /\ loc'[s] = loc[s] /\ UNCHANGED <<stage, loads>>
    BY <1>24 DEF TableFault, Fault, Goto
  <2>3. PICK m \in HasVar : m # loc[s][1] /\ Gone(m)
    BY <1>24 DEF TableFault, RacedInv
  <2>q. QED
    BY <2>1, <2>2, <2>3 DEF FaultInv, Gone
<1>25. ASSUME Running, NEW s \in Sessions, ReadFault(s) PROVE FaultInv'
  <2>1. \A t \in Sessions : pc'[t] = "fault" => t = s
    BY <1>25 DEF ReadFault, Calls, Fault, Goto, Running
  <2>2. via'[s] = "read"
    BY <1>25 DEF ReadFault, Calls, Fault, Goto
  <2>q. QED
    BY <2>1, <2>2 DEF FaultInv
<1>u. CASE UNCHANGED vars
  BY <1>f, <1>u DEF vars, FaultInv
<1>q. QED
  BY <1>a, <1>1, <1>2, <1>3, <1>4, <1>5, <1>6, <1>7, <1>8, <1>9, <1>10, <1>11, <1>12, <1>13, <1>14,
     <1>15, <1>16, <1>17, <1>18, <1>19, <1>20, <1>21, <1>22, <1>23, <1>24, <1>25, <1>u
     DEF Next, SessionSteps, ModuleSteps, VarSteps, FaultSteps

LEMMA SaltStep ==
  ASSUME IInv, [Next]_vars PROVE SaltInv'
<1> USE DEF IInv, TypeInv, modVars, cacheVars, tableVars
<1>f. SaltInv
  BY LiveParts
<1>a. ASSUME Next PROVE Running
  BY <1>a DEF Next
<1>1. ASSUME Running, NEW s \in Sessions, SessionNew(s) PROVE SaltInv'
  BY <1>1, <1>f DEF SessionNew, Goto, SaltInv, Mods
<1>2. ASSUME Running, NEW s \in Sessions, Walk(s) PROVE SaltInv'
  BY <1>2, <1>f DEF Walk, Goto, Insert, Read, SaltInv, Mods
<1>3. ASSUME Running, NEW s \in Sessions, SessionInsert(s) PROVE SaltInv'
  BY <1>3, <1>f DEF SessionInsert, Done, Goto, SaltInv, Mods
<1>4. ASSUME Running, NEW s \in Sessions, SessionQuit(s) PROVE SaltInv'
  BY <1>4, <1>f DEF SessionQuit, Calls, Goto, SaltInv, Mods
<1>5. ASSUME Running, NEW s \in Sessions, NEW m \in Mods, LoadBegin(s, m) PROVE SaltInv'
  BY <1>5, <1>f DEF LoadBegin, Calls, SaltInv, Mods
<1>6. ASSUME Running, NEW s \in Sessions, NEW m \in Mods, Register(s, m) PROVE SaltInv'
  BY <1>6, <1>f DEF Register, Restored, Write, SaltInv, Mods
<1>7. ASSUME Running, NEW s \in Sessions, NEW m \in Mods, UnloadBegin(s, m) PROVE SaltInv'
  BY <1>7, <1>f DEF UnloadBegin, Calls, SaltInv, Mods
<1>8. ASSUME Running, NEW s \in Sessions, NEW m \in Mods, Unregister(s, m) PROVE SaltInv'
  BY <1>8, <1>f DEF Unregister, SaltInv, Mods
<1>9. ASSUME Running, NEW s \in Sessions, NEW m \in Mods, FreeVar(s, m) PROVE SaltInv'
  <2>1. m \in HasVar /\ stage'["salt"] = stage["salt"]
    BY <1>9, Freed DEF FreeVar, HasVar, Mods
  <2>2. salted' \subseteq htList' /\ salted' \subseteq salted
    BY <1>9, <1>f DEF FreeVar, SaltInv
  <2>q. QED
    BY <1>f, <2>1, <2>2 DEF SaltInv
<1>10. ASSUME Running, NEW s \in Sessions, PrivateRemove(s) PROVE SaltInv'
  BY <1>10, <1>f DEF PrivateRemove, SaltInv, Mods
<1>11. ASSUME Running, NEW s \in Sessions, NEW m \in Mods, ModuleUse(s, m) PROVE SaltInv'
  BY <1>11, <1>f DEF ModuleUse, Calls, Goto, SaltInv, Mods
<1>12. ASSUME Running, NEW s \in Sessions, VarUse(s) PROVE SaltInv'
  BY <1>12, <1>f DEF VarUse, Calls, Alive, Goto, SaltInv, Mods
<1>13. ASSUME Running, NEW s \in Sessions, NEW text \in Sends(s), UseDone(s, text) PROVE SaltInv'
  BY <1>13, <1>f DEF UseDone, SaltInv, UseInv
<1>14. ASSUME Running, NEW s \in Sessions, NEW text \in Sends(s), BaseSet(s, text) PROVE SaltInv'
  BY <1>14, <1>f DEF BaseSet, Calls, Alive, Write, SaltInv, Mods
<1>15. ASSUME Running, NEW s \in Sessions, NEW text \in Sends(s), NEW mine \in BOOLEAN, CacheAdd(s, text, mine) PROVE SaltInv'
  BY <1>15, <1>f DEF CacheAdd, Calls, MayCache, SaltInv, Mods
<1>16. ASSUME Running, NEW s \in Sessions, NEW mine \in BOOLEAN, CacheAddRead(s, mine) PROVE SaltInv'
  BY <1>16, <1>f DEF CacheAddRead, Calls, MayCache, Alive, Insert, Read, SaltInv, Mods
<1>17. ASSUME Running, NEW s \in Sessions, NEW mine \in BOOLEAN, CacheDel(s, mine) PROVE SaltInv'
  BY <1>17, <1>f DEF CacheDel, Calls, SaltInv, Mods
<1>18. ASSUME Running, NEW s \in Sessions, NEW mine \in BOOLEAN, CacheLoad(s, mine) PROVE SaltInv'
  BY <1>18, <1>f DEF CacheLoad, Calls, Alive, Read, Write, SaltInv, Mods
<1>19. ASSUME Running, NEW s \in Sessions, ModuleVarsLoad(s) PROVE SaltInv'
  BY <1>19, <1>f DEF ModuleVarsLoad, Calls, Read, Write, SaltInv, Mods
<1>20. ASSUME Running, NEW s \in Sessions, ModuleVarsSave(s) PROVE SaltInv'
  BY <1>20, <1>f DEF ModuleVarsSave, Calls, Insert, Read, Goto, SaltInv, Mods
<1>21. ASSUME Running, NEW s \in Sessions, SaveBase(s) PROVE SaltInv'
  BY <1>21, <1>f DEF SaveBase, Done, Goto, SaltInv, Mods
<1>22. ASSUME Running, NEW s \in Sessions, WalkFault(s) PROVE SaltInv'
  BY <1>22, <1>f DEF WalkFault, Fault, Goto, SaltInv, Mods
<1>23. ASSUME Running, NEW s \in Sessions, QuitFault(s) PROVE SaltInv'
  BY <1>23, <1>f DEF QuitFault, Calls, Fault, Goto, SaltInv, Mods
<1>24. ASSUME Running, NEW s \in Sessions, TableFault(s) PROVE SaltInv'
  BY <1>24, <1>f DEF TableFault, Fault, Goto, SaltInv, Mods
<1>25. ASSUME Running, NEW s \in Sessions, ReadFault(s) PROVE SaltInv'
  BY <1>25, <1>f DEF ReadFault, Calls, Fault, Goto, SaltInv, Mods
<1>u. CASE UNCHANGED vars
  BY <1>f, <1>u DEF vars, SaltInv
<1>q. QED
  BY <1>a, <1>1, <1>2, <1>3, <1>4, <1>5, <1>6, <1>7, <1>8, <1>9, <1>10, <1>11, <1>12, <1>13, <1>14,
     <1>15, <1>16, <1>17, <1>18, <1>19, <1>20, <1>21, <1>22, <1>23, <1>24, <1>25, <1>u
     DEF Next, SessionSteps, ModuleSteps, VarSteps, FaultSteps

-----------------------------------------------------------------------------
(* The theorems.                                                           *)

LEMMA Initially == Init => IInv
<1> SUFFICES ASSUME Init PROVE IInv
  OBVIOUS
<1>1. queue = <<>> /\ queue \in Seq(Objs) /\ Range(queue) = {} /\ Once(queue)
  BY DEF Init, Range, Once
<1>2. TypeInv
  BY <1>1, RolesAssumption DEF Init, TypeInv, Stages, PCs, Values
<1>3. TextsInv
  BY DEF Init, TextsInv, Chosen
<1>4. QueueInv
  BY <1>1, MaxLoadsAssumption DEF Init, QueueInv, HasVar, Mods
<1>5. ImportInv /\ UseInv /\ WalkInv /\ RacedInv
  BY DEF Init, ImportInv, UseInv, WalkInv, RacedInv, Mods
<1>6. NamedInv /\ FaultInv /\ SaltInv
  BY DEF Init, NamedInv, FaultInv, SaltInv
<1>q. QED
  BY <1>2, <1>3, <1>4, <1>5, <1>6, LiveParts DEF IInv

LEMMA Inductive == IInv /\ [Next]_vars => IInv'
  BY TypeStep, TextsStep, QueueStep, ImportStep, UseStep, WalkStep, RacedStep, NamedStep, FaultStep, SaltStep, LiveNext
     DEF IInv

LEMMA Invariance == Spec => []IInv
  BY Initially, Inductive, PTL DEF Spec

\* The sessions' tables name variables that exist, and sessions follow freed
\* ones only where modules come and go under their hands (mbb_session_new,
\* mbb_session_del_var, mbb_session_var_get_data, private_remove).
THEOREM VarsTablesLive == Spec => []TablesLive
<1>1. IInv => TablesLive
  BY DEF IInv
<1>q. QED
  BY <1>1, Invariance, PTL

\* Netflow's directory was chosen by wheel, root or the configuration
\* (mbb_var_set, mbb_var_mregister, var_cache_load, module_vars_load).
THEOREM VarsTrusted == Spec => []Trusted
<1>1. IInv => Trusted
  BY DEF IInv, TextsInv, Trusted
<1>q. QED
  BY <1>1, Invariance, PTL
=============================================================================
