---------------------------- MODULE AccessProofs ----------------------------
(***************************************************************************)
(* Proofs about Access: references to users are counted, what users may do  *)
(* is what the database says, and faults have only the four known causes,   *)
(* for every set of sessions, keys, tasks, names and groups.                *)
(***************************************************************************)
EXTENDS Access, FiniteSetTheorems, TLAPS

(* The inductive invariant, in parts.                                      *)

States == {"none", "listed", "removed", "freed"}

Renaming == {"wspin", "wtake"}
Authorizing == {"found", "swap"}

PCs ==
  {"off", "idle", "call", "fault", "read", "rspin", "rtake", "name", "copy", "torn"}
    \cup Renaming \cup Authorizing

TypeInv ==
  /\ state \in [Ids -> States]
  /\ name \in [Ids -> Names \cup {None}]
  /\ secret \in [Ids -> BOOLEAN]
  /\ caps \in [Ids -> SUBSET Groups]
  /\ nref \in [Ids -> Int]
  /\ spin \in [Ids -> BOOLEAN]
  /\ doubled \subseteq Ids
  /\ member \in [Groups -> SUBSET Ids]
  /\ dbUser \in [Ids -> [name : Names \cup {None}, secret : BOOLEAN] \cup {None}]
  /\ dbMember \in [Groups -> SUBSET Ids]
  /\ keyUser \in [Keys -> Ids \cup {None}]
  /\ taskUser \in [Tasks -> Ids \cup {None}]
  /\ taskTable \subseteq Tasks
  /\ user \in [Sessions -> Ids \cup {None}]
  /\ pc \in [Sessions -> PCs]
  /\ loc \in [Sessions -> Ids \cup {None}]
  /\ src \in [Sessions -> Ids \cup {None}]
  /\ shifted \subseteq Sessions
  /\ DOMAIN via = Sessions

\* What a count is, of a user in state st with the holders h.
Counted(st, n, h) ==
  /\ st = "none" => h = {}
  /\ st = "listed" => n = Cardinality(h) + 1
  /\ st = "removed" => n = Cardinality(h)
  /\ st = "freed" => h = {}

RefsInv == Alive => \A u \in Ids : Counted(state[u], nref[u], Holders(u))

\* Nobody has a pointer to a user that was never added, and a task has a user.
PointersInv ==
  /\ \A s \in Sessions : user[s] # None => state[user[s]] # "none"
  /\ \A k \in Keys : keyUser[k] # None => state[keyUser[k]] # "none"
  /\ \A t \in Tasks : taskUser[t] # None => state[taskUser[t]] # "none"
  /\ \A t \in taskTable : taskUser[t] # None

\* What the thread of a listing knows of the session it is at: the user it read is
\* the session's unless the session changes its user meanwhile.
ListingAt(s) ==
  /\ pc[via[s]] # "off" /\ user[via[s]] # None
  /\ s \notin shifted => pc[via[s]] # "swap" /\ (pc[s] # "read" => user[via[s]] = loc[s])

\* What a thread knows of the user it has found, by the way it was found and
\* the lock the thread holds.
FoundAt(s) ==
  /\ pc[s] = "call" => user[s] # None
  /\ pc[s] \in Authorizing =>
       /\ loc[s] # None /\ state[loc[s]] # "none"
       /\ via[s] \in {"login", "key"}
       /\ via[s] = "login" => Listed(loc[s])
  /\ Reading(s) =>
       /\ pc[s] # "read" => loc[s] # None /\ state[loc[s]] # "none"
       /\ pc[s] \in {"copy", "torn"} => src[s] # None /\ ((via[s] \in Sessions /\ s \in shifted) \/ src[s] = loc[s])
       /\ via[s] \in Sessions \cup {"self", "keys", "tasks"}
       /\ pc[s] \in {"read", "name"} => via[s] \in Sessions
       /\ via[s] = "self" => user[s] = loc[s]
       /\ via[s] = "keys" => \E k \in Keys : keyUser[k] = loc[s]
       /\ via[s] = "tasks" => \E t \in taskTable : taskUser[t] = loc[s]
       /\ via[s] \in Sessions => ListingAt(s)

FoundInv == \A s \in Sessions : FoundAt(s)

\* A rename has the writer lock for itself, and the database has its new name.
RenameInv ==
  /\ \A s \in Sessions : pc[s] \in Renaming =>
       /\ loc[s] # None /\ Listed(loc[s])
       /\ via[s] \in Names /\ dbUser[loc[s]].name = via[s]
  /\ \A s, t \in Sessions : pc[s] \in Renaming /\ pc[t] \in Renaming => s = t

\* A name is copied under the user's lock, or the lock was taken twice or let go by
\* another thread.
Inside == {"name", "copy"}

SpinInv ==
  /\ \A s \in Sessions : pc[s] \in Inside => spin[loc[s]] \/ loc[s] \in doubled
  /\ \A s \in Sessions : pc[s] = "torn" /\ src[s] = loc[s] => loc[s] \in doubled
  /\ \A s, t \in Sessions :
       s # t /\ pc[s] \in Inside /\ pc[t] \in Inside /\ loc[s] = loc[t] => loc[s] \in doubled

IInv ==
  /\ TypeInv /\ RefsInv /\ PointersInv /\ FoundInv /\ RenameInv /\ SpinInv
  /\ AuthorityStored /\ FaultsKnown

-----------------------------------------------------------------------------
(* Counts of references.                                                   *)

LEMMA HoldersFinite ==
  ASSUME NEW u
  PROVE  IsFiniteSet(Holders(u)) /\ Cardinality(Holders(u)) \in Nat
<1>1. IsFiniteSet((Sessions \cup Keys) \cup Tasks)
  BY SetsAssumption, FS_Union
<1>2. Holders(u) \subseteq (Sessions \cup Keys) \cup Tasks
  BY DEF Holders
<1>q. QED
  BY <1>1, <1>2, FS_Subset, FS_CardinalityType

LEMMA HoldersFiniteNext ==
  ASSUME NEW u
  PROVE  IsFiniteSet(Holders(u)') /\ Cardinality(Holders(u)') \in Nat
<1>1. IsFiniteSet((Sessions \cup Keys) \cup Tasks)
  BY SetsAssumption, FS_Union
<1>2. Holders(u)' \subseteq (Sessions \cup Keys) \cup Tasks
  BY DEF Holders
<1>q. QED
  BY <1>1, <1>2, FS_Subset, FS_CardinalityType

\* What mbb_user_unref does to the users when nobody drops one.
Kept ==
  /\ state' \in [Ids -> States]
  /\ name' \in [Ids -> Names \cup {None}]
  /\ secret' \in [Ids -> BOOLEAN]
  /\ nref' \in [Ids -> Int]
  /\ \A u \in Ids :
       /\ state[u] # "removed" => state'[u] = state[u]
       /\ state[u] = "removed" => state'[u] \in {"removed", "freed"}
       /\ state[u] = "listed" => name'[u] = name[u] /\ secret'[u] = secret[u]

\* Counts that are right for the holders to come give users that are right.
LEMMA Settled ==
  ASSUME TypeInv, NEW counts \in [Ids -> Int], Settle(counts, state),
         \A u \in Ids : Counted(state[u], counts[u], Holders(u)')
  PROVE  Kept /\ RefsInv'
<1> DEFINE freed == {u \in Ids : state[u] \in {"listed", "removed"} /\ counts[u] = 0}
<1>1. \A u \in Ids : state[u] = "listed" => u \notin freed
  <2> SUFFICES ASSUME NEW u \in Ids, state[u] = "listed" PROVE counts[u] # 0
    OBVIOUS
  <2>q. QED
    BY HoldersFiniteNext DEF Counted
<1>2. \A u \in Ids : u \in freed => state[u] = "removed" /\ counts[u] = 0
  BY <1>1
<1>3. /\ nref' = counts
      /\ state' = [u \in Ids |-> IF u \in freed THEN "freed" ELSE state[u]]
      /\ name' = [u \in Ids |-> IF u \in freed THEN None ELSE name[u]]
      /\ secret' = [u \in Ids |-> IF u \in freed THEN FALSE ELSE secret[u]]
  BY DEF Settle
<1> HIDE DEF freed
<1>4. secret' \in [Ids -> BOOLEAN]
  BY <1>3 DEF TypeInv
<1>5. Kept
  BY <1>1, <1>2, <1>3, <1>4 DEF Kept, TypeInv, States
<1>6. ASSUME NEW u \in Ids PROVE Counted(state'[u], nref'[u], Holders(u)')
  <2>1. CASE u \in freed
    <3>1. Cardinality(Holders(u)') = 0
      BY <1>2, <2>1 DEF Counted
    <3>2. Holders(u)' = {}
      BY <3>1, HoldersFiniteNext, FS_EmptySet
    <3>q. QED
      BY <1>3, <2>1, <3>2 DEF Counted
  <2>2. CASE u \notin freed
    BY <1>3, <2>2 DEF Counted
  <2>q. QED
    BY <2>1, <2>2
<1>q. QED
  BY <1>5, <1>6 DEF RefsInv

\* A count that moves with the number of the holders stays right.
LEMMA Moved ==
  ASSUME NEW st, NEW n \in Int, NEW m \in Int, NEW h, NEW g,
         Cardinality(h) \in Nat, Cardinality(g) \in Nat, m - Cardinality(g) = n - Cardinality(h),
         st \in {"none", "freed"} /\ h = {} => g = {}, Counted(st, n, h)
  PROVE  Counted(st, m, g)
<1> DEFINE a == Cardinality(h)
           b == Cardinality(g)
<1>1. a \in Int /\ b \in Int /\ m - b = n - a
  OBVIOUS
<1>2. (n = a + 1 => m = b + 1) /\ (n = a => m = b)
  <2> HIDE DEF a, b
  <2>q. QED
    BY <1>1
<1>q. QED
  BY <1>2 DEF Counted

\* Holders that let go take their references with them.
LEMMA LetGo ==
  ASSUME TypeInv, RefsInv, Alive, NEW gone, NEW of, Settle(Without(nref, gone, of), state),
         \A u \in Ids : {h \in gone : of[h] = u} = Holders(u) \cap gone,
         \A u \in Ids : Holders(u)' = Holders(u) \ gone
  PROVE  Kept /\ RefsInv'
<1> DEFINE counts == Without(nref, gone, of)
<1>1. ASSUME NEW u \in Ids
      PROVE  /\ counts[u] = nref[u] - Cardinality(Holders(u) \cap gone)
             /\ Cardinality(Holders(u) \cap gone) \in Nat
             /\ Cardinality(Holders(u)') = Cardinality(Holders(u)) - Cardinality(Holders(u) \cap gone)
  <2>1. counts[u] = nref[u] - Cardinality({h \in gone : of[h] = u})
    BY DEF Without
  <2>2. IsFiniteSet(Holders(u) \cap gone)
    <3>1. Holders(u) \cap gone \in SUBSET Holders(u)
      OBVIOUS
    <3>q. QED
      BY <3>1, HoldersFinite, FS_Subset
  <2>q. QED
    BY <2>1, <2>2, HoldersFinite, FS_Difference, FS_CardinalityType
<1>2. counts \in [Ids -> Int]
  <2>1. counts = [u \in Ids |-> counts[u]]
    BY DEF Without
  <2> HIDE DEF counts
  <2>2. ASSUME NEW u \in Ids PROVE counts[u] \in Int
    <3>1. nref[u] \in Int
      BY DEF TypeInv
    <3>2. Cardinality(Holders(u) \cap gone) \in Nat
      BY <1>1
    <3>3. counts[u] = nref[u] - Cardinality(Holders(u) \cap gone)
      BY <1>1
    <3>q. QED
      BY <3>1, <3>2, <3>3
  <2>q. QED
    BY <2>1, <2>2
<1>3. Settle(counts, state)
  OBVIOUS
<1> HIDE DEF counts
<1>4. ASSUME NEW u \in Ids PROVE Counted(state[u], counts[u], Holders(u)')
  <2>1. Counted(state[u], nref[u], Holders(u))
    BY DEF RefsInv
  <2>2. nref[u] \in Int /\ Cardinality(Holders(u)) \in Nat
    BY HoldersFinite DEF TypeInv
  <2>3. Holders(u) = {} => Holders(u)' = {}
    OBVIOUS
  <2>4. /\ counts[u] = nref[u] - Cardinality(Holders(u) \cap gone)
        /\ Cardinality(Holders(u) \cap gone) \in Nat
        /\ Cardinality(Holders(u)') = Cardinality(Holders(u)) - Cardinality(Holders(u) \cap gone)
    BY <1>1
  <2>5. counts[u] - Cardinality(Holders(u)') = nref[u] - Cardinality(Holders(u))
    BY <2>2, <2>4
  <2>6. counts[u] \in Int /\ Cardinality(Holders(u)') \in Nat
    BY <1>2, HoldersFiniteNext
  <2>q. QED
    BY <2>1, <2>2, <2>3, <2>5, <2>6, Moved
<1>q. QED
  BY <1>2, <1>3, <1>4, Settled

LEMMA QuitRefs ==
  ASSUME TypeInv, RefsInv, Alive, NEW s \in Sessions, Quit(s)
  PROVE  Kept /\ RefsInv'
<1>1. Settle(Without(nref, {s}, user), state)
  BY DEF Quit
<1>2. \A u \in Ids : {h \in {s} : user[h] = u} = Holders(u) \cap {s}
  BY SetsAssumption DEF Quit, Holders
<1>3. \A u \in Ids : Holders(u)' = Holders(u) \ {s}
  BY SetsAssumption DEF Quit, Goto, keyVars, taskVars, Holders, TypeInv, Ids
<1>q. QED
  BY <1>1, <1>2, <1>3, LetGo

LEMMA AuthUnrefRefs ==
  ASSUME TypeInv, RefsInv, Alive, NEW s \in Sessions, AuthUnref(s)
  PROVE  Kept /\ RefsInv'
<1>1. Settle(Without(nref, {s}, user), state)
  BY DEF AuthUnref
<1>2. \A u \in Ids : {h \in {s} : user[h] = u} = Holders(u) \cap {s}
  BY SetsAssumption DEF AuthUnref, Holders
<1>3. \A u \in Ids : Holders(u)' = Holders(u) \ {s}
  BY SetsAssumption DEF AuthUnref, Goto, keyVars, taskVars, Holders, TypeInv
<1>q. QED
  BY <1>1, <1>2, <1>3, LetGo

LEMMA DropKeysRefs ==
  ASSUME TypeInv, RefsInv, Alive, NEW gone \in SUBSET Keys, DropKeys(gone), UNCHANGED <<user, taskUser>>,
         \A s \in Sessions : pc'[s] = "swap" <=> pc[s] = "swap"
  PROVE  Kept /\ RefsInv'
<1>1. Settle(Without(nref, gone, keyUser), state)
  BY DEF DropKeys
<1>2. \A u \in Ids : {h \in gone : keyUser[h] = u} = Holders(u) \cap gone
  BY SetsAssumption DEF Holders
<1>3. \A u \in Ids : Holders(u)' = Holders(u) \ gone
  BY SetsAssumption DEF DropKeys, Holders, TypeInv, Ids
<1>q. QED
  BY <1>1, <1>2, <1>3, LetGo

\* The thread's step to a key or away from one: AuthKey, ShowAuthKeys, DropAuthKey.
LEMMA KeySwaps ==
  ASSUME TypeInv, NEW s \in Sessions, pc[s] # "swap", NEW where, NEW u, NEW why,
         Goto(s, where, u, why) \/ UNCHANGED threadVars, where # "swap"
  PROVE  \A t \in Sessions : pc'[t] = "swap" <=> pc[t] = "swap"
  BY DEF Goto, threadVars, TypeInv

LEMMA AuthKeyRefs ==
  ASSUME TypeInv, RefsInv, Alive, NEW s \in Sessions, NEW k \in Keys, NEW old \in SUBSET Keys,
         AuthKey(s, k, old)
  PROVE  Kept /\ RefsInv'
  BY DropKeysRefs, KeySwaps DEF AuthKey, taskVars

LEMMA ShowAuthKeysRefs ==
  ASSUME TypeInv, RefsInv, Alive, NEW s \in Sessions, NEW k \in Keys, NEW old \in SUBSET Keys,
         ShowAuthKeys(s, k, old)
  PROVE  Kept /\ RefsInv'
  BY DropKeysRefs, KeySwaps DEF ShowAuthKeys, Calls, Done, taskVars

LEMMA DropAuthKeyRefs ==
  ASSUME TypeInv, RefsInv, Alive, NEW s \in Sessions, NEW k \in Keys, NEW old \in SUBSET Keys,
         DropAuthKey(s, k, old)
  PROVE  Kept /\ RefsInv'
<1>1. old \cup {k} \in SUBSET Keys
  OBVIOUS
<1>q. QED
  BY <1>1, DropKeysRefs, KeySwaps DEF DropAuthKey, Calls, Done, taskVars

\* A user that somebody holds is there.
LEMMA Held ==
  ASSUME TypeInv, RefsInv, Alive, NEW u \in Ids, NEW h \in Holders(u)
  PROVE  state[u] \in {"listed", "removed"}
  BY DEF RefsInv, Counted, TypeInv, States

LEMMA GetAuthKeyRefs ==
  ASSUME TypeInv, RefsInv, Alive, FoundInv, NEW s \in Sessions, NEW k \in Keys, NEW old \in SUBSET Keys,
         GetAuthKey(s, k, old)
  PROVE  Kept /\ RefsInv'
<1> DEFINE counts == Without(KeyRef(s), old, keyUser)
<1>1. user[s] \in Ids /\ s \in Holders(user[s])
  BY DEF GetAuthKey, Calls, FoundInv, FoundAt, TypeInv, Holders
<1>2. \A u \in Ids : KeyRef(s)[u] = IF u = user[s] THEN nref[u] + 1 ELSE nref[u]
  BY <1>1 DEF KeyRef, TypeInv
<1>3. \A u \in Ids : Holders(u)' = IF u = user[s] THEN (Holders(u) \ old) \cup {k} ELSE Holders(u) \ old
  BY <1>1, SetsAssumption DEF GetAuthKey, Calls, Done, Goto, Holders, TypeInv, Ids, taskVars
<1>4. ASSUME NEW u \in Ids
      PROVE  /\ counts[u] = KeyRef(s)[u] - Cardinality(Holders(u) \cap old)
             /\ Cardinality(Holders(u) \cap old) \in Nat
             /\ IsFiniteSet(Holders(u) \ old)
             /\ Cardinality(Holders(u) \ old) = Cardinality(Holders(u)) - Cardinality(Holders(u) \cap old)
  <2>1. {h \in old : keyUser[h] = u} = Holders(u) \cap old
    BY SetsAssumption DEF Holders
  <2>2. IsFiniteSet(Holders(u) \cap old)
    <3>1. Holders(u) \cap old \in SUBSET Holders(u)
      OBVIOUS
    <3>q. QED
      BY <3>1, HoldersFinite, FS_Subset
  <2>3. counts[u] = KeyRef(s)[u] - Cardinality({h \in old : keyUser[h] = u})
    BY DEF Without
  <2>q. QED
    BY <2>1, <2>2, <2>3, HoldersFinite, FS_Difference, FS_CardinalityType
<1>5. counts \in [Ids -> Int]
  <2>1. counts = [u \in Ids |-> counts[u]]
    BY DEF Without
  <2> HIDE DEF counts
  <2>2. ASSUME NEW u \in Ids PROVE counts[u] \in Int
    <3>1. KeyRef(s)[u] \in Int
      BY <1>2 DEF TypeInv
    <3>2. /\ Cardinality(Holders(u) \cap old) \in Nat
          /\ counts[u] = KeyRef(s)[u] - Cardinality(Holders(u) \cap old)
      BY <1>4
    <3>q. QED
      BY <3>1, <3>2
  <2>q. QED
    BY <2>1, <2>2
<1>6. Settle(counts, state)
  BY DEF GetAuthKey
<1> HIDE DEF counts
<1>7. ASSUME NEW u \in Ids PROVE Counted(state[u], counts[u], Holders(u)')
  <2>1. Counted(state[u], nref[u], Holders(u))
    BY DEF RefsInv
  <2>2. nref[u] \in Int /\ Cardinality(Holders(u)) \in Nat
    BY HoldersFinite DEF TypeInv
  <2>3. counts[u] \in Int /\ Cardinality(Holders(u)') \in Nat
    BY <1>5, HoldersFiniteNext
  <2>4. /\ counts[u] = KeyRef(s)[u] - Cardinality(Holders(u) \cap old)
        /\ Cardinality(Holders(u) \cap old) \in Nat
        /\ Cardinality(Holders(u) \ old) = Cardinality(Holders(u)) - Cardinality(Holders(u) \cap old)
    BY <1>4
  <2>5. CASE u = user[s]
    <3>1. k \notin Holders(u) \ old
      BY <1>1, <2>5, SetsAssumption DEF GetAuthKey, Holders, Ids
    <3>2. Cardinality(Holders(u)') = Cardinality(Holders(u) \ old) + 1
      <4>1. Holders(u)' = (Holders(u) \ old) \cup {k}
        BY <1>3, <2>5
      <4>q. QED
        BY <1>4, <3>1, <4>1, FS_AddElement
    <3>3. state[u] \in {"listed", "removed"}
      BY <1>1, <2>5, Held
    <3>4. KeyRef(s)[u] = nref[u] + 1
      BY <1>2, <2>5
    <3>5. counts[u] - Cardinality(Holders(u)') = nref[u] - Cardinality(Holders(u))
      BY <2>2, <2>4, <3>2, <3>4
    <3>q. QED
      BY <2>1, <2>2, <2>3, <3>3, <3>5, Moved
  <2>6. CASE u # user[s]
    <3>1. Holders(u)' = Holders(u) \ old
      BY <1>3, <2>6
    <3>2. KeyRef(s)[u] = nref[u]
      BY <1>2, <2>6
    <3>3. counts[u] - Cardinality(Holders(u)') = nref[u] - Cardinality(Holders(u))
      BY <2>2, <2>4, <3>1, <3>2
    <3>4. Holders(u) = {} => Holders(u)' = {}
      BY <3>1
    <3>q. QED
      BY <2>1, <2>2, <2>3, <3>3, <3>4, Moved
  <2>q. QED
    BY <2>5, <2>6
<1>q. QED
  BY <1>5, <1>6, <1>7, Settled

\* mbb_user_remove lets the table's reference go.
LEMMA DropUserRefs ==
  ASSUME TypeInv, RefsInv, Alive, NEW s \in Sessions, NEW u \in Ids, DropUser(s, u)
  PROVE  /\ RefsInv'
         /\ state' \in [Ids -> States] /\ name' \in [Ids -> Names \cup {None}]
         /\ secret' \in [Ids -> BOOLEAN] /\ nref' \in [Ids -> Int]
         /\ state'[u] \in {"removed", "freed"}
         /\ \A v \in Ids : v # u =>
              /\ state[v] # "removed" => state'[v] = state[v]
              /\ state[v] = "removed" => state'[v] \in {"removed", "freed"}
              /\ state[v] = "listed" => name'[v] = name[v] /\ secret'[v] = secret[v]
<1> DEFINE counts == [nref EXCEPT ![u] = @ - 1]
           stay == [state EXCEPT ![u] = "removed"]
           freed == {v \in Ids : state[v] \in {"listed", "removed"} /\ counts[v] = 0}
<1>1. \A v \in Ids : Holders(v)' = Holders(v)
  BY DEF DropUser, Calls, Done, Goto, keyVars, taskVars, Holders, TypeInv
<1>2. \A v \in Ids : Counted(stay[v], counts[v], Holders(v)) /\ (state[v] = "listed" /\ v # u => counts[v] # 0)
  <2> SUFFICES ASSUME NEW v \in Ids
               PROVE  Counted(stay[v], counts[v], Holders(v)) /\ (state[v] = "listed" /\ v # u => counts[v] # 0)
    OBVIOUS
  <2>1. Counted(state[v], nref[v], Holders(v)) /\ nref[v] \in Int /\ Cardinality(Holders(v)) \in Nat
    BY HoldersFinite DEF RefsInv, TypeInv
  <2>2. v = u => stay[v] = "removed" /\ counts[v] = nref[v] - 1 /\ state[v] = "listed"
    BY DEF TypeInv, DropUser, Listed
  <2>3. v # u => stay[v] = state[v] /\ counts[v] = nref[v]
    BY DEF TypeInv
  <2> HIDE DEF stay, counts
  <2>q. QED
    BY <2>1, <2>2, <2>3 DEF Counted
<1>3. /\ nref' = counts
      /\ state' = [v \in Ids |-> IF v \in freed THEN "freed" ELSE stay[v]]
      /\ name' = [v \in Ids |-> IF v \in freed THEN None ELSE name[v]]
      /\ secret' = [v \in Ids |-> IF v \in freed THEN FALSE ELSE secret[v]]
  BY DEF DropUser, UserRemove, Settle
<1>4. \A v \in Ids : v \in freed => stay[v] = "removed" /\ counts[v] = 0
  BY <1>2 DEF TypeInv
<1>5. counts \in [Ids -> Int] /\ stay \in [Ids -> States]
  BY DEF TypeInv, States
<1>6. \A v \in Ids : v # u => stay[v] = state[v]
  BY DEF TypeInv
<1>7. stay[u] = "removed"
  BY DEF TypeInv
<1> HIDE DEF counts, stay, freed
<1>8. ASSUME NEW v \in Ids PROVE Counted(state'[v], nref'[v], Holders(v)')
  <2>1. CASE v \in freed
    <3>1. Cardinality(Holders(v)) = 0
      BY <1>2, <1>4, <2>1 DEF Counted
    <3>2. Holders(v) = {}
      BY <3>1, HoldersFinite, FS_EmptySet
    <3>q. QED
      BY <1>1, <1>3, <2>1, <3>2 DEF Counted
  <2>2. CASE v \notin freed
    BY <1>1, <1>2, <1>3, <2>2 DEF Counted
  <2>q. QED
    BY <2>1, <2>2
<1>9. secret' \in [Ids -> BOOLEAN]
  BY <1>3 DEF TypeInv
<1>10. state' \in [Ids -> States] /\ name' \in [Ids -> Names \cup {None}] /\ nref' \in [Ids -> Int]
  BY <1>3, <1>5 DEF TypeInv, States
<1>q. QED
  BY <1>3, <1>4, <1>6, <1>7, <1>8, <1>9, <1>10 DEF RefsInv

LEMMA AuthRefRefs ==
  ASSUME TypeInv, RefsInv, Alive, FoundInv, NEW s \in Sessions, AuthRef(s)
  PROVE  RefsInv'
<1>1. PICK u \in Ids : u = loc[s]
  BY DEF AuthRef, FoundInv, FoundAt, Authorizing, TypeInv
<1>2. state[u] \in {"listed", "removed"}
  BY <1>1 DEF AuthRef, FoundInv, FoundAt, Authorizing, States, TypeInv
<1>3. Holders(u)' = Holders(u) \cup {s} /\ s \notin Holders(u)
  BY <1>1, SetsAssumption DEF AuthRef, Done, Goto, Holders, TypeInv, keyVars, taskVars
<1>4. \A v \in Ids : v # u => Holders(v)' = Holders(v)
  BY <1>1, SetsAssumption DEF AuthRef, Done, Goto, Holders, TypeInv, keyVars, taskVars
<1>5. UNCHANGED state /\ nref' = [nref EXCEPT ![u] = @ + 1]
  BY <1>1 DEF AuthRef
<1>6. ASSUME NEW v \in Ids PROVE Counted(state'[v], nref'[v], Holders(v)')
  <2>1. Counted(state[v], nref[v], Holders(v)) /\ nref[v] \in Int
    BY DEF RefsInv, TypeInv
  <2>2. CASE v = u
    <3>1. nref'[v] = nref[v] + 1
      BY <1>5, <2>2 DEF TypeInv
    <3>2. Cardinality(Holders(v)') = Cardinality(Holders(v)) + 1
      BY <1>3, <2>2, HoldersFinite, FS_AddElement
    <3>3. Cardinality(Holders(v)) \in Nat /\ Cardinality(Holders(v)') \in Nat
      BY HoldersFinite, HoldersFiniteNext
    <3>4. nref'[v] - Cardinality(Holders(v)') = nref[v] - Cardinality(Holders(v)) /\ nref'[v] \in Int
      BY <2>1, <3>1, <3>2, <3>3
    <3>5. Counted(state[v], nref'[v], Holders(v)')
      BY <1>2, <2>1, <2>2, <3>3, <3>4, Moved
    <3>q. QED
      BY <1>5, <3>5
  <2>3. CASE v # u
    BY <1>4, <1>5, <2>1, <2>3 DEF TypeInv
  <2>q. QED
    BY <2>2, <2>3
<1>q. QED
  BY <1>6 DEF RefsInv

\* A task that is made or freed, as a session that takes or leaves a user.
LEMMA TaskNewRefs ==
  ASSUME TypeInv, RefsInv, Alive, FoundInv, NEW s \in Sessions, NEW t \in Tasks, TaskNew(s, t)
  PROVE  RefsInv'
<1>1. PICK u \in Ids : u = user[s]
  BY DEF TaskNew, Calls, FoundInv, FoundAt, TypeInv
<1>2. s \in Holders(u)
  BY <1>1 DEF TaskNew, Calls, Holders
<1>3. Holders(u)' = Holders(u) \cup {t} /\ t \notin Holders(u)
  BY <1>1, SetsAssumption DEF TaskNew, Calls, Done, Goto, Holders, TypeInv, keyVars, Ids
<1>4. \A v \in Ids : v # u => Holders(v)' = Holders(v)
  BY <1>1, SetsAssumption DEF TaskNew, Calls, Done, Goto, Holders, TypeInv, keyVars, Ids
<1>5. UNCHANGED state /\ nref' = [nref EXCEPT ![u] = @ + 1]
  BY <1>1 DEF TaskNew, TaskRef
<1>6. ASSUME NEW v \in Ids PROVE Counted(state'[v], nref'[v], Holders(v)')
  <2>1. Counted(state[v], nref[v], Holders(v)) /\ nref[v] \in Int
    BY DEF RefsInv, TypeInv
  <2>2. CASE v = u
    <3>1. nref'[v] = nref[v] + 1
      BY <1>5, <2>2 DEF TypeInv
    <3>2. Cardinality(Holders(v)') = Cardinality(Holders(v)) + 1
      BY <1>3, <2>2, HoldersFinite, FS_AddElement
    <3>3. Cardinality(Holders(v)) \in Nat /\ Cardinality(Holders(v)') \in Nat
      BY HoldersFinite, HoldersFiniteNext
    <3>4. nref'[v] - Cardinality(Holders(v)') = nref[v] - Cardinality(Holders(v)) /\ nref'[v] \in Int
      BY <2>1, <3>1, <3>2, <3>3
    <3>5. state[v] \in {"listed", "removed"}
      BY <1>2, <2>2, Held
    <3>6. Counted(state[v], nref'[v], Holders(v)')
      BY <2>1, <3>3, <3>4, <3>5, Moved
    <3>q. QED
      BY <1>5, <3>6
  <2>3. CASE v # u
    BY <1>4, <1>5, <2>1, <2>3 DEF TypeInv
  <2>q. QED
    BY <2>2, <2>3
<1>q. QED
  BY <1>6 DEF RefsInv

LEMMA TaskUnrefRefs ==
  ASSUME TypeInv, RefsInv, Alive, NEW t \in Tasks, TaskUnref(t)
  PROVE  Kept /\ RefsInv'
<1>1. Settle(Without(nref, {t}, taskUser), state)
  BY DEF TaskUnref
<1>2. \A u \in Ids : {h \in {t} : taskUser[h] = u} = Holders(u) \cap {t}
  BY SetsAssumption DEF Holders
<1>3. \A u \in Ids : Holders(u)' = Holders(u) \ {t}
  BY SetsAssumption DEF TaskUnref, keyVars, threadVars, Holders, TypeInv, Ids
<1>q. QED
  BY <1>1, <1>2, <1>3, LetGo

(* The parts of the invariant, step by step.                                *)

\* The database has a row for a listed user.
LEMMA RowOf ==
  ASSUME TypeInv, RenameInv, AuthorityStored, NEW u \in Ids, Listed(u)
  PROVE  /\ dbUser[u] = Row(dbUser[u].name, secret[u])
         /\ dbUser[u].name \in Names \cup {None} /\ secret[u] \in BOOLEAN
<1>1. secret[u] \in BOOLEAN
  BY DEF TypeInv
<1>2. CASE \E s \in Sessions : pc[s] \in {"wspin", "wtake"} /\ loc[s] = u
  BY <1>1, <1>2 DEF AuthorityStored, RenameInv, Renaming
<1>3. CASE ~ \E s \in Sessions : pc[s] \in {"wspin", "wtake"} /\ loc[s] = u
  <2>1. dbUser[u] = Row(name[u], secret[u])
    BY <1>3 DEF AuthorityStored
  <2>2. dbUser[u].name = name[u]
    BY <2>1 DEF Row
  <2>3. name[u] \in Names \cup {None}
    BY DEF TypeInv
  <2>q. QED
    BY <1>1, <2>1, <2>2, <2>3
<1>q. QED
  BY <1>2, <1>3

LEMMA RowUpdate ==
  ASSUME TypeInv, RenameInv, AuthorityStored, NEW u \in Ids, Listed(u), NEW x
  PROVE  /\ [dbUser[u] EXCEPT !.secret = x] = Row(dbUser[u].name, x)
         /\ [dbUser[u] EXCEPT !.name = x] = Row(x, secret[u])
<1>1. dbUser[u] = [name |-> dbUser[u].name, secret |-> secret[u]]
  BY RowOf DEF Row
<1>2. PICK a, b : dbUser[u] = [name |-> a, secret |-> b] /\ a = dbUser[u].name /\ b = secret[u]
  BY <1>1
<1>q. QED
  BY <1>2 DEF Row

LEMMA TypeStep ==
  ASSUME IInv, [Next]_vars PROVE TypeInv'
<1> USE DEF IInv, TypeInv, PCs, States, Renaming, Authorizing, userVars, groupVars, keyVars, taskVars, threadVars
<1>a. ASSUME Next PROVE Alive
  BY <1>a DEF Next
<1>1. ASSUME Alive, NEW s \in Sessions, NEW p \in Peers, Connect(s, p) PROVE TypeInv'
  BY <1>1 DEF Connect, Done, Goto
<1>2. ASSUME Alive, NEW s \in Sessions, Quit(s) PROVE TypeInv'
  BY <1>2, QuitRefs DEF Quit, Goto, Kept
<1>3. ASSUME Alive, NEW s \in Sessions, NEW u \in Ids, AuthPlain(s, u) PROVE TypeInv'
  BY <1>3 DEF AuthPlain, Goto
<1>4. ASSUME Alive, NEW s \in Sessions, NEW u \in Ids, AuthModule(s, u) PROVE TypeInv'
  BY <1>4 DEF AuthModule, Goto
<1>5. ASSUME Alive, NEW s \in Sessions, NEW k \in Keys, NEW old \in SUBSET Keys, AuthKey(s, k, old) PROVE TypeInv'
  BY <1>5, AuthKeyRefs DEF AuthKey, DropKeys, Goto, threadVars, Kept
<1>6. ASSUME Alive, NEW s \in Sessions, AuthUnref(s) PROVE TypeInv'
  BY <1>6, AuthUnrefRefs DEF AuthUnref, ListingsOf, Kept
<1>7. ASSUME Alive, NEW s \in Sessions, AuthRef(s) PROVE TypeInv'
  BY <1>7 DEF AuthRef, Done, Goto, FoundInv, FoundAt
<1>8. ASSUME Alive, NEW s \in Sessions, NEW c \in DOMAIN CapMask, FuncCall(s, c) PROVE TypeInv'
  BY <1>8 DEF FuncCall, Goto
<1>9. ASSUME Alive, NEW s \in Sessions, Refused(s) PROVE TypeInv'
  BY <1>9 DEF Refused, Done, Goto
<1>10. ASSUME Alive, NEW s \in Sessions, NEW n \in Names, NEW p \in Secrets, AddUser(s, n, p) PROVE TypeInv'
  <2> PICK u \in Ids :
        /\ dbUser' = [dbUser EXCEPT ![u] = Row(n, p)]
        /\ state' = [state EXCEPT ![u] = "listed"]
        /\ name' = [name EXCEPT ![u] = n]
        /\ secret' = [secret EXCEPT ![u] = p]
        /\ nref' = [nref EXCEPT ![u] = 1]
    BY <1>10 DEF AddUser
  <2>0. p \in BOOLEAN
    BY <1>10, MaxIdAssumption
  <2>1. secret' \in [Ids -> BOOLEAN]
    BY <2>0
  <2>2. dbUser' \in [Ids -> [name : Names \cup {None}, secret : BOOLEAN] \cup {None}]
    BY <2>0 DEF Row
  <2>3. /\ state' \in [Ids -> States] /\ name' \in [Ids -> Names \cup {None}]
        /\ nref' \in [Ids -> Int]
    OBVIOUS
  <2>q. QED
    BY <1>10, <2>1, <2>2, <2>3 DEF AddUser, Calls, Done, Goto
<1>11. ASSUME Alive, NEW s \in Sessions, NEW u \in Ids, DropUser(s, u) PROVE TypeInv'
  BY <1>11, DropUserRefs DEF DropUser, UserRemove, UserDetach, Calls, Done, Goto
<1>12. ASSUME Alive, NEW s \in Sessions, NEW u \in Ids, NEW p \in Secrets, UserModPass(s, u, p) PROVE TypeInv'
  <2>0. p \in BOOLEAN
    BY <1>12, MaxIdAssumption
  <2>1. secret' \in [Ids -> BOOLEAN]
    BY <1>12, <2>0 DEF UserModPass, ChangePass
  <2>2. dbUser' = [dbUser EXCEPT ![u] = Row(dbUser[u].name, p)] /\ dbUser[u].name \in Names \cup {None}
    <3>1. dbUser[u] = Row(dbUser[u].name, secret[u]) /\ dbUser[u].name \in Names \cup {None}
      BY <1>12, RowOf DEF UserModPass
    <3>2. [dbUser[u] EXCEPT !.secret = p] = Row(dbUser[u].name, p)
      BY <1>12, RowUpdate DEF UserModPass
    <3>q. QED
      BY <1>12, <3>1, <3>2 DEF UserModPass, ChangePass
  <2>3. dbUser' \in [Ids -> [name : Names \cup {None}, secret : BOOLEAN] \cup {None}]
    BY <1>12, <2>0, <2>2 DEF Row
  <2>q. QED
    BY <1>12, <2>1, <2>3 DEF UserModPass, Calls, Done, Goto
<1>13. ASSUME Alive, NEW s \in Sessions, NEW p \in Secrets, NEW knows \in BOOLEAN, SelfModPass(s, p, knows) PROVE TypeInv'
  <2>0. user[s] \in Ids /\ p \in BOOLEAN
    BY <1>13, MaxIdAssumption DEF SelfModPass
  <2>1. secret' \in [Ids -> BOOLEAN]
    BY <1>13, <2>0 DEF SelfModPass, ChangePass
  <2>2. dbUser' = [dbUser EXCEPT ![user[s]] = Row(dbUser[user[s]].name, p)] /\ dbUser[user[s]].name \in Names \cup {None}
    <3>1. dbUser[user[s]] = Row(dbUser[user[s]].name, secret[user[s]]) /\ dbUser[user[s]].name \in Names \cup {None}
      BY <1>13, <2>0, RowOf DEF SelfModPass
    <3>2. [dbUser[user[s]] EXCEPT !.secret = p] = Row(dbUser[user[s]].name, p)
      BY <1>13, <2>0, RowUpdate DEF SelfModPass
    <3>q. QED
      BY <1>13, <2>0, <3>1, <3>2 DEF SelfModPass, ChangePass
  <2>3. dbUser' \in [Ids -> [name : Names \cup {None}, secret : BOOLEAN] \cup {None}]
    BY <1>13, <2>0, <2>2 DEF Row
  <2>q. QED
    BY <1>13, <2>1, <2>3 DEF SelfModPass, Calls, Done, Goto
<1>14. ASSUME Alive, NEW s \in Sessions, NEW g \in Groups, NEW u \in Ids, GroupAddUser(s, g, u) PROVE TypeInv'
  BY <1>14 DEF GroupAddUser, Calls, Done, Goto
<1>15. ASSUME Alive, NEW s \in Sessions, NEW g \in Groups, NEW u \in Ids, GroupDelUser(s, g, u) PROVE TypeInv'
  BY <1>15 DEF GroupDelUser, Calls, Done, Goto
<1>16. ASSUME Alive, NEW s \in Sessions, NEW g \in Groups, GroupShowUsers(s, g) PROVE TypeInv'
  BY <1>16 DEF GroupShowUsers, Calls, Done, Goto
<1>17. ASSUME Alive, NEW s \in Sessions, NEW u \in Ids, NEW n \in Names, UserModName(s, u, n) PROVE TypeInv'
  <2>1. dbUser' = [dbUser EXCEPT ![u] = Row(n, secret[u])] /\ secret[u] \in BOOLEAN
    <3>1. dbUser[u] = Row(dbUser[u].name, secret[u]) /\ secret[u] \in BOOLEAN
      BY <1>17, RowOf DEF UserModName
    <3>2. [dbUser[u] EXCEPT !.name = n] = Row(n, secret[u])
      BY <1>17, RowUpdate DEF UserModName
    <3>q. QED
      BY <1>17, <3>1, <3>2 DEF UserModName
  <2>2. dbUser' \in [Ids -> [name : Names \cup {None}, secret : BOOLEAN] \cup {None}]
    BY <1>17, <2>1 DEF Row
  <2>q. QED
    BY <1>17, <2>2 DEF UserModName, Calls, Goto
<1>18. ASSUME Alive, NEW s \in Sessions, LockTest(s) PROVE TypeInv'
  BY <1>18 DEF LockTest
<1>19. ASSUME Alive, NEW s \in Sessions, SwapName(s) PROVE TypeInv'
  <2>1. loc[s] \in Ids /\ via[s] \in Names
    BY <1>19 DEF SwapName, RenameInv
  <2>2. spin' \in [Ids -> BOOLEAN]
    BY <1>19, <2>1 DEF SwapName
  <2>3. doubled' \subseteq Ids
    BY <1>19, <2>1 DEF SwapName, Left, Taken
  <2>4. pc' \in [Sessions -> PCs]
    BY <1>19 DEF SwapName
  <2>q. QED
    BY <1>19, <2>1, <2>2, <2>3, <2>4 DEF SwapName
<1>20. ASSUME Alive, NEW s \in Sessions, NEW other \in Sessions, ShowSessions(s, other) PROVE TypeInv'
  BY <1>20 DEF ShowSessions, Calls
<1>21. ASSUME Alive, NEW s \in Sessions, KillSession(s) PROVE TypeInv'
  BY <1>21 DEF KillSession, Calls, Goto
<1>22. ASSUME Alive, NEW s \in Sessions, NEW k \in Keys, NEW old \in SUBSET Keys, ShowAuthKeys(s, k, old) PROVE TypeInv'
  BY <1>22, ShowAuthKeysRefs DEF ShowAuthKeys, DropKeys, Calls, Done, Goto, Kept
<1>23. ASSUME Alive, NEW s \in Sessions, LockSet(s) PROVE TypeInv'
  <2>1. loc[s] \in Ids
    BY <1>23 DEF LockSet, FoundInv, FoundAt, Reading
  <2>2. spin' \in [Ids -> BOOLEAN]
    BY <1>23, <2>1 DEF LockSet
  <2>3. doubled' \subseteq Ids
    BY <1>23, <2>1 DEF LockSet, Taken
  <2>q. QED
    BY <1>23, <2>1, <2>2, <2>3 DEF LockSet
<1>24. ASSUME Alive, NEW s \in Sessions, CopyName(s) PROVE TypeInv'
  <2>0. Unlocked(s) \in Ids
    BY <1>24 DEF CopyName, Unlocked, FoundInv, FoundAt, ListingAt, Reading
  <2>1. spin' \in [Ids -> BOOLEAN]
    BY <1>24 DEF CopyName
  <2>2. doubled' \subseteq Ids
    BY <1>24, <2>0 DEF CopyName, Left
  <2>q. QED
    BY <1>24, <2>1, <2>2 DEF CopyName, Done, Goto
<1>25. ASSUME Alive, NEW s \in Sessions, Fault(s) PROVE TypeInv'
  BY <1>25 DEF Fault
<1>26. ASSUME Alive, NEW s \in Sessions, NEW k \in Keys, NEW old \in SUBSET Keys, GetAuthKey(s, k, old) PROVE TypeInv'
  BY <1>26, GetAuthKeyRefs DEF GetAuthKey, Calls, Done, Goto, Kept
<1>27. ASSUME Alive, NEW s \in Sessions, NEW k \in Keys, NEW old \in SUBSET Keys, DropAuthKey(s, k, old) PROVE TypeInv'
  BY <1>27, DropAuthKeyRefs DEF DropAuthKey, DropKeys, Calls, Done, Goto, Kept
<1>28. ASSUME Alive, NEW s \in Sessions, LogMessage(s) PROVE TypeInv'
  BY <1>28 DEF LogMessage, Goto
<1>29. ASSUME Alive, NEW s \in Sessions, ReadUser(s) PROVE TypeInv'
  BY <1>29 DEF ReadUser, FoundInv, FoundAt, ListingAt, Reading
<1>30. ASSUME Alive, NEW s \in Sessions, ReadName(s) PROVE TypeInv'
  BY <1>30 DEF ReadName, FoundInv, FoundAt, ListingAt, Reading
<1>31. ASSUME Alive, NEW s \in Sessions, NEW x \in Tasks, ShowTasks(s, x) PROVE TypeInv'
  BY <1>31 DEF ShowTasks, Calls, Goto
<1>32. ASSUME Alive, NEW s \in Sessions, NEW x \in Tasks, TaskNew(s, x) PROVE TypeInv'
  <2>1. nref' \in [Ids -> Int]
    <3>1. user[s] \in Ids
      BY <1>32 DEF TaskNew, Calls, FoundInv, FoundAt
    <3>q. QED
      BY <1>32, <3>1 DEF TaskNew, TaskRef
  <2>q. QED
    BY <1>32, <2>1 DEF TaskNew, Calls, Done, Goto
<1>33. ASSUME Alive, NEW x \in Tasks, TaskRemove(x) PROVE TypeInv'
  BY <1>33 DEF TaskRemove
<1>34. ASSUME Alive, NEW x \in Tasks, TaskUnref(x) PROVE TypeInv'
  BY <1>34, TaskUnrefRefs DEF TaskUnref, Kept
<1>u. CASE UNCHANGED vars
  BY <1>u DEF vars
<1>x. ASSUME Alive, NEW s \in Sessions, Auth(s) PROVE TypeInv'
  BY ONLY <1>x, <1>3, <1>4, <1>5, <1>6, <1>7 DEF Auth
<1>y. ASSUME Alive, NEW s \in Sessions, Manage(s) PROVE TypeInv'
  BY ONLY <1>y, <1>17, <1>10, <1>11, <1>12, <1>13, <1>16, <1>14, <1>15, <1>26, <1>27 DEF Manage
<1>z. ASSUME Alive, NEW s \in Sessions, CopyNames(s) PROVE TypeInv'
  BY ONLY <1>z, <1>20, <1>22, <1>31, <1>21, <1>28, <1>29, <1>30, <1>18, <1>23, <1>24, <1>19 DEF CopyNames
<1>q. QED
  BY ONLY [Next]_vars, <1>a, <1>x, <1>y, <1>z, <1>1, <1>2, <1>8, <1>9, <1>25, <1>32, <1>33, <1>34, <1>u DEF Next

\* A step that leaves references and counts alone.
LEMMA RefsSame ==
  ASSUME RefsInv, Alive, UNCHANGED <<state, nref, user, keyUser, taskUser>>,
         \A t \in Sessions : pc'[t] = "swap" <=> pc[t] = "swap"
  PROVE  RefsInv'
<1>1. \A u \in Ids : Holders(u)' = Holders(u)
  BY DEF Holders
<1>q. QED
  BY <1>1 DEF RefsInv

LEMMA RefsStep ==
  ASSUME IInv, [Next]_vars PROVE RefsInv'
<1> USE DEF IInv, TypeInv, userVars, groupVars, keyVars, taskVars, threadVars
<1>a. ASSUME Next PROVE Alive
  BY <1>a DEF Next
<1>1. ASSUME Alive, NEW s \in Sessions, NEW p \in Peers, Connect(s, p) PROVE RefsInv'
  BY <1>1, RefsSame DEF Connect, Done, Goto
<1>2. ASSUME Alive, NEW s \in Sessions, Quit(s) PROVE RefsInv'
  BY <1>2, QuitRefs
<1>3. ASSUME Alive, NEW s \in Sessions, NEW u \in Ids, AuthPlain(s, u) PROVE RefsInv'
  BY <1>3, RefsSame DEF AuthPlain, Goto
<1>4. ASSUME Alive, NEW s \in Sessions, NEW u \in Ids, AuthModule(s, u) PROVE RefsInv'
  BY <1>4, RefsSame DEF AuthModule, Goto
<1>5. ASSUME Alive, NEW s \in Sessions, NEW k \in Keys, NEW old \in SUBSET Keys, AuthKey(s, k, old) PROVE RefsInv'
  BY <1>5, AuthKeyRefs
<1>6. ASSUME Alive, NEW s \in Sessions, AuthUnref(s) PROVE RefsInv'
  BY <1>6, AuthUnrefRefs
<1>7. ASSUME Alive, NEW s \in Sessions, AuthRef(s) PROVE RefsInv'
  BY <1>7, AuthRefRefs
<1>8. ASSUME Alive, NEW s \in Sessions, NEW c \in DOMAIN CapMask, FuncCall(s, c) PROVE RefsInv'
  BY <1>8, RefsSame DEF FuncCall, Goto
<1>9. ASSUME Alive, NEW s \in Sessions, Refused(s) PROVE RefsInv'
  BY <1>9, RefsSame DEF Refused, Done, Goto
<1>10. ASSUME Alive, NEW s \in Sessions, NEW n \in Names, NEW p \in Secrets, AddUser(s, n, p) PROVE RefsInv'
  <2>1. PICK u \in Ids : state[u] = "none" /\ state' = [state EXCEPT ![u] = "listed"] /\ nref' = [nref EXCEPT ![u] = 1]
    BY <1>10 DEF AddUser
  <2>2. \A v \in Ids : Holders(v)' = Holders(v)
    BY <1>10 DEF AddUser, Calls, Done, Goto, Holders
  <2>3. Holders(u) = {} /\ Cardinality(Holders(u)) = 0
    BY <1>10, <2>1, FS_EmptySet DEF RefsInv, Counted
  <2>4. ASSUME NEW v \in Ids PROVE Counted(state'[v], nref'[v], Holders(v)')
    <3>1. CASE v = u
      <4>1. state'[v] = "listed" /\ nref'[v] = 1 /\ Cardinality(Holders(v)') = 0
        BY <2>1, <2>2, <2>3, <3>1
      <4>q. QED
        BY <4>1 DEF Counted
    <3>2. CASE v # u
      BY <1>10, <2>1, <2>2, <3>2 DEF RefsInv
    <3>q. QED
      BY <3>1, <3>2
  <2>q. QED
    BY <2>4 DEF RefsInv
<1>11. ASSUME Alive, NEW s \in Sessions, NEW u \in Ids, DropUser(s, u) PROVE RefsInv'
  BY <1>11, DropUserRefs
<1>12. ASSUME Alive, NEW s \in Sessions, NEW u \in Ids, NEW p \in Secrets, UserModPass(s, u, p) PROVE RefsInv'
  BY <1>12, RefsSame DEF UserModPass, ChangePass, Calls, Done, Goto
<1>13. ASSUME Alive, NEW s \in Sessions, NEW p \in Secrets, NEW knows \in BOOLEAN, SelfModPass(s, p, knows) PROVE RefsInv'
  BY <1>13, RefsSame DEF SelfModPass, ChangePass, Calls, Done, Goto
<1>14. ASSUME Alive, NEW s \in Sessions, NEW g \in Groups, NEW u \in Ids, GroupAddUser(s, g, u) PROVE RefsInv'
  BY <1>14, RefsSame DEF GroupAddUser, Calls, Done, Goto
<1>15. ASSUME Alive, NEW s \in Sessions, NEW g \in Groups, NEW u \in Ids, GroupDelUser(s, g, u) PROVE RefsInv'
  BY <1>15, RefsSame DEF GroupDelUser, Calls, Done, Goto
<1>16. ASSUME Alive, NEW s \in Sessions, NEW g \in Groups, GroupShowUsers(s, g) PROVE RefsInv'
  <2>1. CASE Done(s)
    BY <1>16, <2>1, RefsSame DEF GroupShowUsers, Calls, Done, Goto
  <2>2. CASE ~ Done(s)
    <3>1. pc'[s] = "fault"
      BY <1>16, <2>2 DEF GroupShowUsers, Goto
    <3>q. QED
      BY <3>1 DEF RefsInv, Alive
  <2>q. QED
    BY <2>1, <2>2
<1>17. ASSUME Alive, NEW s \in Sessions, NEW u \in Ids, NEW n \in Names, UserModName(s, u, n) PROVE RefsInv'
  BY <1>17, RefsSame DEF UserModName, Calls, Goto
<1>18. ASSUME Alive, NEW s \in Sessions, LockTest(s) PROVE RefsInv'
  BY <1>18, RefsSame DEF LockTest
<1>19. ASSUME Alive, NEW s \in Sessions, SwapName(s) PROVE RefsInv'
  BY <1>19, RefsSame DEF SwapName
<1>20. ASSUME Alive, NEW s \in Sessions, NEW other \in Sessions, ShowSessions(s, other) PROVE RefsInv'
  BY <1>20, RefsSame DEF ShowSessions, Calls
<1>21. ASSUME Alive, NEW s \in Sessions, KillSession(s) PROVE RefsInv'
  BY <1>21, RefsSame DEF KillSession, Calls, Goto
<1>22. ASSUME Alive, NEW s \in Sessions, NEW k \in Keys, NEW old \in SUBSET Keys, ShowAuthKeys(s, k, old) PROVE RefsInv'
  BY <1>22, ShowAuthKeysRefs
<1>23. ASSUME Alive, NEW s \in Sessions, LockSet(s) PROVE RefsInv'
  BY <1>23, RefsSame DEF LockSet
<1>24. ASSUME Alive, NEW s \in Sessions, CopyName(s) PROVE RefsInv'
  BY <1>24, RefsSame DEF CopyName, Done, Goto
<1>25. ASSUME Alive, NEW s \in Sessions, Fault(s) PROVE RefsInv'
  BY <1>25 DEF Fault, RefsInv, Alive, TypeInv
<1>26. ASSUME Alive, NEW s \in Sessions, NEW k \in Keys, NEW old \in SUBSET Keys, GetAuthKey(s, k, old) PROVE RefsInv'
  BY <1>26, GetAuthKeyRefs
<1>27. ASSUME Alive, NEW s \in Sessions, NEW k \in Keys, NEW old \in SUBSET Keys, DropAuthKey(s, k, old) PROVE RefsInv'
  BY <1>27, DropAuthKeyRefs
<1>28. ASSUME Alive, NEW s \in Sessions, LogMessage(s) PROVE RefsInv'
  BY <1>28, RefsSame DEF LogMessage, Goto
<1>29. ASSUME Alive, NEW s \in Sessions, ReadUser(s) PROVE RefsInv'
  BY <1>29, RefsSame DEF ReadUser
<1>30. ASSUME Alive, NEW s \in Sessions, ReadName(s) PROVE RefsInv'
  BY <1>30, RefsSame DEF ReadName
<1>31. ASSUME Alive, NEW s \in Sessions, NEW x \in Tasks, ShowTasks(s, x) PROVE RefsInv'
  BY <1>31, RefsSame DEF ShowTasks, Calls, Goto
<1>32. ASSUME Alive, NEW s \in Sessions, NEW x \in Tasks, TaskNew(s, x) PROVE RefsInv'
  BY <1>32, TaskNewRefs
<1>33. ASSUME Alive, NEW x \in Tasks, TaskRemove(x) PROVE RefsInv'
  BY <1>33, RefsSame DEF TaskRemove
<1>34. ASSUME Alive, NEW x \in Tasks, TaskUnref(x) PROVE RefsInv'
  BY <1>34, TaskUnrefRefs
<1>u. CASE UNCHANGED vars
  BY <1>u DEF vars, RefsInv, Holders, Alive
<1>x. ASSUME Alive, NEW s \in Sessions, Auth(s) PROVE RefsInv'
  BY ONLY <1>x, <1>3, <1>4, <1>5, <1>6, <1>7 DEF Auth
<1>y. ASSUME Alive, NEW s \in Sessions, Manage(s) PROVE RefsInv'
  BY ONLY <1>y, <1>17, <1>10, <1>11, <1>12, <1>13, <1>16, <1>14, <1>15, <1>26, <1>27 DEF Manage
<1>z. ASSUME Alive, NEW s \in Sessions, CopyNames(s) PROVE RefsInv'
  BY ONLY <1>z, <1>20, <1>22, <1>31, <1>21, <1>28, <1>29, <1>30, <1>18, <1>23, <1>24, <1>19 DEF CopyNames
<1>q. QED
  BY ONLY [Next]_vars, <1>a, <1>x, <1>y, <1>z, <1>1, <1>2, <1>8, <1>9, <1>25, <1>32, <1>33, <1>34, <1>u DEF Next

\* A user does not come back, and leaves the table only under the writer lock.
Onward ==
  \A u \in Ids :
    /\ state[u] # "none" => state'[u] # "none"
    /\ Listed(u) => state'[u] = "listed" \/ MayWrite

LEMMA OnwardStep ==
  ASSUME IInv, [Next]_vars PROVE Onward
<1> USE DEF IInv, TypeInv, Onward, Listed, userVars, groupVars, keyVars, taskVars, threadVars
<1>a. ASSUME Next PROVE Alive
  BY <1>a DEF Next
<1>1. ASSUME Alive, NEW s \in Sessions, NEW p \in Peers, Connect(s, p) PROVE Onward
  BY <1>1 DEF Connect, Done, Goto
<1>2. ASSUME Alive, NEW s \in Sessions, Quit(s) PROVE Onward
  BY <1>2, QuitRefs DEF Kept
<1>3. ASSUME Alive, NEW s \in Sessions, NEW u \in Ids, AuthPlain(s, u) PROVE Onward
  BY <1>3 DEF AuthPlain, Goto
<1>4. ASSUME Alive, NEW s \in Sessions, NEW u \in Ids, AuthModule(s, u) PROVE Onward
  BY <1>4 DEF AuthModule, Goto
<1>5. ASSUME Alive, NEW s \in Sessions, NEW k \in Keys, NEW old \in SUBSET Keys, AuthKey(s, k, old) PROVE Onward
  BY <1>5, AuthKeyRefs DEF Kept
<1>6. ASSUME Alive, NEW s \in Sessions, AuthUnref(s) PROVE Onward
  BY <1>6, AuthUnrefRefs DEF Kept
<1>7. ASSUME Alive, NEW s \in Sessions, AuthRef(s) PROVE Onward
  BY <1>7 DEF AuthRef, Done, Goto
<1>8. ASSUME Alive, NEW s \in Sessions, NEW c \in DOMAIN CapMask, FuncCall(s, c) PROVE Onward
  BY <1>8 DEF FuncCall, Goto
<1>9. ASSUME Alive, NEW s \in Sessions, Refused(s) PROVE Onward
  BY <1>9 DEF Refused, Done, Goto
<1>10. ASSUME Alive, NEW s \in Sessions, NEW n \in Names, NEW p \in Secrets, AddUser(s, n, p) PROVE Onward
  BY <1>10 DEF AddUser
<1>11. ASSUME Alive, NEW s \in Sessions, NEW u \in Ids, DropUser(s, u) PROVE Onward
  BY <1>11, DropUserRefs DEF DropUser
<1>12. ASSUME Alive, NEW s \in Sessions, NEW u \in Ids, NEW p \in Secrets, UserModPass(s, u, p) PROVE Onward
  BY <1>12 DEF UserModPass, ChangePass, Calls, Done, Goto
<1>13. ASSUME Alive, NEW s \in Sessions, NEW p \in Secrets, NEW knows \in BOOLEAN, SelfModPass(s, p, knows) PROVE Onward
  BY <1>13 DEF SelfModPass, ChangePass, Calls, Done, Goto
<1>14. ASSUME Alive, NEW s \in Sessions, NEW g \in Groups, NEW u \in Ids, GroupAddUser(s, g, u) PROVE Onward
  BY <1>14 DEF GroupAddUser, Calls, Done, Goto
<1>15. ASSUME Alive, NEW s \in Sessions, NEW g \in Groups, NEW u \in Ids, GroupDelUser(s, g, u) PROVE Onward
  BY <1>15 DEF GroupDelUser, Calls, Done, Goto
<1>16. ASSUME Alive, NEW s \in Sessions, NEW g \in Groups, GroupShowUsers(s, g) PROVE Onward
  BY <1>16 DEF GroupShowUsers, Calls, Done, Goto
<1>17. ASSUME Alive, NEW s \in Sessions, NEW u \in Ids, NEW n \in Names, UserModName(s, u, n) PROVE Onward
  BY <1>17 DEF UserModName, Calls, Goto
<1>18. ASSUME Alive, NEW s \in Sessions, LockTest(s) PROVE Onward
  BY <1>18 DEF LockTest
<1>19. ASSUME Alive, NEW s \in Sessions, SwapName(s) PROVE Onward
  BY <1>19 DEF SwapName
<1>20. ASSUME Alive, NEW s \in Sessions, NEW other \in Sessions, ShowSessions(s, other) PROVE Onward
  BY <1>20 DEF ShowSessions, Calls
<1>21. ASSUME Alive, NEW s \in Sessions, KillSession(s) PROVE Onward
  BY <1>21 DEF KillSession, Calls, Goto
<1>22. ASSUME Alive, NEW s \in Sessions, NEW k \in Keys, NEW old \in SUBSET Keys, ShowAuthKeys(s, k, old) PROVE Onward
  BY <1>22, ShowAuthKeysRefs DEF Kept
<1>23. ASSUME Alive, NEW s \in Sessions, LockSet(s) PROVE Onward
  BY <1>23 DEF LockSet
<1>24. ASSUME Alive, NEW s \in Sessions, CopyName(s) PROVE Onward
  BY <1>24 DEF CopyName, Done, Goto
<1>25. ASSUME Alive, NEW s \in Sessions, Fault(s) PROVE Onward
  BY <1>25 DEF Fault
<1>26. ASSUME Alive, NEW s \in Sessions, NEW k \in Keys, NEW old \in SUBSET Keys, GetAuthKey(s, k, old) PROVE Onward
  BY <1>26, GetAuthKeyRefs DEF Kept
<1>27. ASSUME Alive, NEW s \in Sessions, NEW k \in Keys, NEW old \in SUBSET Keys, DropAuthKey(s, k, old) PROVE Onward
  BY <1>27, DropAuthKeyRefs DEF Kept
<1>28. ASSUME Alive, NEW s \in Sessions, LogMessage(s) PROVE Onward
  BY <1>28 DEF LogMessage, Goto
<1>29. ASSUME Alive, NEW s \in Sessions, ReadUser(s) PROVE Onward
  BY <1>29 DEF ReadUser
<1>30. ASSUME Alive, NEW s \in Sessions, ReadName(s) PROVE Onward
  BY <1>30 DEF ReadName
<1>31. ASSUME Alive, NEW s \in Sessions, NEW x \in Tasks, ShowTasks(s, x) PROVE Onward
  BY <1>31 DEF ShowTasks, Calls, Goto
<1>32. ASSUME Alive, NEW s \in Sessions, NEW x \in Tasks, TaskNew(s, x) PROVE Onward
  BY <1>32 DEF TaskNew, Calls, Done, Goto
<1>33. ASSUME Alive, NEW x \in Tasks, TaskRemove(x) PROVE Onward
  BY <1>33 DEF TaskRemove
<1>34. ASSUME Alive, NEW x \in Tasks, TaskUnref(x) PROVE Onward
  BY <1>34, TaskUnrefRefs DEF Kept
<1>u. CASE UNCHANGED vars
  BY <1>u DEF vars
<1>x. ASSUME Alive, NEW s \in Sessions, Auth(s) PROVE Onward
  BY ONLY <1>x, <1>3, <1>4, <1>5, <1>6, <1>7 DEF Auth
<1>y. ASSUME Alive, NEW s \in Sessions, Manage(s) PROVE Onward
  BY ONLY <1>y, <1>17, <1>10, <1>11, <1>12, <1>13, <1>16, <1>14, <1>15, <1>26, <1>27 DEF Manage
<1>z. ASSUME Alive, NEW s \in Sessions, CopyNames(s) PROVE Onward
  BY ONLY <1>z, <1>20, <1>22, <1>31, <1>21, <1>28, <1>29, <1>30, <1>18, <1>23, <1>24, <1>19 DEF CopyNames
<1>q. QED
  BY ONLY [Next]_vars, <1>a, <1>x, <1>y, <1>z, <1>1, <1>2, <1>8, <1>9, <1>25, <1>32, <1>33, <1>34, <1>u DEF Next

LEMMA PointersStep ==
  ASSUME IInv, [Next]_vars PROVE PointersInv'
<1> USE DEF IInv, TypeInv, PointersInv, userVars, groupVars, keyVars, taskVars, threadVars
<1>o. Onward
  BY OnwardStep
<1> USE DEF Onward
<1>a. ASSUME Next PROVE Alive
  BY <1>a DEF Next
<1>1. ASSUME Alive, NEW s \in Sessions, NEW p \in Peers, Connect(s, p) PROVE PointersInv'
  BY <1>1, <1>o DEF Connect, Done, Goto
<1>2. ASSUME Alive, NEW s \in Sessions, Quit(s) PROVE PointersInv'
  BY <1>2, <1>o DEF Quit, Goto
<1>3. ASSUME Alive, NEW s \in Sessions, NEW u \in Ids, AuthPlain(s, u) PROVE PointersInv'
  BY <1>3, <1>o DEF AuthPlain, Goto
<1>4. ASSUME Alive, NEW s \in Sessions, NEW u \in Ids, AuthModule(s, u) PROVE PointersInv'
  BY <1>4, <1>o DEF AuthModule, Goto
<1>5. ASSUME Alive, NEW s \in Sessions, NEW k \in Keys, NEW old \in SUBSET Keys, AuthKey(s, k, old) PROVE PointersInv'
  BY <1>5, <1>o DEF AuthKey, DropKeys, Goto, threadVars
<1>6. ASSUME Alive, NEW s \in Sessions, AuthUnref(s) PROVE PointersInv'
  BY <1>6, <1>o DEF AuthUnref, Goto
<1>7. ASSUME Alive, NEW s \in Sessions, AuthRef(s) PROVE PointersInv'
  BY <1>7, <1>o DEF AuthRef, Done, Goto, FoundInv, FoundAt, Authorizing
<1>8. ASSUME Alive, NEW s \in Sessions, NEW c \in DOMAIN CapMask, FuncCall(s, c) PROVE PointersInv'
  BY <1>8, <1>o DEF FuncCall, Goto
<1>9. ASSUME Alive, NEW s \in Sessions, Refused(s) PROVE PointersInv'
  BY <1>9, <1>o DEF Refused, Done, Goto
<1>10. ASSUME Alive, NEW s \in Sessions, NEW n \in Names, NEW p \in Secrets, AddUser(s, n, p) PROVE PointersInv'
  BY <1>10, <1>o DEF AddUser, Calls, Done, Goto
<1>11. ASSUME Alive, NEW s \in Sessions, NEW u \in Ids, DropUser(s, u) PROVE PointersInv'
  BY <1>11, <1>o DEF DropUser, UserRemove, UserDetach, Calls, Done, Goto
<1>12. ASSUME Alive, NEW s \in Sessions, NEW u \in Ids, NEW p \in Secrets, UserModPass(s, u, p) PROVE PointersInv'
  BY <1>12, <1>o DEF UserModPass, ChangePass, Calls, Done, Goto
<1>13. ASSUME Alive, NEW s \in Sessions, NEW p \in Secrets, NEW knows \in BOOLEAN, SelfModPass(s, p, knows) PROVE PointersInv'
  BY <1>13, <1>o DEF SelfModPass, ChangePass, Calls, Done, Goto
<1>14. ASSUME Alive, NEW s \in Sessions, NEW g \in Groups, NEW u \in Ids, GroupAddUser(s, g, u) PROVE PointersInv'
  BY <1>14, <1>o DEF GroupAddUser, Calls, Done, Goto
<1>15. ASSUME Alive, NEW s \in Sessions, NEW g \in Groups, NEW u \in Ids, GroupDelUser(s, g, u) PROVE PointersInv'
  BY <1>15, <1>o DEF GroupDelUser, Calls, Done, Goto
<1>16. ASSUME Alive, NEW s \in Sessions, NEW g \in Groups, GroupShowUsers(s, g) PROVE PointersInv'
  BY <1>16, <1>o DEF GroupShowUsers, Calls, Done, Goto
<1>17. ASSUME Alive, NEW s \in Sessions, NEW u \in Ids, NEW n \in Names, UserModName(s, u, n) PROVE PointersInv'
  BY <1>17, <1>o DEF UserModName, Calls, Goto
<1>18. ASSUME Alive, NEW s \in Sessions, LockTest(s) PROVE PointersInv'
  BY <1>18, <1>o DEF LockTest
<1>19. ASSUME Alive, NEW s \in Sessions, SwapName(s) PROVE PointersInv'
  BY <1>19, <1>o DEF SwapName
<1>20. ASSUME Alive, NEW s \in Sessions, NEW other \in Sessions, ShowSessions(s, other) PROVE PointersInv'
  BY <1>20, <1>o DEF ShowSessions, Calls
<1>21. ASSUME Alive, NEW s \in Sessions, KillSession(s) PROVE PointersInv'
  BY <1>21, <1>o DEF KillSession, Calls, Goto
<1>22. ASSUME Alive, NEW s \in Sessions, NEW k \in Keys, NEW old \in SUBSET Keys, ShowAuthKeys(s, k, old) PROVE PointersInv'
  BY <1>22, <1>o DEF ShowAuthKeys, DropKeys, Calls, Done, Goto
<1>23. ASSUME Alive, NEW s \in Sessions, LockSet(s) PROVE PointersInv'
  BY <1>23, <1>o DEF LockSet
<1>24. ASSUME Alive, NEW s \in Sessions, CopyName(s) PROVE PointersInv'
  BY <1>24, <1>o DEF CopyName, Done, Goto
<1>25. ASSUME Alive, NEW s \in Sessions, Fault(s) PROVE PointersInv'
  BY <1>25, <1>o DEF Fault
<1>26. ASSUME Alive, NEW s \in Sessions, NEW k \in Keys, NEW old \in SUBSET Keys, GetAuthKey(s, k, old) PROVE PointersInv'
  BY <1>26, <1>o DEF GetAuthKey, Calls, Done, Goto
<1>27. ASSUME Alive, NEW s \in Sessions, NEW k \in Keys, NEW old \in SUBSET Keys, DropAuthKey(s, k, old) PROVE PointersInv'
  BY <1>27, <1>o DEF DropAuthKey, DropKeys, Calls, Done, Goto
<1>28. ASSUME Alive, NEW s \in Sessions, LogMessage(s) PROVE PointersInv'
  BY <1>28, <1>o DEF LogMessage, Goto
<1>29. ASSUME Alive, NEW s \in Sessions, ReadUser(s) PROVE PointersInv'
  BY <1>29, <1>o DEF ReadUser
<1>30. ASSUME Alive, NEW s \in Sessions, ReadName(s) PROVE PointersInv'
  BY <1>30, <1>o DEF ReadName
<1>31. ASSUME Alive, NEW s \in Sessions, NEW x \in Tasks, ShowTasks(s, x) PROVE PointersInv'
  BY <1>31, <1>o DEF ShowTasks, Calls, Goto
<1>32. ASSUME Alive, NEW s \in Sessions, NEW x \in Tasks, TaskNew(s, x) PROVE PointersInv'
  BY <1>32, <1>o DEF TaskNew, Calls, Done, Goto, FoundInv, FoundAt
<1>33. ASSUME Alive, NEW x \in Tasks, TaskRemove(x) PROVE PointersInv'
  BY <1>33, <1>o DEF TaskRemove
<1>34. ASSUME Alive, NEW x \in Tasks, TaskUnref(x) PROVE PointersInv'
  BY <1>34, <1>o DEF TaskUnref
<1>u. CASE UNCHANGED vars
  BY <1>u DEF vars
<1>x. ASSUME Alive, NEW s \in Sessions, Auth(s) PROVE PointersInv'
  BY ONLY <1>x, <1>3, <1>4, <1>5, <1>6, <1>7 DEF Auth
<1>y. ASSUME Alive, NEW s \in Sessions, Manage(s) PROVE PointersInv'
  BY ONLY <1>y, <1>17, <1>10, <1>11, <1>12, <1>13, <1>16, <1>14, <1>15, <1>26, <1>27 DEF Manage
<1>z. ASSUME Alive, NEW s \in Sessions, CopyNames(s) PROVE PointersInv'
  BY ONLY <1>z, <1>20, <1>22, <1>31, <1>21, <1>28, <1>29, <1>30, <1>18, <1>23, <1>24, <1>19 DEF CopyNames
<1>q. QED
  BY ONLY [Next]_vars, <1>a, <1>x, <1>y, <1>z, <1>1, <1>2, <1>8, <1>9, <1>25, <1>32, <1>33, <1>34, <1>u DEF Next

\* What a step leaves to the listings that hold the lock of a file: the keys, the
\* tasks, and sessions that do not end and change their user only where that is noted.
KeysStay == UNCHANGED keyUser \/ MayWriteKeys

TasksStay == (\A x \in taskTable : x \in taskTable' /\ taskUser'[x] = taskUser[x]) \/ MayWriteTasks

SessionsStay ==
  \/ MayWriteSessions
  \/ \A x \in Sessions :
       /\ pc[x] # "off" => pc'[x] # "off"
       /\ pc'[x] = "swap" => pc[x] = "swap" \/ ListingsOf(x) \subseteq shifted'
       /\ user'[x] = user[x] \/ (pc[x] = "swap" /\ user'[x] # None)

Aside(t) ==
  /\ pc'[t] = pc[t] /\ loc'[t] = loc[t] /\ via'[t] = via[t] /\ src'[t] = src[t] /\ user'[t] = user[t]
  /\ t \in shifted => t \in shifted'

\* What the other threads do leaves what a thread has found.
LEMMA FoundOther ==
  ASSUME TypeInv, FoundInv, Onward, NEW t \in Sessions, Aside(t), KeysStay, TasksStay, SessionsStay
  PROVE  FoundAt(t)'
<1> USE DEF Aside
<1>1. FoundAt(t)
  BY DEF FoundInv
<1>2. pc[t] \in Authorizing => ~ MayWrite
  BY DEF MayWrite, Authorizing
<1>3. Reading(t) /\ via[t] = "keys" => \E k \in Keys : keyUser'[k] = loc[t]
  BY <1>1 DEF MayWriteKeys, KeysStay, FoundAt
<1>4. Reading(t) /\ via[t] = "tasks" => \E x \in taskTable' : taskUser'[x] = loc[t]
  BY <1>1 DEF MayWriteTasks, TasksStay, FoundAt
<1>5. loc[t] \in Ids \cup {None}
  BY DEF TypeInv
<1>6. pc[t] \in Authorizing => loc[t] \in Ids /\ state'[loc[t]] # "none" /\ (via[t] = "login" => state'[loc[t]] = "listed")
  BY <1>1, <1>2, <1>5 DEF FoundAt, Onward, Listed
<1>7. Reading(t) /\ pc[t] # "read" => loc[t] \in Ids /\ state'[loc[t]] # "none"
  BY <1>1, <1>5 DEF FoundAt, Onward
<1>8. ASSUME Reading(t), via[t] \in Sessions
      PROVE  ListingAt(t)'
  <2>1. PICK x \in Sessions : x = via[t]
    BY <1>8
  <2>2. /\ pc[x] # "off" => pc'[x] # "off"
        /\ pc'[x] = "swap" => pc[x] = "swap" \/ ListingsOf(x) \subseteq shifted'
        /\ user'[x] = user[x] \/ (pc[x] = "swap" /\ user'[x] # None)
    BY <1>8, <2>1 DEF SessionsStay, MayWriteSessions
  <2>3. t \in ListingsOf(x)
    BY <1>8, <2>1 DEF ListingsOf
  <2>4. /\ pc[x] # "off" /\ user[x] # None
        /\ t \notin shifted => pc[x] # "swap" /\ (pc[t] # "read" => user[x] = loc[t])
    BY <1>1, <1>8, <2>1 DEF FoundAt, ListingAt
  <2>q. QED
    BY <2>1, <2>2, <2>3, <2>4 DEF ListingAt
<1>9. Reading(t)' <=> Reading(t)
  BY DEF Reading
<1>10. pc'[t] = "call" => user'[t] # None
  BY <1>1 DEF FoundAt
<1>11. pc'[t] \in Authorizing =>
         /\ loc'[t] # None /\ state'[loc'[t]] # "none"
         /\ via'[t] \in {"login", "key"}
         /\ via'[t] = "login" => state'[loc'[t]] = "listed"
  BY <1>1, <1>6 DEF FoundAt
<1>12. ASSUME Reading(t)
       PROVE  /\ pc'[t] # "read" => loc'[t] # None /\ state'[loc'[t]] # "none"
              /\ pc'[t] \in {"copy", "torn"} => src'[t] # None /\ ((via'[t] \in Sessions /\ t \in shifted') \/ src'[t] = loc'[t])
              /\ via'[t] \in Sessions \cup {"self", "keys", "tasks"}
              /\ pc'[t] \in {"read", "name"} => via'[t] \in Sessions
              /\ via'[t] = "self" => user'[t] = loc'[t]
  BY <1>1, <1>7, <1>12 DEF FoundAt
<1>q. QED
  BY <1>3, <1>4, <1>8, <1>9, <1>10, <1>11, <1>12 DEF FoundAt, Listed

LEMMA FoundAll ==
  ASSUME TypeInv, FoundInv, Onward, NEW s \in Sessions, FoundAt(s)',
         \A t \in Sessions : t # s => Aside(t), KeysStay, TasksStay, SessionsStay
  PROVE  FoundInv'
<1>1. \A t \in Sessions \ {s} : FoundAt(t)'
  BY FoundOther
<1>q. QED
  BY <1>1 DEF FoundInv

\* A thread's step that ends nothing and changes no session's user.
LEMMA FoundMost ==
  ASSUME TypeInv, FoundInv, Onward, NEW s \in Sessions, FoundAt(s)', pc'[s] \notin {"off", "swap"},
         \A t \in Sessions : t # s => Aside(t), KeysStay, TasksStay, UNCHANGED user
  PROVE  FoundInv'
<1>1. \A x \in Sessions :
        /\ pc[x] # "off" => pc'[x] # "off"
        /\ pc'[x] = "swap" => pc[x] = "swap" \/ ListingsOf(x) \subseteq shifted'
        /\ user'[x] = user[x] \/ (pc[x] = "swap" /\ user'[x] # None)
  BY DEF Aside
<1>2. SessionsStay
  BY <1>1 DEF SessionsStay
<1>q. QED
  BY <1>2, FoundAll

\* A thread that is between two calls, or has failed, has found nothing.
LEMMA FoundNothing ==
  ASSUME NEW s, pc'[s] \in {"off", "idle", "fault", "wspin", "wtake"} PROVE FoundAt(s)'
  BY DEF FoundAt, Reading, Authorizing

LEMMA FoundStep ==
  ASSUME IInv, [Next]_vars PROVE FoundInv'
<1> USE DEF IInv, TypeInv, userVars, groupVars, keyVars, taskVars, threadVars
<1>o. Onward
  BY OnwardStep
<1>a. ASSUME Next PROVE Alive
  BY <1>a DEF Next
<1>1. ASSUME Alive, NEW s \in Sessions, NEW p \in Peers, Connect(s, p) PROVE FoundInv'
  <2>1. FoundAt(s)'
    BY <1>1, FoundNothing DEF Connect, Done, Goto
  <2>2. \A t \in Sessions : t # s => Aside(t)
    BY <1>1 DEF Connect, Done, Goto, Aside
  <2>3. KeysStay /\ TasksStay
    BY <1>1 DEF Connect, Done, Goto, KeysStay, TasksStay
  <2>4. SessionsStay
    BY <1>1 DEF Connect, SessionsStay
  <2>q. QED
    BY <1>o, <2>1, <2>2, <2>3, <2>4, FoundAll
<1>2. ASSUME Alive, NEW s \in Sessions, Quit(s) PROVE FoundInv'
  <2>1. FoundAt(s)'
    BY <1>2, FoundNothing DEF Quit, Goto
  <2>2. \A t \in Sessions : t # s => Aside(t)
    BY <1>2 DEF Quit, Goto, Aside
  <2>3. KeysStay /\ TasksStay
    BY <1>2 DEF Quit, Goto, KeysStay, TasksStay
  <2>4. SessionsStay
    BY <1>2 DEF Quit, SessionsStay
  <2>q. QED
    BY <1>o, <2>1, <2>2, <2>3, <2>4, FoundAll
<1>3. ASSUME Alive, NEW s \in Sessions, NEW u \in Ids, AuthPlain(s, u) PROVE FoundInv'
  <2>1. FoundAt(s)'
    BY <1>3, <1>o, SetsAssumption DEF AuthPlain, Goto, FoundAt, Reading, Authorizing, Onward, Listed, Ids
  <2>2. \A t \in Sessions : t # s => Aside(t)
    BY <1>3 DEF AuthPlain, Goto, Aside
  <2>3. KeysStay /\ TasksStay
    BY <1>3 DEF AuthPlain, Goto, KeysStay, TasksStay
  <2>4. pc'[s] \notin {"off", "swap"} /\ UNCHANGED user
    BY <1>3 DEF AuthPlain, Goto
  <2>q. QED
    BY <1>o, <2>1, <2>2, <2>3, <2>4, FoundMost
<1>4. ASSUME Alive, NEW s \in Sessions, NEW u \in Ids, AuthModule(s, u) PROVE FoundInv'
  <2>1. FoundAt(s)'
    BY <1>4, <1>o, SetsAssumption DEF AuthModule, Goto, FoundAt, Reading, Authorizing, Onward, Listed, Ids
  <2>2. \A t \in Sessions : t # s => Aside(t)
    BY <1>4 DEF AuthModule, Goto, Aside
  <2>3. KeysStay /\ TasksStay
    BY <1>4 DEF AuthModule, Goto, KeysStay, TasksStay
  <2>4. pc'[s] \notin {"off", "swap"} /\ UNCHANGED user
    BY <1>4 DEF AuthModule, Goto
  <2>q. QED
    BY <1>o, <2>1, <2>2, <2>3, <2>4, FoundMost
<1>5. ASSUME Alive, NEW s \in Sessions, NEW k \in Keys, NEW old \in SUBSET Keys, AuthKey(s, k, old) PROVE FoundInv'
  <2>1. FoundAt(s)'
    BY <1>5, <1>o DEF AuthKey, DropKeys, Goto, FoundAt, Reading, Authorizing, Onward, PointersInv, FoundInv
  <2>2. \A t \in Sessions : t # s => Aside(t)
    BY <1>5 DEF AuthKey, DropKeys, Goto, Aside
  <2>3. KeysStay /\ TasksStay
    BY <1>5 DEF AuthKey, DropKeys, Goto, KeysStay, TasksStay
  <2>4. pc'[s] \notin {"off", "swap"} /\ UNCHANGED user
    BY <1>5 DEF AuthKey, DropKeys, Goto
  <2>q. QED
    BY <1>o, <2>1, <2>2, <2>3, <2>4, FoundMost
<1>6. ASSUME Alive, NEW s \in Sessions, AuthUnref(s) PROVE FoundInv'
  <2>1. FoundAt(s)'
    BY <1>6, <1>o DEF AuthUnref, FoundAt, Reading, Authorizing, Onward, FoundInv, Listed, MayWrite
  <2>2. \A t \in Sessions : t # s => Aside(t)
    BY <1>6 DEF AuthUnref, Aside
  <2>3. KeysStay /\ TasksStay
    BY <1>6 DEF AuthUnref, KeysStay, TasksStay
  <2>4. SessionsStay
    BY <1>6 DEF AuthUnref, SessionsStay
  <2>q. QED
    BY <1>o, <2>1, <2>2, <2>3, <2>4, FoundAll
<1>7. ASSUME Alive, NEW s \in Sessions, AuthRef(s) PROVE FoundInv'
  <2>1. FoundAt(s)'
    BY <1>7, FoundNothing DEF AuthRef, Done, Goto
  <2>2. \A t \in Sessions : t # s => Aside(t)
    BY <1>7 DEF AuthRef, Done, Goto, Aside
  <2>3. KeysStay /\ TasksStay
    BY <1>7 DEF AuthRef, Done, Goto, KeysStay, TasksStay
  <2>4. SessionsStay
    BY <1>7 DEF AuthRef, Done, Goto, SessionsStay, FoundInv, FoundAt, Authorizing
  <2>q. QED
    BY <1>o, <2>1, <2>2, <2>3, <2>4, FoundAll
<1>8. ASSUME Alive, NEW s \in Sessions, NEW c \in DOMAIN CapMask, FuncCall(s, c) PROVE FoundInv'
  <2>1. FoundAt(s)'
    BY <1>8, <1>o, GroupsAssumption DEF FuncCall, Goto, FoundAt, Reading, Authorizing, CapCheck, CapOf, CapMask
  <2>2. \A t \in Sessions : t # s => Aside(t)
    BY <1>8 DEF FuncCall, Goto, Aside
  <2>3. KeysStay /\ TasksStay
    BY <1>8 DEF FuncCall, Goto, KeysStay, TasksStay
  <2>4. pc'[s] \notin {"off", "swap"} /\ UNCHANGED user
    BY <1>8 DEF FuncCall, Goto
  <2>q. QED
    BY <1>o, <2>1, <2>2, <2>3, <2>4, FoundMost
<1>9. ASSUME Alive, NEW s \in Sessions, Refused(s) PROVE FoundInv'
  <2>1. FoundAt(s)'
    BY <1>9, FoundNothing DEF Refused, Done, Goto
  <2>2. \A t \in Sessions : t # s => Aside(t)
    BY <1>9 DEF Refused, Done, Goto, Aside
  <2>3. KeysStay /\ TasksStay
    BY <1>9 DEF Refused, Done, Goto, KeysStay, TasksStay
  <2>4. pc'[s] \notin {"off", "swap"} /\ UNCHANGED user
    BY <1>9 DEF Refused, Done, Goto
  <2>q. QED
    BY <1>o, <2>1, <2>2, <2>3, <2>4, FoundMost
<1>10. ASSUME Alive, NEW s \in Sessions, NEW n \in Names, NEW p \in Secrets, AddUser(s, n, p) PROVE FoundInv'
  <2>1. FoundAt(s)'
    BY <1>10, FoundNothing DEF AddUser, Calls, Done, Goto
  <2>2. \A t \in Sessions : t # s => Aside(t)
    BY <1>10 DEF AddUser, Calls, Done, Goto, Aside
  <2>3. KeysStay /\ TasksStay
    BY <1>10 DEF AddUser, Calls, Done, Goto, KeysStay, TasksStay
  <2>4. pc'[s] \notin {"off", "swap"} /\ UNCHANGED user
    BY <1>10 DEF AddUser, Calls, Done, Goto
  <2>q. QED
    BY <1>o, <2>1, <2>2, <2>3, <2>4, FoundMost
<1>11. ASSUME Alive, NEW s \in Sessions, NEW u \in Ids, DropUser(s, u) PROVE FoundInv'
  <2>1. FoundAt(s)'
    BY <1>11, FoundNothing DEF DropUser, Calls, Done, Goto
  <2>2. \A t \in Sessions : t # s => Aside(t)
    BY <1>11 DEF DropUser, Calls, Done, Goto, Aside
  <2>3. KeysStay /\ TasksStay
    BY <1>11 DEF DropUser, Calls, Done, Goto, KeysStay, TasksStay
  <2>4. pc'[s] \notin {"off", "swap"} /\ UNCHANGED user
    BY <1>11 DEF DropUser, Calls, Done, Goto
  <2>q. QED
    BY <1>o, <2>1, <2>2, <2>3, <2>4, FoundMost
<1>12. ASSUME Alive, NEW s \in Sessions, NEW u \in Ids, NEW p \in Secrets, UserModPass(s, u, p) PROVE FoundInv'
  <2>1. FoundAt(s)'
    BY <1>12, FoundNothing DEF UserModPass, Calls, Done, Goto
  <2>2. \A t \in Sessions : t # s => Aside(t)
    BY <1>12 DEF UserModPass, Calls, Done, Goto, Aside
  <2>3. KeysStay /\ TasksStay
    BY <1>12 DEF UserModPass, Calls, Done, Goto, KeysStay, TasksStay
  <2>4. pc'[s] \notin {"off", "swap"} /\ UNCHANGED user
    BY <1>12 DEF UserModPass, Calls, Done, Goto
  <2>q. QED
    BY <1>o, <2>1, <2>2, <2>3, <2>4, FoundMost
<1>13. ASSUME Alive, NEW s \in Sessions, NEW p \in Secrets, NEW knows \in BOOLEAN, SelfModPass(s, p, knows) PROVE FoundInv'
  <2>1. FoundAt(s)'
    BY <1>13, FoundNothing DEF SelfModPass, Calls, Done, Goto
  <2>2. \A t \in Sessions : t # s => Aside(t)
    BY <1>13 DEF SelfModPass, Calls, Done, Goto, Aside
  <2>3. KeysStay /\ TasksStay
    BY <1>13 DEF SelfModPass, Calls, Done, Goto, KeysStay, TasksStay
  <2>4. pc'[s] \notin {"off", "swap"} /\ UNCHANGED user
    BY <1>13 DEF SelfModPass, Calls, Done, Goto
  <2>q. QED
    BY <1>o, <2>1, <2>2, <2>3, <2>4, FoundMost
<1>14. ASSUME Alive, NEW s \in Sessions, NEW g \in Groups, NEW u \in Ids, GroupAddUser(s, g, u) PROVE FoundInv'
  <2>1. FoundAt(s)'
    BY <1>14, FoundNothing DEF GroupAddUser, Calls, Done, Goto
  <2>2. \A t \in Sessions : t # s => Aside(t)
    BY <1>14 DEF GroupAddUser, Calls, Done, Goto, Aside
  <2>3. KeysStay /\ TasksStay
    BY <1>14 DEF GroupAddUser, Calls, Done, Goto, KeysStay, TasksStay
  <2>4. pc'[s] \notin {"off", "swap"} /\ UNCHANGED user
    BY <1>14 DEF GroupAddUser, Calls, Done, Goto
  <2>q. QED
    BY <1>o, <2>1, <2>2, <2>3, <2>4, FoundMost
<1>15. ASSUME Alive, NEW s \in Sessions, NEW g \in Groups, NEW u \in Ids, GroupDelUser(s, g, u) PROVE FoundInv'
  <2>1. FoundAt(s)'
    BY <1>15, FoundNothing DEF GroupDelUser, Calls, Done, Goto
  <2>2. \A t \in Sessions : t # s => Aside(t)
    BY <1>15 DEF GroupDelUser, Calls, Done, Goto, Aside
  <2>3. KeysStay /\ TasksStay
    BY <1>15 DEF GroupDelUser, Calls, Done, Goto, KeysStay, TasksStay
  <2>4. pc'[s] \notin {"off", "swap"} /\ UNCHANGED user
    BY <1>15 DEF GroupDelUser, Calls, Done, Goto
  <2>q. QED
    BY <1>o, <2>1, <2>2, <2>3, <2>4, FoundMost
<1>16. ASSUME Alive, NEW s \in Sessions, NEW g \in Groups, GroupShowUsers(s, g) PROVE FoundInv'
  <2>1. FoundAt(s)'
    BY <1>16, FoundNothing DEF GroupShowUsers, Calls, Done, Goto
  <2>2. \A t \in Sessions : t # s => Aside(t)
    BY <1>16 DEF GroupShowUsers, Calls, Done, Goto, Aside
  <2>3. KeysStay /\ TasksStay
    BY <1>16 DEF GroupShowUsers, Calls, Done, Goto, KeysStay, TasksStay
  <2>4. pc'[s] \notin {"off", "swap"} /\ UNCHANGED user
    BY <1>16 DEF GroupShowUsers, Calls, Done, Goto
  <2>q. QED
    BY <1>o, <2>1, <2>2, <2>3, <2>4, FoundMost
<1>17. ASSUME Alive, NEW s \in Sessions, NEW u \in Ids, NEW n \in Names, UserModName(s, u, n) PROVE FoundInv'
  <2>1. FoundAt(s)'
    BY <1>17, FoundNothing DEF UserModName, Calls, Goto
  <2>2. \A t \in Sessions : t # s => Aside(t)
    BY <1>17 DEF UserModName, Calls, Goto, Aside
  <2>3. KeysStay /\ TasksStay
    BY <1>17 DEF UserModName, Calls, Goto, KeysStay, TasksStay
  <2>4. pc'[s] \notin {"off", "swap"} /\ UNCHANGED user
    BY <1>17 DEF UserModName, Calls, Goto
  <2>q. QED
    BY <1>o, <2>1, <2>2, <2>3, <2>4, FoundMost
<1>18. ASSUME Alive, NEW s \in Sessions, LockTest(s) PROVE FoundInv'
  <2>1. FoundAt(s)'
    BY <1>18, <1>o DEF LockTest, FoundAt, ListingAt, Reading, Authorizing, Onward, FoundInv
  <2>2. \A t \in Sessions : t # s => Aside(t)
    BY <1>18 DEF LockTest, Aside
  <2>3. KeysStay /\ TasksStay
    BY <1>18 DEF LockTest, KeysStay, TasksStay
  <2>4. pc'[s] \notin {"off", "swap"} /\ UNCHANGED user
    BY <1>18 DEF LockTest
  <2>q. QED
    BY <1>o, <2>1, <2>2, <2>3, <2>4, FoundMost
<1>19. ASSUME Alive, NEW s \in Sessions, SwapName(s) PROVE FoundInv'
  <2>1. FoundAt(s)'
    <3>1. pc'[s] = "idle"
      BY <1>19 DEF SwapName
    <3>q. QED
      BY <3>1, FoundNothing
  <2>2. ASSUME NEW t \in Sessions, t # s, pc'[t] # pc[t]
        PROVE  FoundAt(t)'
    <3>1. pc[t] = "copy" /\ pc'[t] = "torn" /\ loc'[t] = loc[t] /\ via'[t] = via[t]
      BY <1>19, <2>2 DEF SwapName
    <3>2. UNCHANGED <<state, user, keyUser, taskUser, taskTable, src, shifted>>
      BY <1>19 DEF SwapName
    <3>3. \A x \in Sessions : (pc[x] # "off" => pc'[x] # "off") /\ (pc'[x] = "swap" => pc[x] = "swap")
      BY <1>19 DEF SwapName
    <3>4. FoundAt(t)
      BY DEF FoundInv
    <3>q. QED
      BY <3>1, <3>2, <3>3, <3>4 DEF FoundAt, ListingAt, Reading, Authorizing
  <2>3. ASSUME NEW t \in Sessions, t # s, pc'[t] = pc[t]
        PROVE  FoundAt(t)'
    <3>1. Aside(t)
      BY <1>19, <2>3 DEF SwapName, Aside
    <3>2. KeysStay /\ TasksStay
      BY <1>19 DEF SwapName, KeysStay, TasksStay
    <3>3. SessionsStay
      BY <1>19 DEF SwapName, SessionsStay
    <3>q. QED
      BY <1>o, <3>1, <3>2, <3>3, FoundOther
  <2>q. QED
    BY <2>1, <2>2, <2>3 DEF FoundInv
<1>20. ASSUME Alive, NEW s \in Sessions, NEW other \in Sessions, ShowSessions(s, other) PROVE FoundInv'
  <2>1. FoundAt(s)'
    BY <1>20, <1>o, SetsAssumption DEF ShowSessions, Calls, FoundAt, ListingAt, Reading, Authorizing
  <2>2. \A t \in Sessions : t # s => Aside(t)
    BY <1>20 DEF ShowSessions, Calls, Aside
  <2>3. KeysStay /\ TasksStay
    BY <1>20 DEF ShowSessions, Calls, KeysStay, TasksStay
  <2>4. pc'[s] \notin {"off", "swap"} /\ UNCHANGED user
    BY <1>20 DEF ShowSessions, Calls
  <2>q. QED
    BY <1>o, <2>1, <2>2, <2>3, <2>4, FoundMost
<1>21. ASSUME Alive, NEW s \in Sessions, KillSession(s) PROVE FoundInv'
  <2>1. FoundAt(s)'
    BY <1>21, <1>o, SetsAssumption DEF KillSession, Calls, Goto, FoundAt, Reading, Authorizing, Onward, PointersInv, FoundInv
  <2>2. \A t \in Sessions : t # s => Aside(t)
    BY <1>21 DEF KillSession, Calls, Goto, Aside
  <2>3. KeysStay /\ TasksStay
    BY <1>21 DEF KillSession, Calls, Goto, KeysStay, TasksStay
  <2>4. pc'[s] \notin {"off", "swap"} /\ UNCHANGED user
    BY <1>21 DEF KillSession, Calls, Goto
  <2>q. QED
    BY <1>o, <2>1, <2>2, <2>3, <2>4, FoundMost
<1>22. ASSUME Alive, NEW s \in Sessions, NEW k \in Keys, NEW old \in SUBSET Keys, ShowAuthKeys(s, k, old) PROVE FoundInv'
  <2>1. FoundAt(s)'
    BY <1>22, <1>o, SetsAssumption DEF ShowAuthKeys, DropKeys, Calls, Done, Goto, FoundAt, Reading, Authorizing, Onward, PointersInv
  <2>2. \A t \in Sessions : t # s => Aside(t)
    BY <1>22 DEF ShowAuthKeys, DropKeys, Calls, Done, Goto, Aside
  <2>3. KeysStay /\ TasksStay
    BY <1>22 DEF ShowAuthKeys, DropKeys, Calls, Done, Goto, KeysStay, TasksStay
  <2>4. pc'[s] \notin {"off", "swap"} /\ UNCHANGED user
    BY <1>22 DEF ShowAuthKeys, DropKeys, Calls, Done, Goto
  <2>q. QED
    BY <1>o, <2>1, <2>2, <2>3, <2>4, FoundMost
<1>23. ASSUME Alive, NEW s \in Sessions, LockSet(s) PROVE FoundInv'
  <2>1. FoundAt(s)'
    BY <1>23, <1>o DEF LockSet, FoundAt, ListingAt, Reading, Authorizing, Onward, FoundInv
  <2>2. \A t \in Sessions : t # s => Aside(t)
    BY <1>23 DEF LockSet, Aside
  <2>3. KeysStay /\ TasksStay
    BY <1>23 DEF LockSet, KeysStay, TasksStay
  <2>4. pc'[s] \notin {"off", "swap"} /\ UNCHANGED user
    BY <1>23 DEF LockSet
  <2>q. QED
    BY <1>o, <2>1, <2>2, <2>3, <2>4, FoundMost
<1>24. ASSUME Alive, NEW s \in Sessions, CopyName(s) PROVE FoundInv'
  <2>1. FoundAt(s)'
    BY <1>24, FoundNothing DEF CopyName, Done, Goto
  <2>2. \A t \in Sessions : t # s => Aside(t)
    BY <1>24 DEF CopyName, Done, Goto, Aside
  <2>3. KeysStay /\ TasksStay
    BY <1>24 DEF CopyName, Done, Goto, KeysStay, TasksStay
  <2>4. pc'[s] \notin {"off", "swap"} /\ UNCHANGED user
    BY <1>24 DEF CopyName, Done, Goto
  <2>q. QED
    BY <1>o, <2>1, <2>2, <2>3, <2>4, FoundMost
<1>25. ASSUME Alive, NEW s \in Sessions, Fault(s) PROVE FoundInv'
  <2>1. FoundAt(s)'
    BY <1>25, FoundNothing DEF Fault
  <2>2. \A t \in Sessions : t # s => Aside(t)
    BY <1>25 DEF Fault, Aside
  <2>3. KeysStay /\ TasksStay
    BY <1>25 DEF Fault, KeysStay, TasksStay
  <2>4. pc'[s] \notin {"off", "swap"} /\ UNCHANGED user
    BY <1>25 DEF Fault
  <2>q. QED
    BY <1>o, <2>1, <2>2, <2>3, <2>4, FoundMost
<1>26. ASSUME Alive, NEW s \in Sessions, NEW k \in Keys, NEW old \in SUBSET Keys, GetAuthKey(s, k, old) PROVE FoundInv'
  <2>1. FoundAt(s)'
    BY <1>26, FoundNothing DEF GetAuthKey, Calls, Done, Goto
  <2>2. \A t \in Sessions : t # s => Aside(t)
    BY <1>26 DEF GetAuthKey, Calls, Done, Goto, Aside
  <2>3. KeysStay /\ TasksStay
    BY <1>26 DEF GetAuthKey, Calls, Done, Goto, KeysStay, TasksStay
  <2>4. pc'[s] \notin {"off", "swap"} /\ UNCHANGED user
    BY <1>26 DEF GetAuthKey, Calls, Done, Goto
  <2>q. QED
    BY <1>o, <2>1, <2>2, <2>3, <2>4, FoundMost
<1>27. ASSUME Alive, NEW s \in Sessions, NEW k \in Keys, NEW old \in SUBSET Keys, DropAuthKey(s, k, old) PROVE FoundInv'
  <2>1. FoundAt(s)'
    BY <1>27, FoundNothing DEF DropAuthKey, DropKeys, Calls, Done, Goto
  <2>2. \A t \in Sessions : t # s => Aside(t)
    BY <1>27 DEF DropAuthKey, DropKeys, Calls, Done, Goto, Aside
  <2>3. KeysStay /\ TasksStay
    BY <1>27 DEF DropAuthKey, DropKeys, Calls, Done, Goto, KeysStay, TasksStay
  <2>4. pc'[s] \notin {"off", "swap"} /\ UNCHANGED user
    BY <1>27 DEF DropAuthKey, DropKeys, Calls, Done, Goto
  <2>q. QED
    BY <1>o, <2>1, <2>2, <2>3, <2>4, FoundMost
<1>28. ASSUME Alive, NEW s \in Sessions, LogMessage(s) PROVE FoundInv'
  <2>1. FoundAt(s)'
    BY <1>28, <1>o, SetsAssumption DEF LogMessage, Goto, FoundAt, Reading, Authorizing, Onward, PointersInv, FoundInv
  <2>2. \A t \in Sessions : t # s => Aside(t)
    BY <1>28 DEF LogMessage, Goto, Aside
  <2>3. KeysStay /\ TasksStay
    BY <1>28 DEF LogMessage, Goto, KeysStay, TasksStay
  <2>4. pc'[s] \notin {"off", "swap"} /\ UNCHANGED user
    BY <1>28 DEF LogMessage, Goto
  <2>q. QED
    BY <1>o, <2>1, <2>2, <2>3, <2>4, FoundMost
<1>29. ASSUME Alive, NEW s \in Sessions, ReadUser(s) PROVE FoundInv'
  <2>1. FoundAt(s)'
    BY <1>29, <1>o, SetsAssumption DEF ReadUser, FoundAt, ListingAt, Reading, Authorizing, Onward, PointersInv, FoundInv
  <2>2. \A t \in Sessions : t # s => Aside(t)
    BY <1>29 DEF ReadUser, Aside
  <2>3. KeysStay /\ TasksStay
    BY <1>29 DEF ReadUser, KeysStay, TasksStay
  <2>4. pc'[s] \notin {"off", "swap"} /\ UNCHANGED user
    BY <1>29 DEF ReadUser
  <2>q. QED
    BY <1>o, <2>1, <2>2, <2>3, <2>4, FoundMost
<1>30. ASSUME Alive, NEW s \in Sessions, ReadName(s) PROVE FoundInv'
  <2>1. FoundAt(s)'
    BY <1>30, <1>o DEF ReadName, FoundAt, ListingAt, Reading, Authorizing, Onward, FoundInv
  <2>2. \A t \in Sessions : t # s => Aside(t)
    BY <1>30 DEF ReadName, Aside
  <2>3. KeysStay /\ TasksStay
    BY <1>30 DEF ReadName, KeysStay, TasksStay
  <2>4. pc'[s] \notin {"off", "swap"} /\ UNCHANGED user
    BY <1>30 DEF ReadName
  <2>q. QED
    BY <1>o, <2>1, <2>2, <2>3, <2>4, FoundMost
<1>31. ASSUME Alive, NEW s \in Sessions, NEW x \in Tasks, ShowTasks(s, x) PROVE FoundInv'
  <2>1. FoundAt(s)'
    BY <1>31, <1>o, SetsAssumption DEF ShowTasks, Calls, Goto, FoundAt, Reading, Authorizing, Onward, PointersInv
  <2>2. \A t \in Sessions : t # s => Aside(t)
    BY <1>31 DEF ShowTasks, Calls, Goto, Aside
  <2>3. KeysStay /\ TasksStay
    BY <1>31 DEF ShowTasks, Calls, Goto, KeysStay, TasksStay
  <2>4. pc'[s] \notin {"off", "swap"} /\ UNCHANGED user
    BY <1>31 DEF ShowTasks, Calls, Goto
  <2>q. QED
    BY <1>o, <2>1, <2>2, <2>3, <2>4, FoundMost
<1>32. ASSUME Alive, NEW s \in Sessions, NEW x \in Tasks, TaskNew(s, x) PROVE FoundInv'
  <2>1. FoundAt(s)'
    BY <1>32, FoundNothing DEF TaskNew, Calls, Done, Goto
  <2>2. \A t \in Sessions : t # s => Aside(t)
    BY <1>32 DEF TaskNew, Calls, Done, Goto, Aside
  <2>3. KeysStay /\ TasksStay
    BY <1>32 DEF TaskNew, Calls, Done, Goto, KeysStay, TasksStay
  <2>4. pc'[s] \notin {"off", "swap"} /\ UNCHANGED user
    BY <1>32 DEF TaskNew, Calls, Done, Goto
  <2>q. QED
    BY <1>o, <2>1, <2>2, <2>3, <2>4, FoundMost
<1>33. ASSUME Alive, NEW x \in Tasks, TaskRemove(x) PROVE FoundInv'
  <2>1. \A t \in Sessions : Aside(t)
    BY <1>33 DEF TaskRemove, Aside
  <2>2. KeysStay /\ TasksStay /\ SessionsStay
    BY <1>33 DEF TaskRemove, KeysStay, TasksStay, SessionsStay
  <2>q. QED
    BY <1>o, <2>1, <2>2, FoundOther DEF FoundInv
<1>34. ASSUME Alive, NEW x \in Tasks, TaskUnref(x) PROVE FoundInv'
  <2>1. \A t \in Sessions : Aside(t)
    BY <1>34 DEF TaskUnref, Aside
  <2>2. KeysStay /\ TasksStay /\ SessionsStay
    BY <1>34 DEF TaskUnref, KeysStay, TasksStay, SessionsStay
  <2>q. QED
    BY <1>o, <2>1, <2>2, FoundOther DEF FoundInv
<1>u. CASE UNCHANGED vars
  BY <1>u DEF vars, FoundInv, FoundAt, ListingAt, Reading, Listed
<1>x. ASSUME Alive, NEW s \in Sessions, Auth(s) PROVE FoundInv'
  BY ONLY <1>x, <1>3, <1>4, <1>5, <1>6, <1>7 DEF Auth
<1>y. ASSUME Alive, NEW s \in Sessions, Manage(s) PROVE FoundInv'
  BY ONLY <1>y, <1>17, <1>10, <1>11, <1>12, <1>13, <1>16, <1>14, <1>15, <1>26, <1>27 DEF Manage
<1>z. ASSUME Alive, NEW s \in Sessions, CopyNames(s) PROVE FoundInv'
  BY ONLY <1>z, <1>20, <1>22, <1>31, <1>21, <1>28, <1>29, <1>30, <1>18, <1>23, <1>24, <1>19 DEF CopyNames
<1>q. QED
  BY ONLY [Next]_vars, <1>a, <1>x, <1>y, <1>z, <1>1, <1>2, <1>8, <1>9, <1>25, <1>32, <1>33, <1>34, <1>u DEF Next

\* A step that leaves renames and the rows of users alone.
LEMMA RenameSame ==
  ASSUME TypeInv, RenameInv, Onward, UNCHANGED dbUser,
         \A t \in Sessions : pc'[t] \in Renaming => pc[t] \in Renaming /\ loc'[t] = loc[t] /\ via'[t] = via[t]
  PROVE  RenameInv'
<1>1. \A t \in Sessions : pc[t] \in Renaming => ~ MayWrite /\ state'[loc[t]] = "listed"
  BY DEF TypeInv, RenameInv, MayWrite, MayRead, Renaming, Onward, Listed
<1>q. QED
  BY <1>1 DEF RenameInv, Listed

LEMMA RenameStep ==
  ASSUME IInv, [Next]_vars PROVE RenameInv'
<1> USE DEF IInv, TypeInv, userVars, groupVars, keyVars, taskVars, threadVars
<1>o. Onward
  BY OnwardStep
<1>a. ASSUME Next PROVE Alive
  BY <1>a DEF Next
<1>1. ASSUME Alive, NEW s \in Sessions, NEW p \in Peers, Connect(s, p) PROVE RenameInv'
  BY <1>1, <1>o, RenameSame DEF Connect, Done, Goto, Renaming
<1>2. ASSUME Alive, NEW s \in Sessions, Quit(s) PROVE RenameInv'
  BY <1>2, <1>o, RenameSame DEF Quit, Goto, Renaming
<1>3. ASSUME Alive, NEW s \in Sessions, NEW u \in Ids, AuthPlain(s, u) PROVE RenameInv'
  BY <1>3, <1>o, RenameSame DEF AuthPlain, Goto, Renaming
<1>4. ASSUME Alive, NEW s \in Sessions, NEW u \in Ids, AuthModule(s, u) PROVE RenameInv'
  BY <1>4, <1>o, RenameSame DEF AuthModule, Goto, Renaming
<1>5. ASSUME Alive, NEW s \in Sessions, NEW k \in Keys, NEW old \in SUBSET Keys, AuthKey(s, k, old) PROVE RenameInv'
  BY <1>5, <1>o, RenameSame DEF AuthKey, DropKeys, Goto, threadVars, Renaming
<1>6. ASSUME Alive, NEW s \in Sessions, AuthUnref(s) PROVE RenameInv'
  BY <1>6, <1>o, RenameSame DEF AuthUnref, Goto, Renaming
<1>7. ASSUME Alive, NEW s \in Sessions, AuthRef(s) PROVE RenameInv'
  BY <1>7, <1>o, RenameSame DEF AuthRef, Done, Goto, Renaming
<1>8. ASSUME Alive, NEW s \in Sessions, NEW c \in DOMAIN CapMask, FuncCall(s, c) PROVE RenameInv'
  BY <1>8, <1>o, RenameSame DEF FuncCall, Goto, Renaming
<1>9. ASSUME Alive, NEW s \in Sessions, Refused(s) PROVE RenameInv'
  BY <1>9, <1>o, RenameSame DEF Refused, Done, Goto, Renaming
<1>10. ASSUME Alive, NEW s \in Sessions, NEW n \in Names, NEW p \in Secrets, AddUser(s, n, p) PROVE RenameInv'
  <2>1. \A t \in Sessions : pc[t] \notin Renaming
    BY <1>10 DEF AddUser, Calls, Done, Goto, MayWrite, MayRead, Renaming
  <2>2. \A t \in Sessions : pc'[t] \notin Renaming
    BY <1>10, <2>1 DEF AddUser, Calls, Done, Goto, Renaming
  <2>q. QED
    BY <2>2 DEF RenameInv
<1>11. ASSUME Alive, NEW s \in Sessions, NEW u \in Ids, DropUser(s, u) PROVE RenameInv'
  <2>1. \A t \in Sessions : pc[t] \notin Renaming
    BY <1>11 DEF DropUser, UserRemove, UserDetach, Calls, Done, Goto, MayWrite, MayRead, Renaming
  <2>2. \A t \in Sessions : pc'[t] \notin Renaming
    BY <1>11, <2>1 DEF DropUser, UserRemove, UserDetach, Calls, Done, Goto, Renaming
  <2>q. QED
    BY <2>2 DEF RenameInv
<1>12. ASSUME Alive, NEW s \in Sessions, NEW u \in Ids, NEW p \in Secrets, UserModPass(s, u, p) PROVE RenameInv'
  <2>1. \A t \in Sessions : pc[t] \notin Renaming
    BY <1>12 DEF UserModPass, ChangePass, Calls, Done, Goto, MayWrite, MayRead, Renaming
  <2>2. \A t \in Sessions : pc'[t] \notin Renaming
    BY <1>12, <2>1 DEF UserModPass, ChangePass, Calls, Done, Goto, Renaming
  <2>q. QED
    BY <2>2 DEF RenameInv
<1>13. ASSUME Alive, NEW s \in Sessions, NEW p \in Secrets, NEW knows \in BOOLEAN, SelfModPass(s, p, knows) PROVE RenameInv'
  <2>1. \A t \in Sessions : pc[t] \notin Renaming
    BY <1>13 DEF SelfModPass, ChangePass, Calls, Done, Goto, MayWrite, MayRead, Renaming
  <2>2. \A t \in Sessions : pc'[t] \notin Renaming
    BY <1>13, <2>1 DEF SelfModPass, ChangePass, Calls, Done, Goto, Renaming
  <2>q. QED
    BY <2>2 DEF RenameInv
<1>14. ASSUME Alive, NEW s \in Sessions, NEW g \in Groups, NEW u \in Ids, GroupAddUser(s, g, u) PROVE RenameInv'
  BY <1>14, <1>o, RenameSame DEF GroupAddUser, Calls, Done, Goto, Renaming
<1>15. ASSUME Alive, NEW s \in Sessions, NEW g \in Groups, NEW u \in Ids, GroupDelUser(s, g, u) PROVE RenameInv'
  BY <1>15, <1>o, RenameSame DEF GroupDelUser, Calls, Done, Goto, Renaming
<1>16. ASSUME Alive, NEW s \in Sessions, NEW g \in Groups, GroupShowUsers(s, g) PROVE RenameInv'
  BY <1>16, <1>o, RenameSame DEF GroupShowUsers, Calls, Done, Goto, Renaming
<1>17. ASSUME Alive, NEW s \in Sessions, NEW u \in Ids, NEW n \in Names, UserModName(s, u, n) PROVE RenameInv'
  <2>1. \A t \in Sessions : pc[t] \notin Renaming
    BY <1>17 DEF UserModName, Calls, Goto, MayWrite, MayRead, Renaming
  <2>2. \A t \in Sessions : pc'[t] \in Renaming => t = s
    BY <1>17, <2>1 DEF UserModName, Calls, Goto, Renaming
  <2>3. loc'[s] = u /\ via'[s] = n /\ u # None /\ Listed(u)'
    BY <1>17, SetsAssumption DEF UserModName, Calls, Goto, Listed, Ids
  <2>4. dbUser'[u].name = n
    <3>1. [dbUser[u] EXCEPT !.name = n] = Row(n, secret[u])
      BY <1>17, RowUpdate DEF UserModName
    <3>2. dbUser'[u] = Row(n, secret[u])
      BY <1>17, <3>1 DEF UserModName
    <3>q. QED
      BY <3>2 DEF Row
  <2>q. QED
    BY <1>17, <2>2, <2>3, <2>4 DEF RenameInv
<1>18. ASSUME Alive, NEW s \in Sessions, LockTest(s) PROVE RenameInv'
  BY <1>18, <1>o, RenameSame DEF LockTest, Renaming
<1>19. ASSUME Alive, NEW s \in Sessions, SwapName(s) PROVE RenameInv'
  BY <1>19, <1>o, RenameSame DEF SwapName, Renaming
<1>20. ASSUME Alive, NEW s \in Sessions, NEW other \in Sessions, ShowSessions(s, other) PROVE RenameInv'
  BY <1>20, <1>o, RenameSame DEF ShowSessions, Calls, Renaming
<1>21. ASSUME Alive, NEW s \in Sessions, KillSession(s) PROVE RenameInv'
  BY <1>21, <1>o, RenameSame DEF KillSession, Calls, Goto, Renaming
<1>22. ASSUME Alive, NEW s \in Sessions, NEW k \in Keys, NEW old \in SUBSET Keys, ShowAuthKeys(s, k, old) PROVE RenameInv'
  BY <1>22, <1>o, RenameSame DEF ShowAuthKeys, DropKeys, Calls, Done, Goto, Renaming
<1>23. ASSUME Alive, NEW s \in Sessions, LockSet(s) PROVE RenameInv'
  BY <1>23, <1>o, RenameSame DEF LockSet, Renaming
<1>24. ASSUME Alive, NEW s \in Sessions, CopyName(s) PROVE RenameInv'
  BY <1>24, <1>o, RenameSame DEF CopyName, Done, Goto, Renaming
<1>25. ASSUME Alive, NEW s \in Sessions, Fault(s) PROVE RenameInv'
  BY <1>25, <1>o, RenameSame DEF Fault, Renaming
<1>26. ASSUME Alive, NEW s \in Sessions, NEW k \in Keys, NEW old \in SUBSET Keys, GetAuthKey(s, k, old) PROVE RenameInv'
  BY <1>26, <1>o, RenameSame DEF GetAuthKey, Calls, Done, Goto, Renaming
<1>27. ASSUME Alive, NEW s \in Sessions, NEW k \in Keys, NEW old \in SUBSET Keys, DropAuthKey(s, k, old) PROVE RenameInv'
  BY <1>27, <1>o, RenameSame DEF DropAuthKey, DropKeys, Calls, Done, Goto, Renaming
<1>28. ASSUME Alive, NEW s \in Sessions, LogMessage(s) PROVE RenameInv'
  BY <1>28, <1>o, RenameSame DEF LogMessage, Goto, Renaming
<1>29. ASSUME Alive, NEW s \in Sessions, ReadUser(s) PROVE RenameInv'
  BY <1>29, <1>o, RenameSame DEF ReadUser, Renaming
<1>30. ASSUME Alive, NEW s \in Sessions, ReadName(s) PROVE RenameInv'
  BY <1>30, <1>o, RenameSame DEF ReadName, Renaming
<1>31. ASSUME Alive, NEW s \in Sessions, NEW x \in Tasks, ShowTasks(s, x) PROVE RenameInv'
  BY <1>31, <1>o, RenameSame DEF ShowTasks, Calls, Goto, Renaming
<1>32. ASSUME Alive, NEW s \in Sessions, NEW x \in Tasks, TaskNew(s, x) PROVE RenameInv'
  BY <1>32, <1>o, RenameSame DEF TaskNew, Calls, Done, Goto, Renaming
<1>33. ASSUME Alive, NEW x \in Tasks, TaskRemove(x) PROVE RenameInv'
  BY <1>33, <1>o, RenameSame DEF TaskRemove, Renaming
<1>34. ASSUME Alive, NEW x \in Tasks, TaskUnref(x) PROVE RenameInv'
  BY <1>34, <1>o, RenameSame DEF TaskUnref, Renaming
<1>u. CASE UNCHANGED vars
  BY <1>u DEF vars, RenameInv, Listed
<1>x. ASSUME Alive, NEW s \in Sessions, Auth(s) PROVE RenameInv'
  BY ONLY <1>x, <1>3, <1>4, <1>5, <1>6, <1>7 DEF Auth
<1>y. ASSUME Alive, NEW s \in Sessions, Manage(s) PROVE RenameInv'
  BY ONLY <1>y, <1>17, <1>10, <1>11, <1>12, <1>13, <1>16, <1>14, <1>15, <1>26, <1>27 DEF Manage
<1>z. ASSUME Alive, NEW s \in Sessions, CopyNames(s) PROVE RenameInv'
  BY ONLY <1>z, <1>20, <1>22, <1>31, <1>21, <1>28, <1>29, <1>30, <1>18, <1>23, <1>24, <1>19 DEF CopyNames
<1>q. QED
  BY ONLY [Next]_vars, <1>a, <1>x, <1>y, <1>z, <1>1, <1>2, <1>8, <1>9, <1>25, <1>32, <1>33, <1>34, <1>u DEF Next

LEMMA SpinStep ==
  ASSUME IInv, [Next]_vars PROVE SpinInv'
<1> USE DEF IInv, TypeInv, userVars, groupVars, keyVars, taskVars, threadVars
<1>a. ASSUME Next PROVE Alive
  BY <1>a DEF Next
<1>1. ASSUME Alive, NEW s \in Sessions, NEW p \in Peers, Connect(s, p) PROVE SpinInv'
  BY <1>1 DEF Connect, Done, Goto, SpinInv, Inside
<1>2. ASSUME Alive, NEW s \in Sessions, Quit(s) PROVE SpinInv'
  BY <1>2 DEF Quit, Goto, SpinInv, Inside
<1>3. ASSUME Alive, NEW s \in Sessions, NEW u \in Ids, AuthPlain(s, u) PROVE SpinInv'
  BY <1>3 DEF AuthPlain, Goto, SpinInv, Inside
<1>4. ASSUME Alive, NEW s \in Sessions, NEW u \in Ids, AuthModule(s, u) PROVE SpinInv'
  BY <1>4 DEF AuthModule, Goto, SpinInv, Inside
<1>5. ASSUME Alive, NEW s \in Sessions, NEW k \in Keys, NEW old \in SUBSET Keys, AuthKey(s, k, old) PROVE SpinInv'
  <2>1. UNCHANGED <<spin, doubled>>
    BY <1>5 DEF AuthKey, DropKeys, Goto, threadVars
  <2>2. \A t \in Sessions : pc'[t] \in Inside \cup {"torn"} => pc[t] = pc'[t] /\ loc'[t] = loc[t] /\ src'[t] = src[t]
    BY <1>5 DEF AuthKey, DropKeys, Goto, threadVars, Inside
  <2>q. QED
    BY <2>1, <2>2 DEF SpinInv
<1>6. ASSUME Alive, NEW s \in Sessions, AuthUnref(s) PROVE SpinInv'
  BY <1>6 DEF AuthUnref, Goto, SpinInv, Inside
<1>7. ASSUME Alive, NEW s \in Sessions, AuthRef(s) PROVE SpinInv'
  BY <1>7 DEF AuthRef, Done, Goto, SpinInv, Inside
<1>8. ASSUME Alive, NEW s \in Sessions, NEW c \in DOMAIN CapMask, FuncCall(s, c) PROVE SpinInv'
  BY <1>8 DEF FuncCall, Goto, SpinInv, Inside
<1>9. ASSUME Alive, NEW s \in Sessions, Refused(s) PROVE SpinInv'
  BY <1>9 DEF Refused, Done, Goto, SpinInv, Inside
<1>10. ASSUME Alive, NEW s \in Sessions, NEW n \in Names, NEW p \in Secrets, AddUser(s, n, p) PROVE SpinInv'
  BY <1>10 DEF AddUser, Calls, Done, Goto, SpinInv, Inside
<1>11. ASSUME Alive, NEW s \in Sessions, NEW u \in Ids, DropUser(s, u) PROVE SpinInv'
  BY <1>11 DEF DropUser, UserRemove, UserDetach, Calls, Done, Goto, SpinInv, Inside
<1>12. ASSUME Alive, NEW s \in Sessions, NEW u \in Ids, NEW p \in Secrets, UserModPass(s, u, p) PROVE SpinInv'
  BY <1>12 DEF UserModPass, ChangePass, Calls, Done, Goto, SpinInv, Inside
<1>13. ASSUME Alive, NEW s \in Sessions, NEW p \in Secrets, NEW knows \in BOOLEAN, SelfModPass(s, p, knows) PROVE SpinInv'
  BY <1>13 DEF SelfModPass, ChangePass, Calls, Done, Goto, SpinInv, Inside
<1>14. ASSUME Alive, NEW s \in Sessions, NEW g \in Groups, NEW u \in Ids, GroupAddUser(s, g, u) PROVE SpinInv'
  BY <1>14 DEF GroupAddUser, Calls, Done, Goto, SpinInv, Inside
<1>15. ASSUME Alive, NEW s \in Sessions, NEW g \in Groups, NEW u \in Ids, GroupDelUser(s, g, u) PROVE SpinInv'
  BY <1>15 DEF GroupDelUser, Calls, Done, Goto, SpinInv, Inside
<1>16. ASSUME Alive, NEW s \in Sessions, NEW g \in Groups, GroupShowUsers(s, g) PROVE SpinInv'
  <2>1. UNCHANGED <<spin, doubled>>
    BY <1>16 DEF GroupShowUsers
  <2>2. \A t \in Sessions : pc'[t] \in Inside \cup {"torn"} => pc[t] = pc'[t] /\ loc'[t] = loc[t] /\ src'[t] = src[t]
    BY <1>16 DEF GroupShowUsers, Calls, Done, Goto, Inside
  <2>q. QED
    BY <2>1, <2>2 DEF SpinInv
<1>17. ASSUME Alive, NEW s \in Sessions, NEW u \in Ids, NEW n \in Names, UserModName(s, u, n) PROVE SpinInv'
  BY <1>17 DEF UserModName, Calls, Goto, SpinInv, Inside
<1>18. ASSUME Alive, NEW s \in Sessions, LockTest(s) PROVE SpinInv'
  BY <1>18 DEF LockTest, SpinInv, Inside
<1>19. ASSUME Alive, NEW s \in Sessions, SwapName(s) PROVE SpinInv'
  <2>1. PICK u \in Ids : u = loc[s]
    BY <1>19 DEF SwapName, RenameInv, Renaming
  <2>2. \A t \in Sessions : t # s =>
          /\ loc'[t] = loc[t]
          /\ pc[t] = "copy" /\ src[t] = u => pc'[t] = "torn"
          /\ ~ (pc[t] = "copy" /\ src[t] = u) => pc'[t] = pc[t]
    BY <1>19, <2>1 DEF SwapName
  <2>3. pc'[s] = "idle" /\ UNCHANGED src
    BY <1>19 DEF SwapName
  <2>4. \A v \in Ids : v # u => spin'[v] = spin[v]
    BY <1>19, <2>1 DEF SwapName
  <2>5. \A t \in Sessions : t # s /\ pc[t] \in Inside \cup {"torn"} =>
          loc[t] \in doubled' <=> loc[t] \in doubled \/ (loc[t] = u /\ spin[u])
    BY <1>19, <2>1 DEF SwapName, Left, Taken, Inside
  <2>6. \A t \in Sessions : pc[t] \in Inside => loc[t] \in Ids
    BY DEF FoundInv, FoundAt, Reading, Inside
  <2>7. \A t \in Sessions : pc'[t] \in Inside => t # s /\ pc[t] \in Inside /\ loc'[t] = loc[t]
    BY <2>2, <2>3 DEF Inside
  <2>8. ASSUME NEW t \in Sessions, pc'[t] = "torn"
        PROVE  t # s /\ loc'[t] = loc[t] /\ (pc[t] = "torn" \/ (pc[t] = "copy" /\ src[t] = u))
    BY <2>2, <2>3, <2>8
  <2>9. \A t \in Sessions : pc'[t] \in Inside => spin'[loc'[t]] \/ loc'[t] \in doubled'
    BY <2>4, <2>5, <2>6, <2>7 DEF SpinInv
  <2>10. \A t \in Sessions : pc'[t] = "torn" /\ src'[t] = loc'[t] => loc'[t] \in doubled'
    BY <2>3, <2>5, <2>8 DEF SpinInv, Inside
  <2>11. \A t, x \in Sessions : t # x /\ pc'[t] \in Inside /\ pc'[x] \in Inside /\ loc'[t] = loc'[x] => loc'[t] \in doubled'
    BY <2>5, <2>7 DEF SpinInv
  <2>q. QED
    BY <2>9, <2>10, <2>11 DEF SpinInv
<1>20. ASSUME Alive, NEW s \in Sessions, NEW other \in Sessions, ShowSessions(s, other) PROVE SpinInv'
  BY <1>20 DEF ShowSessions, Calls, SpinInv, Inside
<1>21. ASSUME Alive, NEW s \in Sessions, KillSession(s) PROVE SpinInv'
  BY <1>21 DEF KillSession, Calls, Goto, SpinInv, Inside
<1>22. ASSUME Alive, NEW s \in Sessions, NEW k \in Keys, NEW old \in SUBSET Keys, ShowAuthKeys(s, k, old) PROVE SpinInv'
  <2>1. UNCHANGED <<spin, doubled>>
    BY <1>22 DEF ShowAuthKeys, DropKeys, Calls, Done, Goto
  <2>2. \A t \in Sessions : pc'[t] \in Inside \cup {"torn"} => pc[t] = pc'[t] /\ loc'[t] = loc[t] /\ src'[t] = src[t]
    BY <1>22 DEF ShowAuthKeys, DropKeys, Calls, Done, Goto, Inside
  <2>q. QED
    BY <2>1, <2>2 DEF SpinInv
<1>23. ASSUME Alive, NEW s \in Sessions, LockSet(s) PROVE SpinInv'
  <2>1. PICK u \in Ids : u = loc[s]
    BY <1>23 DEF LockSet, FoundInv, FoundAt, Reading
  <2>2. \A t \in Sessions : t # s => pc'[t] = pc[t] /\ src'[t] = src[t]
    BY <1>23 DEF LockSet
  <2>3. UNCHANGED loc /\ pc'[s] \in Inside /\ pc'[s] # "torn"
    BY <1>23 DEF LockSet, Inside
  <2>4. spin'[u] /\ \A v \in Ids : v # u => spin'[v] = spin[v]
    BY <1>23, <2>1 DEF LockSet
  <2>5. doubled \subseteq doubled' /\ (spin[u] => u \in doubled')
    BY <1>23, <2>1 DEF LockSet, Taken
  <2>6. \A t \in Sessions : pc[t] \in Inside => loc[t] \in Ids
    BY DEF FoundInv, FoundAt, Reading, Inside
  <2>7. \A t \in Sessions : pc'[t] \in Inside => spin'[loc'[t]] \/ loc'[t] \in doubled'
    BY <2>1, <2>2, <2>3, <2>4, <2>5, <2>6 DEF SpinInv
  <2>8. \A t \in Sessions : pc'[t] = "torn" /\ src'[t] = loc'[t] => loc'[t] \in doubled'
    BY <2>2, <2>3, <2>5 DEF SpinInv
  <2>9. \A t \in Sessions : t # s /\ pc[t] \in Inside /\ loc[t] = u => u \in doubled'
    BY <2>5 DEF SpinInv
  <2>10. \A t, x \in Sessions : t # x /\ pc'[t] \in Inside /\ pc'[x] \in Inside /\ loc'[t] = loc'[x] => loc'[t] \in doubled'
    BY <2>1, <2>2, <2>3, <2>5, <2>9 DEF SpinInv
  <2>q. QED
    BY <2>7, <2>8, <2>10 DEF SpinInv
<1>24. ASSUME Alive, NEW s \in Sessions, CopyName(s) PROVE SpinInv'
  <2>1. PICK u \in Ids : u = Unlocked(s)
    BY <1>24 DEF CopyName, Unlocked, FoundInv, FoundAt, ListingAt, Reading
  <2>2. \A t \in Sessions : t # s => loc'[t] = loc[t] /\ pc'[t] = pc[t] /\ src'[t] = src[t]
    BY <1>24 DEF CopyName, Done, Goto
  <2>3. pc'[s] = "idle"
    BY <1>24 DEF CopyName, Done, Goto
  <2>4. \A v \in Ids : v # u => spin'[v] = spin[v]
    BY <1>24, <2>1 DEF CopyName
  <2>5. \A t \in Sessions : t # s /\ pc[t] \in Inside \cup {"torn"} =>
          (loc[t] \in doubled' <=> loc[t] \in doubled \/ (loc[t] = u /\ u # loc[s]))
    BY <1>24, <2>1 DEF CopyName, Left, Inside
  <2>6. \A t \in Sessions : pc[t] \in Inside => loc[t] \in Ids
    BY DEF FoundInv, FoundAt, Reading, Inside
  <2>7. \A t \in Sessions : pc'[t] \in Inside \cup {"torn"} =>
          t # s /\ pc[t] = pc'[t] /\ loc'[t] = loc[t] /\ src'[t] = src[t]
    BY <2>2, <2>3 DEF Inside
  <2>8. \A t \in Sessions : pc[t] \in Inside /\ t # s /\ loc[t] = loc[s] => loc[t] \in doubled
    BY <1>24 DEF CopyName, SpinInv, Inside
  <2>9. \A t \in Sessions : pc'[t] \in Inside => spin'[loc'[t]] \/ loc'[t] \in doubled'
    BY <2>4, <2>5, <2>6, <2>7, <2>8 DEF SpinInv
  <2>10. \A t \in Sessions : pc'[t] = "torn" /\ src'[t] = loc'[t] => loc'[t] \in doubled'
    BY <2>5, <2>7 DEF SpinInv
  <2>11. \A t, x \in Sessions : t # x /\ pc'[t] \in Inside /\ pc'[x] \in Inside /\ loc'[t] = loc'[x] => loc'[t] \in doubled'
    BY <2>5, <2>7 DEF SpinInv
  <2>q. QED
    BY <2>9, <2>10, <2>11 DEF SpinInv
<1>25. ASSUME Alive, NEW s \in Sessions, Fault(s) PROVE SpinInv'
  BY <1>25 DEF Fault, SpinInv, Inside
<1>26. ASSUME Alive, NEW s \in Sessions, NEW k \in Keys, NEW old \in SUBSET Keys, GetAuthKey(s, k, old) PROVE SpinInv'
  BY <1>26 DEF GetAuthKey, Calls, Done, Goto, SpinInv, Inside
<1>27. ASSUME Alive, NEW s \in Sessions, NEW k \in Keys, NEW old \in SUBSET Keys, DropAuthKey(s, k, old) PROVE SpinInv'
  BY <1>27 DEF DropAuthKey, DropKeys, Calls, Done, Goto, SpinInv, Inside
<1>28. ASSUME Alive, NEW s \in Sessions, LogMessage(s) PROVE SpinInv'
  BY <1>28 DEF LogMessage, Goto, SpinInv, Inside
<1>29. ASSUME Alive, NEW s \in Sessions, ReadUser(s) PROVE SpinInv'
  BY <1>29 DEF ReadUser, SpinInv, Inside
<1>30. ASSUME Alive, NEW s \in Sessions, ReadName(s) PROVE SpinInv'
  BY <1>30 DEF ReadName, SpinInv, Inside
<1>31. ASSUME Alive, NEW s \in Sessions, NEW x \in Tasks, ShowTasks(s, x) PROVE SpinInv'
  BY <1>31 DEF ShowTasks, Calls, Goto, SpinInv, Inside
<1>32. ASSUME Alive, NEW s \in Sessions, NEW x \in Tasks, TaskNew(s, x) PROVE SpinInv'
  BY <1>32 DEF TaskNew, Calls, Done, Goto, SpinInv, Inside
<1>33. ASSUME Alive, NEW x \in Tasks, TaskRemove(x) PROVE SpinInv'
  BY <1>33 DEF TaskRemove, SpinInv, Inside
<1>34. ASSUME Alive, NEW x \in Tasks, TaskUnref(x) PROVE SpinInv'
  BY <1>34 DEF TaskUnref, SpinInv, Inside
<1>u. CASE UNCHANGED vars
  BY <1>u DEF vars, SpinInv
<1>x. ASSUME Alive, NEW s \in Sessions, Auth(s) PROVE SpinInv'
  BY ONLY <1>x, <1>3, <1>4, <1>5, <1>6, <1>7 DEF Auth
<1>y. ASSUME Alive, NEW s \in Sessions, Manage(s) PROVE SpinInv'
  BY ONLY <1>y, <1>17, <1>10, <1>11, <1>12, <1>13, <1>16, <1>14, <1>15, <1>26, <1>27 DEF Manage
<1>z. ASSUME Alive, NEW s \in Sessions, CopyNames(s) PROVE SpinInv'
  BY ONLY <1>z, <1>20, <1>22, <1>31, <1>21, <1>28, <1>29, <1>30, <1>18, <1>23, <1>24, <1>19 DEF CopyNames
<1>q. QED
  BY ONLY [Next]_vars, <1>a, <1>x, <1>y, <1>z, <1>1, <1>2, <1>8, <1>9, <1>25, <1>32, <1>33, <1>34, <1>u DEF Next

\* AuthorityStored in two parts: the rows of users and the groups.
RowsInv ==
  \A u \in Ids :
    /\ ~ Listed(u) => dbUser[u] = None
    /\ Listed(u) => dbUser[u] = Row(dbUser[u].name, secret[u])
    /\ Listed(u) /\ (\A s \in Sessions : ~ (pc[s] \in Renaming /\ loc[s] = u)) => dbUser[u].name = name[u]

CapsInv ==
  \A u \in Ids :
    /\ caps[u] = {g \in Groups : u \in dbMember[g]}
    /\ \A g \in Groups : u \in dbMember[g] => u \in member[g] /\ Listed(u)

LEMMA StoredParts == ASSUME TypeInv, RenameInv PROVE AuthorityStored <=> RowsInv /\ CapsInv
<1>1. ASSUME AuthorityStored PROVE RowsInv
  <2> SUFFICES ASSUME NEW u \in Ids, Listed(u)
               PROVE  /\ dbUser[u] = Row(dbUser[u].name, secret[u])
                      /\ (\A s \in Sessions : ~ (pc[s] \in Renaming /\ loc[s] = u)) => dbUser[u].name = name[u]
    BY <1>1 DEF RowsInv, AuthorityStored
  <2>1. ASSUME \A s \in Sessions : ~ (pc[s] \in Renaming /\ loc[s] = u) PROVE dbUser[u].name = name[u]
    <3>1. dbUser[u] = Row(name[u], secret[u])
      BY <1>1, <2>1 DEF AuthorityStored, Renaming
    <3>q. QED
      BY <3>1 DEF Row
  <2>q. QED
    BY <1>1, <2>1, RowOf
<1>2. ASSUME RowsInv, CapsInv PROVE AuthorityStored
  BY <1>2 DEF RowsInv, CapsInv, AuthorityStored, Renaming
<1>3. AuthorityStored => CapsInv
  BY DEF CapsInv, AuthorityStored
<1>q. QED
  BY <1>1, <1>2, <1>3

LEMMA StoredNext == ASSUME TypeInv', RenameInv', RowsInv', CapsInv' PROVE AuthorityStored'
  BY DEF RowsInv, CapsInv, AuthorityStored, Renaming

\* Steps that leave the rows of users, or the groups, alone.
LEMMA RowsSame ==
  ASSUME RowsInv, UNCHANGED dbUser,
         \A u \in Ids : (state'[u] = "listed") = (state[u] = "listed"),
         \A u \in Ids : state[u] = "listed" => name'[u] = name[u] /\ secret'[u] = secret[u],
         \A t \in Sessions : pc[t] \in Renaming => pc'[t] \in Renaming /\ loc'[t] = loc[t]
  PROVE  RowsInv'
  BY DEF RowsInv, Listed

LEMMA CapsSame ==
  ASSUME CapsInv, UNCHANGED <<caps, member, dbMember>>,
         \A u \in Ids : state[u] = "listed" => state'[u] = "listed"
  PROVE  CapsInv'
  BY DEF CapsInv, Listed

LEMMA RowsStep ==
  ASSUME IInv, [Next]_vars PROVE RowsInv'
<1> USE DEF IInv, TypeInv, userVars, groupVars, keyVars, taskVars, threadVars
<1>r. RowsInv
  BY StoredParts
<1>a. ASSUME Next PROVE Alive
  BY <1>a DEF Next
<1>1. ASSUME Alive, NEW s \in Sessions, NEW p \in Peers, Connect(s, p) PROVE RowsInv'
  BY <1>1, <1>r, RowsSame DEF Connect, Done, Goto, Renaming
<1>2. ASSUME Alive, NEW s \in Sessions, Quit(s) PROVE RowsInv'
  BY <1>2, <1>r, QuitRefs, RowsSame DEF Quit, Goto, Kept, Renaming
<1>3. ASSUME Alive, NEW s \in Sessions, NEW u \in Ids, AuthPlain(s, u) PROVE RowsInv'
  BY <1>3, <1>r, RowsSame DEF AuthPlain, Goto, Renaming
<1>4. ASSUME Alive, NEW s \in Sessions, NEW u \in Ids, AuthModule(s, u) PROVE RowsInv'
  BY <1>4, <1>r, RowsSame DEF AuthModule, Goto, Renaming
<1>5. ASSUME Alive, NEW s \in Sessions, NEW k \in Keys, NEW old \in SUBSET Keys, AuthKey(s, k, old) PROVE RowsInv'
  BY <1>5, <1>r, AuthKeyRefs, RowsSame DEF AuthKey, DropKeys, Goto, threadVars, Kept, Renaming
<1>6. ASSUME Alive, NEW s \in Sessions, AuthUnref(s) PROVE RowsInv'
  BY <1>6, <1>r, AuthUnrefRefs, RowsSame DEF AuthUnref, Goto, Kept, Renaming
<1>7. ASSUME Alive, NEW s \in Sessions, AuthRef(s) PROVE RowsInv'
  BY <1>7, <1>r, RowsSame DEF AuthRef, Done, Goto, Renaming
<1>8. ASSUME Alive, NEW s \in Sessions, NEW c \in DOMAIN CapMask, FuncCall(s, c) PROVE RowsInv'
  BY <1>8, <1>r, RowsSame DEF FuncCall, Goto, Renaming
<1>9. ASSUME Alive, NEW s \in Sessions, Refused(s) PROVE RowsInv'
  BY <1>9, <1>r, RowsSame DEF Refused, Done, Goto, Renaming
<1>10. ASSUME Alive, NEW s \in Sessions, NEW n \in Names, NEW p \in Secrets, AddUser(s, n, p) PROVE RowsInv'
  <2>1. \A t \in Sessions : pc[t] \notin Renaming
    BY <1>10 DEF AddUser, Calls, Done, Goto, MayWrite, MayRead, Renaming
  <2>2. PICK u \in Ids :
          /\ dbUser' = [dbUser EXCEPT ![u] = Row(n, p)]
          /\ state' = [state EXCEPT ![u] = "listed"]
          /\ name' = [name EXCEPT ![u] = n]
          /\ secret' = [secret EXCEPT ![u] = p]
    BY <1>10 DEF AddUser
  <2>3. ASSUME NEW v \in Ids
        PROVE  /\ state'[v] # "listed" => dbUser'[v] = None
               /\ state'[v] = "listed" => dbUser'[v] = Row(dbUser'[v].name, secret'[v]) /\ dbUser'[v].name = name'[v]
    <3>1. CASE v = u
      <4>1. dbUser'[v] = Row(n, p) /\ secret'[v] = p /\ name'[v] = n /\ state'[v] = "listed"
        BY <2>2, <3>1
      <4>2. dbUser'[v].name = n
        BY <4>1 DEF Row
      <4>q. QED
        BY <4>1, <4>2
    <3>2. CASE v # u
      <4>1. dbUser'[v] = dbUser[v] /\ secret'[v] = secret[v] /\ name'[v] = name[v] /\ state'[v] = state[v]
        BY <2>2, <3>2
      <4>q. QED
        BY <1>r, <2>1, <4>1 DEF RowsInv, Listed
    <3>q. QED
      BY <3>1, <3>2
  <2>q. QED
    BY <2>3 DEF RowsInv, Listed
<1>11. ASSUME Alive, NEW s \in Sessions, NEW u \in Ids, DropUser(s, u) PROVE RowsInv'
  <2>1. \A t \in Sessions : pc[t] \notin Renaming
    BY <1>11 DEF DropUser, UserRemove, UserDetach, Calls, Done, Goto, MayWrite, MayRead, Renaming
  <2>2. dbUser' = [dbUser EXCEPT ![u] = None] /\ state'[u] # "listed"
    BY <1>11, DropUserRefs DEF DropUser
  <2>3. \A v \in Ids : v # u =>
          /\ state'[v] = "listed" <=> state[v] = "listed"
          /\ state[v] = "listed" => name'[v] = name[v] /\ secret'[v] = secret[v]
    BY <1>11, DropUserRefs DEF States
  <2>4. \A v \in Ids : v # u => dbUser'[v] = dbUser[v]
    BY <2>2
  <2>5. dbUser'[u] = None
    BY <2>2
  <2>q. QED
    BY <1>r, <2>1, <2>2, <2>3, <2>4, <2>5 DEF RowsInv, Listed
<1>12. ASSUME Alive, NEW s \in Sessions, NEW u \in Ids, NEW p \in Secrets, UserModPass(s, u, p) PROVE RowsInv'
  <2>1. \A t \in Sessions : pc[t] \notin Renaming
    BY <1>12 DEF UserModPass, ChangePass, Calls, Done, Goto, MayWrite, MayRead, Renaming
  <2>2. dbUser' = [dbUser EXCEPT ![u] = Row(dbUser[u].name, p)]
    <3>1. [dbUser[u] EXCEPT !.secret = p] = Row(dbUser[u].name, p)
      BY <1>12, RowUpdate DEF UserModPass
    <3>q. QED
      BY <1>12, <3>1 DEF UserModPass, ChangePass
  <2>3. u \in Ids /\ Listed(u) /\ secret' = [secret EXCEPT ![u] = p] /\ UNCHANGED <<state, name>>
    BY <1>12 DEF UserModPass, ChangePass, Calls, Done, Goto
  <2>4. ASSUME NEW v \in Ids
        PROVE  /\ ~ Listed(v) => dbUser'[v] = None
               /\ Listed(v) => dbUser'[v] = Row(dbUser'[v].name, secret'[v])
               /\ Listed(v) => dbUser'[v].name = name[v]
    <3>1. Listed(v) => dbUser[v].name = name[v]
      BY <1>r, <2>1 DEF RowsInv
    <3>2. CASE v = u
      <4>1. dbUser'[v] = Row(dbUser[v].name, p) /\ secret'[v] = p
        BY <2>2, <2>3, <3>2
      <4>2. dbUser'[v].name = dbUser[v].name
        BY <4>1 DEF Row
      <4>q. QED
        BY <2>3, <3>1, <3>2, <4>1, <4>2
    <3>3. CASE v # u
      <4>1. dbUser'[v] = dbUser[v] /\ secret'[v] = secret[v]
        BY <2>2, <2>3, <3>3
      <4>q. QED
        BY <1>r, <3>1, <4>1 DEF RowsInv
    <3>q. QED
      BY <3>2, <3>3
  <2>q. QED
    BY <2>3, <2>4 DEF RowsInv, Listed
<1>13. ASSUME Alive, NEW s \in Sessions, NEW p \in Secrets, NEW knows \in BOOLEAN, SelfModPass(s, p, knows) PROVE RowsInv'
  <2>1. \A t \in Sessions : pc[t] \notin Renaming
    BY <1>13 DEF SelfModPass, ChangePass, Calls, Done, Goto, MayWrite, MayRead, Renaming
  <2>2. dbUser' = [dbUser EXCEPT ![user[s]] = Row(dbUser[user[s]].name, p)]
    <3>1. [dbUser[user[s]] EXCEPT !.secret = p] = Row(dbUser[user[s]].name, p)
      BY <1>13, RowUpdate DEF SelfModPass
    <3>q. QED
      BY <1>13, <3>1 DEF SelfModPass, ChangePass
  <2>3. user[s] \in Ids /\ Listed(user[s]) /\ secret' = [secret EXCEPT ![user[s]] = p] /\ UNCHANGED <<state, name>>
    BY <1>13 DEF SelfModPass, ChangePass, Calls, Done, Goto
  <2>4. ASSUME NEW v \in Ids
        PROVE  /\ ~ Listed(v) => dbUser'[v] = None
               /\ Listed(v) => dbUser'[v] = Row(dbUser'[v].name, secret'[v])
               /\ Listed(v) => dbUser'[v].name = name[v]
    <3>1. Listed(v) => dbUser[v].name = name[v]
      BY <1>r, <2>1 DEF RowsInv
    <3>2. CASE v = user[s]
      <4>1. dbUser'[v] = Row(dbUser[v].name, p) /\ secret'[v] = p
        BY <2>2, <2>3, <3>2
      <4>2. dbUser'[v].name = dbUser[v].name
        BY <4>1 DEF Row
      <4>q. QED
        BY <2>3, <3>1, <3>2, <4>1, <4>2
    <3>3. CASE v # user[s]
      <4>1. dbUser'[v] = dbUser[v] /\ secret'[v] = secret[v]
        BY <2>2, <2>3, <3>3
      <4>q. QED
        BY <1>r, <3>1, <4>1 DEF RowsInv
    <3>q. QED
      BY <3>2, <3>3
  <2>q. QED
    BY <2>3, <2>4 DEF RowsInv, Listed
<1>14. ASSUME Alive, NEW s \in Sessions, NEW g \in Groups, NEW u \in Ids, GroupAddUser(s, g, u) PROVE RowsInv'
  BY <1>14, <1>r, RowsSame DEF GroupAddUser, Calls, Done, Goto, Renaming
<1>15. ASSUME Alive, NEW s \in Sessions, NEW g \in Groups, NEW u \in Ids, GroupDelUser(s, g, u) PROVE RowsInv'
  BY <1>15, <1>r, RowsSame DEF GroupDelUser, Calls, Done, Goto, Renaming
<1>16. ASSUME Alive, NEW s \in Sessions, NEW g \in Groups, GroupShowUsers(s, g) PROVE RowsInv'
  BY <1>16, <1>r, RowsSame DEF GroupShowUsers, Calls, Done, Goto, Renaming
<1>17. ASSUME Alive, NEW s \in Sessions, NEW u \in Ids, NEW n \in Names, UserModName(s, u, n) PROVE RowsInv'
  <2>1. \A t \in Sessions : pc[t] \notin Renaming
    BY <1>17 DEF UserModName, Calls, Goto, MayWrite, MayRead, Renaming
  <2>2. dbUser' = [dbUser EXCEPT ![u] = Row(n, secret[u])]
    <3>1. [dbUser[u] EXCEPT !.name = n] = Row(n, secret[u])
      BY <1>17, RowUpdate DEF UserModName
    <3>q. QED
      BY <1>17, <3>1 DEF UserModName
  <2>3. dbUser'[u] = Row(dbUser'[u].name, secret[u])
    BY <2>2 DEF Row
  <2>4. UNCHANGED <<state, name, secret>> /\ Listed(u)
    BY <1>17 DEF UserModName, Calls, Goto
  <2>5. pc'[s] \in Renaming /\ loc'[s] = u
    BY <1>17 DEF UserModName, Calls, Goto, Renaming
  <2>6. \A v \in Ids : v # u => dbUser'[v] = dbUser[v]
    BY <2>2
  <2>7. \A v \in Ids, t \in Sessions : ~ (pc[t] \in Renaming /\ loc[t] = v)
    BY <2>1
  <2>8. ASSUME NEW v \in Ids
        PROVE  /\ ~ Listed(v) => dbUser'[v] = None
               /\ Listed(v) => dbUser'[v] = Row(dbUser'[v].name, secret[v])
               /\ Listed(v) /\ (\A t \in Sessions : ~ (pc'[t] \in Renaming /\ loc'[t] = v)) => dbUser'[v].name = name[v]
    <3>1. CASE v = u
      BY <2>3, <2>4, <2>5, <3>1
    <3>2. CASE v # u
      BY <1>r, <2>6, <2>7, <3>2 DEF RowsInv
    <3>q. QED
      BY <3>1, <3>2
  <2>q. QED
    BY <2>4, <2>8 DEF RowsInv, Listed
<1>18. ASSUME Alive, NEW s \in Sessions, LockTest(s) PROVE RowsInv'
  BY <1>18, <1>r, RowsSame DEF LockTest, Renaming
<1>19. ASSUME Alive, NEW s \in Sessions, SwapName(s) PROVE RowsInv'
  <2>1. PICK v \in Ids : v = loc[s]
    BY <1>19 DEF SwapName, RenameInv, Renaming
  <2>2. name'[v] = via[s] /\ dbUser[v].name = via[s] /\ \A u \in Ids : u # v => name'[u] = name[u]
    BY <1>19, <2>1 DEF SwapName, RenameInv, Renaming
  <2>3. UNCHANGED <<state, secret, dbUser>>
    BY <1>19 DEF SwapName
  <2>4. \A u \in Ids \ {v} : (\A t \in Sessions : ~ (pc'[t] \in Renaming /\ loc'[t] = u)) => (\A t \in Sessions : ~ (pc[t] \in Renaming /\ loc[t] = u))
    BY <1>19, <2>1 DEF SwapName, Renaming
  <2>5. ASSUME NEW u \in Ids, Listed(u), \A t \in Sessions : ~ (pc'[t] \in Renaming /\ loc'[t] = u)
        PROVE  dbUser[u].name = name'[u]
    BY <1>r, <2>2, <2>4, <2>5 DEF RowsInv
  <2>q. QED
    BY <1>r, <2>3, <2>5 DEF RowsInv, Listed
<1>20. ASSUME Alive, NEW s \in Sessions, NEW other \in Sessions, ShowSessions(s, other) PROVE RowsInv'
  BY <1>20, <1>r, RowsSame DEF ShowSessions, Calls, Renaming
<1>21. ASSUME Alive, NEW s \in Sessions, KillSession(s) PROVE RowsInv'
  BY <1>21, <1>r, RowsSame DEF KillSession, Calls, Goto, Renaming
<1>22. ASSUME Alive, NEW s \in Sessions, NEW k \in Keys, NEW old \in SUBSET Keys, ShowAuthKeys(s, k, old) PROVE RowsInv'
  BY <1>22, <1>r, ShowAuthKeysRefs, RowsSame DEF ShowAuthKeys, DropKeys, Calls, Done, Goto, Kept, Renaming
<1>23. ASSUME Alive, NEW s \in Sessions, LockSet(s) PROVE RowsInv'
  BY <1>23, <1>r, RowsSame DEF LockSet, Renaming
<1>24. ASSUME Alive, NEW s \in Sessions, CopyName(s) PROVE RowsInv'
  BY <1>24, <1>r, RowsSame DEF CopyName, Done, Goto, Renaming
<1>25. ASSUME Alive, NEW s \in Sessions, Fault(s) PROVE RowsInv'
  BY <1>25, <1>r, RowsSame DEF Fault, Renaming
<1>26. ASSUME Alive, NEW s \in Sessions, NEW k \in Keys, NEW old \in SUBSET Keys, GetAuthKey(s, k, old) PROVE RowsInv'
  BY <1>26, <1>r, GetAuthKeyRefs, RowsSame DEF GetAuthKey, Calls, Done, Goto, Kept, Renaming
<1>27. ASSUME Alive, NEW s \in Sessions, NEW k \in Keys, NEW old \in SUBSET Keys, DropAuthKey(s, k, old) PROVE RowsInv'
  BY <1>27, <1>r, DropAuthKeyRefs, RowsSame DEF DropAuthKey, DropKeys, Calls, Done, Goto, Kept, Renaming
<1>28. ASSUME Alive, NEW s \in Sessions, LogMessage(s) PROVE RowsInv'
  BY <1>28, <1>r, RowsSame DEF LogMessage, Goto, Renaming
<1>29. ASSUME Alive, NEW s \in Sessions, ReadUser(s) PROVE RowsInv'
  BY <1>29, <1>r, RowsSame DEF ReadUser, Renaming
<1>30. ASSUME Alive, NEW s \in Sessions, ReadName(s) PROVE RowsInv'
  BY <1>30, <1>r, RowsSame DEF ReadName, Renaming
<1>31. ASSUME Alive, NEW s \in Sessions, NEW x \in Tasks, ShowTasks(s, x) PROVE RowsInv'
  BY <1>31, <1>r, RowsSame DEF ShowTasks, Calls, Goto, Renaming
<1>32. ASSUME Alive, NEW s \in Sessions, NEW x \in Tasks, TaskNew(s, x) PROVE RowsInv'
  BY <1>32, <1>r, RowsSame DEF TaskNew, Calls, Done, Goto, Renaming
<1>33. ASSUME Alive, NEW x \in Tasks, TaskRemove(x) PROVE RowsInv'
  BY <1>33, <1>r, RowsSame DEF TaskRemove, Renaming
<1>34. ASSUME Alive, NEW x \in Tasks, TaskUnref(x) PROVE RowsInv'
  BY <1>34, <1>r, TaskUnrefRefs, RowsSame DEF TaskUnref, Kept, Renaming
<1>u. CASE UNCHANGED vars
  BY <1>r, <1>u DEF vars, RowsInv, Listed
<1>x. ASSUME Alive, NEW s \in Sessions, Auth(s) PROVE RowsInv'
  BY ONLY <1>x, <1>3, <1>4, <1>5, <1>6, <1>7 DEF Auth
<1>y. ASSUME Alive, NEW s \in Sessions, Manage(s) PROVE RowsInv'
  BY ONLY <1>y, <1>17, <1>10, <1>11, <1>12, <1>13, <1>16, <1>14, <1>15, <1>26, <1>27 DEF Manage
<1>z. ASSUME Alive, NEW s \in Sessions, CopyNames(s) PROVE RowsInv'
  BY ONLY <1>z, <1>20, <1>22, <1>31, <1>21, <1>28, <1>29, <1>30, <1>18, <1>23, <1>24, <1>19 DEF CopyNames
<1>q. QED
  BY ONLY [Next]_vars, <1>a, <1>x, <1>y, <1>z, <1>1, <1>2, <1>8, <1>9, <1>25, <1>32, <1>33, <1>34, <1>u DEF Next

LEMMA CapsStep ==
  ASSUME IInv, [Next]_vars PROVE CapsInv'
<1> USE DEF IInv, TypeInv, userVars, groupVars, keyVars, taskVars, threadVars
<1>c. CapsInv
  BY StoredParts
<1>a. ASSUME Next PROVE Alive
  BY <1>a DEF Next
<1>1. ASSUME Alive, NEW s \in Sessions, NEW p \in Peers, Connect(s, p) PROVE CapsInv'
  BY <1>1, <1>c, CapsSame DEF Connect, Done, Goto
<1>2. ASSUME Alive, NEW s \in Sessions, Quit(s) PROVE CapsInv'
  BY <1>2, <1>c, QuitRefs, CapsSame DEF Quit, Goto, Kept
<1>3. ASSUME Alive, NEW s \in Sessions, NEW u \in Ids, AuthPlain(s, u) PROVE CapsInv'
  BY <1>3, <1>c, CapsSame DEF AuthPlain, Goto
<1>4. ASSUME Alive, NEW s \in Sessions, NEW u \in Ids, AuthModule(s, u) PROVE CapsInv'
  BY <1>4, <1>c, CapsSame DEF AuthModule, Goto
<1>5. ASSUME Alive, NEW s \in Sessions, NEW k \in Keys, NEW old \in SUBSET Keys, AuthKey(s, k, old) PROVE CapsInv'
  BY <1>5, <1>c, AuthKeyRefs, CapsSame DEF AuthKey, DropKeys, Goto, threadVars, Kept
<1>6. ASSUME Alive, NEW s \in Sessions, AuthUnref(s) PROVE CapsInv'
  BY <1>6, <1>c, AuthUnrefRefs, CapsSame DEF AuthUnref, Goto, Kept
<1>7. ASSUME Alive, NEW s \in Sessions, AuthRef(s) PROVE CapsInv'
  BY <1>7, <1>c, CapsSame DEF AuthRef, Done, Goto
<1>8. ASSUME Alive, NEW s \in Sessions, NEW c \in DOMAIN CapMask, FuncCall(s, c) PROVE CapsInv'
  BY <1>8, <1>c, CapsSame DEF FuncCall, Goto
<1>9. ASSUME Alive, NEW s \in Sessions, Refused(s) PROVE CapsInv'
  BY <1>9, <1>c, CapsSame DEF Refused, Done, Goto
<1>10. ASSUME Alive, NEW s \in Sessions, NEW n \in Names, NEW p \in Secrets, AddUser(s, n, p) PROVE CapsInv'
  BY <1>10, <1>c, CapsSame DEF AddUser, Calls, Done, Goto
<1>11. ASSUME Alive, NEW s \in Sessions, NEW u \in Ids, DropUser(s, u) PROVE CapsInv'
  <2>1. \A v \in Ids : v # u /\ state[v] = "listed" => state'[v] = "listed"
    BY <1>11, DropUserRefs
  <2>2. UNCHANGED member
    <3>1. caps'[u] = {}
      BY <1>11 DEF DropUser, UserRemove, UserDetach, Calls, Done, Goto
    <3>q. QED
      BY <1>11, <3>1 DEF DropUser, UserRemove, UserDetach, Calls, Done, Goto
  <2>3. dbMember' = [g \in Groups |-> dbMember[g] \ {u}] /\ caps' = [caps EXCEPT ![u] = {}]
    BY <1>11 DEF DropUser, UserRemove, UserDetach, Calls, Done, Goto
  <2>4. ASSUME NEW v \in Ids PROVE caps'[v] = {g \in Groups : v \in dbMember'[g]}
    <3>1. CASE v = u
      BY <2>3, <3>1
    <3>2. CASE v # u
      BY <1>c, <2>3, <3>2 DEF CapsInv
    <3>q. QED
      BY <3>1, <3>2
  <2>5. ASSUME NEW v \in Ids, NEW g \in Groups, v \in dbMember'[g] PROVE v \in member[g] /\ state'[v] = "listed"
    BY <1>c, <2>1, <2>3, <2>5 DEF CapsInv, Listed
  <2>q. QED
    BY <2>2, <2>4, <2>5 DEF CapsInv, Listed
<1>12. ASSUME Alive, NEW s \in Sessions, NEW u \in Ids, NEW p \in Secrets, UserModPass(s, u, p) PROVE CapsInv'
  BY <1>12, <1>c, CapsSame DEF UserModPass, ChangePass, Calls, Done, Goto
<1>13. ASSUME Alive, NEW s \in Sessions, NEW p \in Secrets, NEW knows \in BOOLEAN, SelfModPass(s, p, knows) PROVE CapsInv'
  BY <1>13, <1>c, CapsSame DEF SelfModPass, ChangePass, Calls, Done, Goto
<1>14. ASSUME Alive, NEW s \in Sessions, NEW g \in Groups, NEW u \in Ids, GroupAddUser(s, g, u) PROVE CapsInv'
  <2>1. /\ dbMember' = [dbMember EXCEPT ![g] = @ \cup {u}]
        /\ member' = [member EXCEPT ![g] = @ \cup {u}]
        /\ caps' = [caps EXCEPT ![u] = @ \cup {g}]
        /\ UNCHANGED state /\ state[u] = "listed"
    BY <1>14 DEF GroupAddUser, Calls, Done, Goto, Listed
  <2>2. ASSUME NEW v \in Ids PROVE caps'[v] = {h \in Groups : v \in dbMember'[h]}
    <3>1. caps[v] = {h \in Groups : v \in dbMember[h]}
      BY <1>c DEF CapsInv
    <3>2. CASE v = u
      BY <1>14, <2>1, <3>1, <3>2
    <3>3. CASE v # u
      BY <1>14, <2>1, <3>1, <3>3
    <3>q. QED
      BY <3>2, <3>3
  <2>3. ASSUME NEW v \in Ids, NEW h \in Groups, v \in dbMember'[h] PROVE v \in member'[h] /\ state'[v] = "listed"
    BY <1>14, <1>c, <2>1, <2>3 DEF CapsInv, Listed
  <2>q. QED
    BY <2>2, <2>3 DEF CapsInv, Listed
<1>15. ASSUME Alive, NEW s \in Sessions, NEW g \in Groups, NEW u \in Ids, GroupDelUser(s, g, u) PROVE CapsInv'
  <2>1. /\ dbMember' = [dbMember EXCEPT ![g] = @ \ {u}]
        /\ member' = [member EXCEPT ![g] = @ \ {u}]
        /\ caps' = [caps EXCEPT ![u] = @ \ {g}]
        /\ UNCHANGED state /\ state[u] = "listed"
    BY <1>15 DEF GroupDelUser, Calls, Done, Goto, Listed
  <2>2. ASSUME NEW v \in Ids PROVE caps'[v] = {h \in Groups : v \in dbMember'[h]}
    <3>1. caps[v] = {h \in Groups : v \in dbMember[h]}
      BY <1>c DEF CapsInv
    <3>2. CASE v = u
      BY <1>15, <2>1, <3>1, <3>2
    <3>3. CASE v # u
      BY <1>15, <2>1, <3>1, <3>3
    <3>q. QED
      BY <3>2, <3>3
  <2>3. ASSUME NEW v \in Ids, NEW h \in Groups, v \in dbMember'[h] PROVE v \in member'[h] /\ state'[v] = "listed"
    BY <1>15, <1>c, <2>1, <2>3 DEF CapsInv, Listed
  <2>q. QED
    BY <2>2, <2>3 DEF CapsInv, Listed
<1>16. ASSUME Alive, NEW s \in Sessions, NEW g \in Groups, GroupShowUsers(s, g) PROVE CapsInv'
  BY <1>16, <1>c, CapsSame DEF GroupShowUsers, Calls, Done, Goto
<1>17. ASSUME Alive, NEW s \in Sessions, NEW u \in Ids, NEW n \in Names, UserModName(s, u, n) PROVE CapsInv'
  BY <1>17, <1>c, CapsSame DEF UserModName, Calls, Goto
<1>18. ASSUME Alive, NEW s \in Sessions, LockTest(s) PROVE CapsInv'
  BY <1>18, <1>c, CapsSame DEF LockTest
<1>19. ASSUME Alive, NEW s \in Sessions, SwapName(s) PROVE CapsInv'
  BY <1>19, <1>c, CapsSame DEF SwapName
<1>20. ASSUME Alive, NEW s \in Sessions, NEW other \in Sessions, ShowSessions(s, other) PROVE CapsInv'
  BY <1>20, <1>c, CapsSame DEF ShowSessions, Calls
<1>21. ASSUME Alive, NEW s \in Sessions, KillSession(s) PROVE CapsInv'
  BY <1>21, <1>c, CapsSame DEF KillSession, Calls, Goto
<1>22. ASSUME Alive, NEW s \in Sessions, NEW k \in Keys, NEW old \in SUBSET Keys, ShowAuthKeys(s, k, old) PROVE CapsInv'
  BY <1>22, <1>c, ShowAuthKeysRefs, CapsSame DEF ShowAuthKeys, DropKeys, Calls, Done, Goto, Kept
<1>23. ASSUME Alive, NEW s \in Sessions, LockSet(s) PROVE CapsInv'
  BY <1>23, <1>c, CapsSame DEF LockSet
<1>24. ASSUME Alive, NEW s \in Sessions, CopyName(s) PROVE CapsInv'
  BY <1>24, <1>c, CapsSame DEF CopyName, Done, Goto
<1>25. ASSUME Alive, NEW s \in Sessions, Fault(s) PROVE CapsInv'
  BY <1>25, <1>c, CapsSame DEF Fault
<1>26. ASSUME Alive, NEW s \in Sessions, NEW k \in Keys, NEW old \in SUBSET Keys, GetAuthKey(s, k, old) PROVE CapsInv'
  BY <1>26, <1>c, GetAuthKeyRefs, CapsSame DEF GetAuthKey, Calls, Done, Goto, Kept
<1>27. ASSUME Alive, NEW s \in Sessions, NEW k \in Keys, NEW old \in SUBSET Keys, DropAuthKey(s, k, old) PROVE CapsInv'
  BY <1>27, <1>c, DropAuthKeyRefs, CapsSame DEF DropAuthKey, DropKeys, Calls, Done, Goto, Kept
<1>28. ASSUME Alive, NEW s \in Sessions, LogMessage(s) PROVE CapsInv'
  BY <1>28, <1>c, CapsSame DEF LogMessage, Goto
<1>29. ASSUME Alive, NEW s \in Sessions, ReadUser(s) PROVE CapsInv'
  BY <1>29, <1>c, CapsSame DEF ReadUser
<1>30. ASSUME Alive, NEW s \in Sessions, ReadName(s) PROVE CapsInv'
  BY <1>30, <1>c, CapsSame DEF ReadName
<1>31. ASSUME Alive, NEW s \in Sessions, NEW x \in Tasks, ShowTasks(s, x) PROVE CapsInv'
  BY <1>31, <1>c, CapsSame DEF ShowTasks, Calls, Goto
<1>32. ASSUME Alive, NEW s \in Sessions, NEW x \in Tasks, TaskNew(s, x) PROVE CapsInv'
  BY <1>32, <1>c, CapsSame DEF TaskNew, Calls, Done, Goto
<1>33. ASSUME Alive, NEW x \in Tasks, TaskRemove(x) PROVE CapsInv'
  BY <1>33, <1>c, CapsSame DEF TaskRemove
<1>34. ASSUME Alive, NEW x \in Tasks, TaskUnref(x) PROVE CapsInv'
  BY <1>34, <1>c, TaskUnrefRefs, CapsSame DEF TaskUnref, Kept
<1>u. CASE UNCHANGED vars
  BY <1>c, <1>u DEF vars, CapsInv, Listed
<1>x. ASSUME Alive, NEW s \in Sessions, Auth(s) PROVE CapsInv'
  BY ONLY <1>x, <1>3, <1>4, <1>5, <1>6, <1>7 DEF Auth
<1>y. ASSUME Alive, NEW s \in Sessions, Manage(s) PROVE CapsInv'
  BY ONLY <1>y, <1>17, <1>10, <1>11, <1>12, <1>13, <1>16, <1>14, <1>15, <1>26, <1>27 DEF Manage
<1>z. ASSUME Alive, NEW s \in Sessions, CopyNames(s) PROVE CapsInv'
  BY ONLY <1>z, <1>20, <1>22, <1>31, <1>21, <1>28, <1>29, <1>30, <1>18, <1>23, <1>24, <1>19 DEF CopyNames
<1>q. QED
  BY ONLY [Next]_vars, <1>a, <1>x, <1>y, <1>z, <1>1, <1>2, <1>8, <1>9, <1>25, <1>32, <1>33, <1>34, <1>u DEF Next

LEMMA NoFault == ASSUME \A t \in Sessions : pc'[t] # "fault" PROVE FaultsKnown'
  BY DEF FaultsKnown

LEMMA FaultsStep ==
  ASSUME IInv, [Next]_vars PROVE FaultsKnown'
<1> USE DEF IInv, TypeInv, userVars, groupVars, keyVars, taskVars, threadVars
<1>a. ASSUME Next PROVE Alive
  BY <1>a DEF Next
<1>1. ASSUME Alive, NEW s \in Sessions, NEW p \in Peers, Connect(s, p) PROVE FaultsKnown'
  BY <1>1, NoFault DEF Connect, Done, Goto, Alive
<1>2. ASSUME Alive, NEW s \in Sessions, Quit(s) PROVE FaultsKnown'
  BY <1>2, NoFault DEF Quit, Goto, Alive
<1>3. ASSUME Alive, NEW s \in Sessions, NEW u \in Ids, AuthPlain(s, u) PROVE FaultsKnown'
  BY <1>3, NoFault DEF AuthPlain, Goto, Alive
<1>4. ASSUME Alive, NEW s \in Sessions, NEW u \in Ids, AuthModule(s, u) PROVE FaultsKnown'
  BY <1>4, NoFault DEF AuthModule, Goto, Alive
<1>5. ASSUME Alive, NEW s \in Sessions, NEW k \in Keys, NEW old \in SUBSET Keys, AuthKey(s, k, old) PROVE FaultsKnown'
  BY <1>5, NoFault DEF AuthKey, DropKeys, Goto, threadVars, Alive
<1>6. ASSUME Alive, NEW s \in Sessions, AuthUnref(s) PROVE FaultsKnown'
  BY <1>6, NoFault DEF AuthUnref, Goto, Alive
<1>7. ASSUME Alive, NEW s \in Sessions, AuthRef(s) PROVE FaultsKnown'
  BY <1>7, NoFault DEF AuthRef, Done, Goto, Alive
<1>8. ASSUME Alive, NEW s \in Sessions, NEW c \in DOMAIN CapMask, FuncCall(s, c) PROVE FaultsKnown'
  BY <1>8, NoFault DEF FuncCall, Goto, Alive
<1>9. ASSUME Alive, NEW s \in Sessions, Refused(s) PROVE FaultsKnown'
  BY <1>9, NoFault DEF Refused, Done, Goto, Alive
<1>10. ASSUME Alive, NEW s \in Sessions, NEW n \in Names, NEW p \in Secrets, AddUser(s, n, p) PROVE FaultsKnown'
  BY <1>10, NoFault DEF AddUser, Calls, Done, Goto, Alive
<1>11. ASSUME Alive, NEW s \in Sessions, NEW u \in Ids, DropUser(s, u) PROVE FaultsKnown'
  BY <1>11, NoFault DEF DropUser, UserRemove, UserDetach, Calls, Done, Goto, Alive
<1>12. ASSUME Alive, NEW s \in Sessions, NEW u \in Ids, NEW p \in Secrets, UserModPass(s, u, p) PROVE FaultsKnown'
  BY <1>12, NoFault DEF UserModPass, ChangePass, Calls, Done, Goto, Alive
<1>13. ASSUME Alive, NEW s \in Sessions, NEW p \in Secrets, NEW knows \in BOOLEAN, SelfModPass(s, p, knows) PROVE FaultsKnown'
  BY <1>13, NoFault DEF SelfModPass, ChangePass, Calls, Done, Goto, Alive
<1>14. ASSUME Alive, NEW s \in Sessions, NEW g \in Groups, NEW u \in Ids, GroupAddUser(s, g, u) PROVE FaultsKnown'
  BY <1>14, NoFault DEF GroupAddUser, Calls, Done, Goto, Alive
<1>15. ASSUME Alive, NEW s \in Sessions, NEW g \in Groups, NEW u \in Ids, GroupDelUser(s, g, u) PROVE FaultsKnown'
  BY <1>15, NoFault DEF GroupDelUser, Calls, Done, Goto, Alive
<1>16. ASSUME Alive, NEW s \in Sessions, NEW g \in Groups, GroupShowUsers(s, g) PROVE FaultsKnown'
  <2>1. CASE Done(s)
    BY <1>16, <2>1, NoFault DEF GroupShowUsers, Calls, Done, Goto, Alive
  <2>2. CASE ~ Done(s)
    <3>1. PICK u \in member[g] : state[u] = "freed" /\ Goto(s, "fault", u, "group")
      BY <1>16, <2>2 DEF GroupShowUsers
    <3>2. \A t \in Sessions : pc'[t] = "fault" => t = s
      BY <1>16, <3>1 DEF Goto, Alive
    <3>3. via'[s] = "group" /\ loc'[s] = u /\ UNCHANGED dbMember
      BY <1>16, <3>1 DEF GroupShowUsers, Goto
    <3>4. \A h \in Groups : u \notin dbMember[h]
      BY <1>16, <3>1, StoredParts DEF CapsInv, Listed
    <3>q. QED
      BY <3>2, <3>3, <3>4 DEF FaultsKnown
  <2>q. QED
    BY <2>1, <2>2
<1>17. ASSUME Alive, NEW s \in Sessions, NEW u \in Ids, NEW n \in Names, UserModName(s, u, n) PROVE FaultsKnown'
  BY <1>17, NoFault DEF UserModName, Calls, Goto, Alive
<1>18. ASSUME Alive, NEW s \in Sessions, LockTest(s) PROVE FaultsKnown'
  BY <1>18, NoFault DEF LockTest, Alive
<1>19. ASSUME Alive, NEW s \in Sessions, SwapName(s) PROVE FaultsKnown'
  BY <1>19, NoFault DEF SwapName, Alive
<1>20. ASSUME Alive, NEW s \in Sessions, NEW other \in Sessions, ShowSessions(s, other) PROVE FaultsKnown'
  BY <1>20, NoFault DEF ShowSessions, Calls, Alive
<1>21. ASSUME Alive, NEW s \in Sessions, KillSession(s) PROVE FaultsKnown'
  BY <1>21, NoFault DEF KillSession, Calls, Goto, Alive
<1>22. ASSUME Alive, NEW s \in Sessions, NEW k \in Keys, NEW old \in SUBSET Keys, ShowAuthKeys(s, k, old) PROVE FaultsKnown'
  BY <1>22, NoFault DEF ShowAuthKeys, DropKeys, Calls, Done, Goto, Alive
<1>23. ASSUME Alive, NEW s \in Sessions, LockSet(s) PROVE FaultsKnown'
  BY <1>23, NoFault DEF LockSet, Alive
<1>24. ASSUME Alive, NEW s \in Sessions, CopyName(s) PROVE FaultsKnown'
  BY <1>24, NoFault DEF CopyName, Done, Goto, Alive
<1>25. ASSUME Alive, NEW s \in Sessions, Fault(s) PROVE FaultsKnown'
  <2>1. \A t \in Sessions : pc'[t] = IF t = s THEN "fault" ELSE pc[t]
    BY <1>25 DEF Fault
  <2>2. \A t \in Sessions : pc'[t] = "fault" => t = s
    BY <1>25, <2>1 DEF Alive
  <2>3. UNCHANGED <<state, doubled, keyUser, user, loc, via, shifted>>
    BY <1>25 DEF Fault
  <2>4. \A u \in Ids : state[u] = "freed" => Holders(u) = {}
    BY <1>25 DEF RefsInv, Counted
  <2>5. FoundAt(s)
    BY DEF FoundInv
  <2>6. CASE pc[s] = "swap"
    <3>1. loc[s] \in Ids /\ state[loc[s]] = "freed" /\ via[s] = "key"
      BY <1>25, <2>5, <2>6 DEF Fault, FoundAt, Authorizing, Listed
    <3>2. \A k \in Keys : keyUser[k] # loc[s]
      BY <2>4, <3>1 DEF Holders
    <3>q. QED
      BY <2>2, <2>3, <3>1, <3>2 DEF FaultsKnown
  <2>7. CASE Reading(s) /\ via[s] \in Sessions /\ s \in shifted
    <3>1. pc'[via[s]] # "off"
      BY <2>1, <2>5, <2>7 DEF FoundAt, ListingAt
    <3>q. QED
      BY <2>2, <2>3, <2>7, <3>1 DEF FaultsKnown
  <2>8. CASE Reading(s) /\ pc[s] # "read" /\ ~ (via[s] \in Sessions /\ s \in shifted)
    <3>1. loc[s] \in Ids
      BY <2>5, <2>8 DEF FoundAt
    <3>2. Holders(loc[s]) # {}
      <4>1. CASE via[s] = "self"
        BY <2>5, <2>8, <4>1 DEF FoundAt, Holders, Reading
      <4>2. CASE via[s] = "keys"
        BY <2>5, <2>8, <4>2 DEF FoundAt, Holders
      <4>3. CASE via[s] = "tasks"
        BY <2>5, <2>8, <4>3 DEF FoundAt, Holders
      <4>4. CASE via[s] \in Sessions
        BY <2>5, <2>8, <4>4 DEF FoundAt, ListingAt, Holders
      <4>q. QED
        BY <2>5, <2>8, <4>1, <4>2, <4>3, <4>4 DEF FoundAt
    <3>3. state[loc[s]] # "freed"
      BY <2>4, <3>1, <3>2
    <3>4. /\ via[s] \in Sessions => user[via[s]] = loc[s]
          /\ pc[s] \in {"copy", "torn"} => src[s] = loc[s]
          /\ pc[s] = "name" => via[s] \in Sessions
      BY <2>5, <2>8 DEF FoundAt, ListingAt
    <3>5. Unlocked(s) = loc[s]
      BY <3>4 DEF Unlocked
    <3>6. pc[s] = "torn"
      BY <1>25, <2>8, <3>3, <3>4, <3>5 DEF Fault, Reading
    <3>q. QED
      BY <2>2, <2>3, <3>3, <3>4, <3>6 DEF FaultsKnown, SpinInv
  <2>q. QED
    BY <1>25, <2>6, <2>7, <2>8 DEF Fault, Reading
<1>26. ASSUME Alive, NEW s \in Sessions, NEW k \in Keys, NEW old \in SUBSET Keys, GetAuthKey(s, k, old) PROVE FaultsKnown'
  BY <1>26, NoFault DEF GetAuthKey, Calls, Done, Goto, Alive
<1>27. ASSUME Alive, NEW s \in Sessions, NEW k \in Keys, NEW old \in SUBSET Keys, DropAuthKey(s, k, old) PROVE FaultsKnown'
  BY <1>27, NoFault DEF DropAuthKey, DropKeys, Calls, Done, Goto, Alive
<1>28. ASSUME Alive, NEW s \in Sessions, LogMessage(s) PROVE FaultsKnown'
  BY <1>28, NoFault DEF LogMessage, Goto, Alive
<1>29. ASSUME Alive, NEW s \in Sessions, ReadUser(s) PROVE FaultsKnown'
  BY <1>29, NoFault DEF ReadUser, Alive
<1>30. ASSUME Alive, NEW s \in Sessions, ReadName(s) PROVE FaultsKnown'
  BY <1>30, NoFault DEF ReadName, Alive
<1>31. ASSUME Alive, NEW s \in Sessions, NEW x \in Tasks, ShowTasks(s, x) PROVE FaultsKnown'
  BY <1>31, NoFault DEF ShowTasks, Calls, Goto, Alive
<1>32. ASSUME Alive, NEW s \in Sessions, NEW x \in Tasks, TaskNew(s, x) PROVE FaultsKnown'
  BY <1>32, NoFault DEF TaskNew, Calls, Done, Goto, Alive
<1>33. ASSUME Alive, NEW x \in Tasks, TaskRemove(x) PROVE FaultsKnown'
  BY <1>33, NoFault DEF TaskRemove, Alive
<1>34. ASSUME Alive, NEW x \in Tasks, TaskUnref(x) PROVE FaultsKnown'
  BY <1>34, NoFault DEF TaskUnref, Alive
<1>u. CASE UNCHANGED vars
  BY <1>u DEF vars, FaultsKnown
<1>x. ASSUME Alive, NEW s \in Sessions, Auth(s) PROVE FaultsKnown'
  BY ONLY <1>x, <1>3, <1>4, <1>5, <1>6, <1>7 DEF Auth
<1>y. ASSUME Alive, NEW s \in Sessions, Manage(s) PROVE FaultsKnown'
  BY ONLY <1>y, <1>17, <1>10, <1>11, <1>12, <1>13, <1>16, <1>14, <1>15, <1>26, <1>27 DEF Manage
<1>z. ASSUME Alive, NEW s \in Sessions, CopyNames(s) PROVE FaultsKnown'
  BY ONLY <1>z, <1>20, <1>22, <1>31, <1>21, <1>28, <1>29, <1>30, <1>18, <1>23, <1>24, <1>19 DEF CopyNames
<1>q. QED
  BY ONLY [Next]_vars, <1>a, <1>x, <1>y, <1>z, <1>1, <1>2, <1>8, <1>9, <1>25, <1>32, <1>33, <1>34, <1>u DEF Next

-----------------------------------------------------------------------------
(* The theorems.                                                           *)

LEMMA Initially == Init => IInv
<1> SUFFICES ASSUME Init PROVE IInv
  OBVIOUS
<1>1. PICK n \in Names :
        /\ name = [u \in Ids |-> IF u = 1 THEN n ELSE None]
        /\ dbUser = [u \in Ids |-> IF u = 1 THEN Row(n, TRUE) ELSE None]
  BY DEF Init
<1>2. /\ state = [u \in Ids |-> IF u = 1 THEN "listed" ELSE "none"]
      /\ secret = [u \in Ids |-> u = 1]
      /\ caps = [u \in Ids |-> IF u = 1 THEN {"root"} ELSE {}]
      /\ nref = [u \in Ids |-> IF u = 1 THEN 1 ELSE 0]
      /\ spin = [u \in Ids |-> FALSE]
      /\ doubled = {}
      /\ member = [g \in Groups |-> IF g = "root" THEN {1} ELSE {}]
      /\ dbMember = member
      /\ keyUser = [k \in Keys |-> None]
      /\ taskUser = [t \in Tasks |-> None]
      /\ taskTable = {}
      /\ src = [s \in Sessions |-> None]
      /\ shifted = {}
      /\ user = [s \in Sessions |-> None]
      /\ pc = [s \in Sessions |-> "off"]
      /\ loc = [s \in Sessions |-> None]
      /\ via = [s \in Sessions |-> None]
  BY DEF Init
<1>3. 1 \in Ids
  BY MaxIdAssumption DEF Ids
<1>4. TypeInv
  <2>1. secret \in [Ids -> BOOLEAN] /\ spin \in [Ids -> BOOLEAN]
    BY <1>2
  <2>2. dbUser \in [Ids -> [name : Names \cup {None}, secret : BOOLEAN] \cup {None}]
    BY <1>1 DEF Row
  <2>3. state \in [Ids -> States] /\ pc \in [Sessions -> PCs] /\ nref \in [Ids -> Int]
    BY <1>2 DEF States, PCs
  <2>4. member \in [Groups -> SUBSET Ids] /\ dbMember \in [Groups -> SUBSET Ids]
    BY <1>2, <1>3
  <2>5. caps \in [Ids -> SUBSET Groups]
    BY <1>2, GroupsAssumption
  <2>q. QED
    BY <1>1, <1>2, <2>1, <2>2, <2>3, <2>4, <2>5 DEF TypeInv
<1>5. RefsInv
  <2>1. \A u \in Ids : Holders(u) = {}
    BY <1>2, SetsAssumption DEF Holders, Ids
  <2>q. QED
    <3>1. \A u \in Ids : Cardinality(Holders(u)) = 0 /\ IsFiniteSet(Holders(u))
      BY <2>1, FS_EmptySet
    <3>q. QED
      BY <1>2, <2>1, <3>1 DEF RefsInv, Counted
<1>6. PointersInv /\ FoundInv /\ RenameInv /\ SpinInv /\ FaultsKnown
  BY <1>2 DEF PointersInv, FoundInv, FoundAt, Reading, Authorizing, Renaming, RenameInv, SpinInv, Inside, FaultsKnown
<1>7. RowsInv
  <2>1. Row(name[1], TRUE).name = name[1]
    BY DEF Row
  <2>2. \A u \in Ids : Listed(u) => u = 1 /\ secret[u] = TRUE /\ dbUser[u] = Row(name[1], TRUE) /\ name[u] = name[1]
    BY <1>1, <1>2 DEF Listed
  <2>3. \A u \in Ids : ~ Listed(u) => dbUser[u] = None
    BY <1>1, <1>2 DEF Listed
  <2>q. QED
    BY <2>1, <2>2, <2>3 DEF RowsInv
<1>8. CapsInv
  BY <1>2, GroupsAssumption DEF CapsInv, Listed
<1>q. QED
  BY <1>4, <1>5, <1>6, <1>7, <1>8, StoredParts DEF IInv

LEMMA Inductive == IInv /\ [Next]_vars => IInv'
  BY TypeStep, RefsStep, PointersStep, FoundStep, RenameStep, SpinStep, RowsStep, CapsStep, StoredNext, FaultsStep
     DEF IInv

LEMMA Invariance == Spec => []IInv
  BY Initially, Inductive, PTL DEF Spec

\* References to users are exact (mbb_user_ref, mbb_user_unref).
THEOREM AccessRefsExact == Spec => []RefsExact
<1>1. IInv => RefsExact
  <2> SUFFICES ASSUME IInv, Alive, NEW u \in Ids
               PROVE  /\ state[u] \in {"listed", "removed"} =>
                           nref[u] = Cardinality(Holders(u)) + (IF Listed(u) THEN 1 ELSE 0)
                      /\ state[u] = "freed" => Holders(u) = {}
    BY DEF RefsExact, Holders
  <2>1. Counted(state[u], nref[u], Holders(u)) /\ Cardinality(Holders(u)) \in Nat
    BY HoldersFinite DEF IInv, RefsInv
  <2>q. QED
    BY <2>1 DEF Counted, Listed
<1>q. QED
  BY <1>1, Invariance, PTL

\* Freed users and names are followed in the four known ways only (the lock of
\* mbbmacro.h, mbb_auth_key_get_user, show_sessions, group_show_users).
THEOREM AccessFaultsKnown == Spec => []FaultsKnown
<1>1. IInv => FaultsKnown
  BY DEF IInv
<1>q. QED
  BY <1>1, Invariance, PTL

\* What users may do is what the database says (mbb_user_remove, group_do_user,
\* user_mod_name, change_pass).
THEOREM AccessAuthorityStored == Spec => []AuthorityStored
<1>1. IInv => AuthorityStored
  BY DEF IInv
<1>q. QED
  BY <1>1, Invariance, PTL

\* A step that changes who is in root or wheel is group_do_user's, by one who
\* is, or drops the user.
LEMMA GrantStep ==
  ASSUME IInv, [Next]_vars, NEW g \in Groups, g \in {"root", "wheel"}, NEW u \in Ids,
         (u \in dbMember'[g]) # (u \in dbMember[g]), Listed(u)'
  PROVE  \E s \in Sessions : pc[s] = "call" /\ pc'[s] = "idle" /\ IsWheel(CapOf(s))
<1>1. dbMember' # dbMember
  OBVIOUS
<1>2. ASSUME Alive, NEW s \in Sessions, NEW h \in Groups, NEW v \in Ids, GroupAddUser(s, h, v) \/ GroupDelUser(s, h, v)
      PROVE  pc[s] = "call" /\ pc'[s] = "idle" /\ IsWheel(CapOf(s))
  <2>1. h = g
    BY <1>2 DEF GroupAddUser, GroupDelUser, IInv, TypeInv
  <2>q. QED
    BY <1>2, <2>1 DEF GroupAddUser, GroupDelUser, MayChangeGroup, Calls, Done, Goto, IInv, TypeInv
<1>3. ASSUME Alive, NEW s \in Sessions, NEW v \in Ids, DropUser(s, v) PROVE FALSE
  <2>1. v = u
    BY <1>3 DEF DropUser, IInv, TypeInv
  <2>2. state'[v] # "listed"
    BY <1>3, DropUserRefs DEF IInv
  <2>q. QED
    BY <2>1, <2>2 DEF Listed
<1>4. ASSUME NEW s \in Sessions, Auth(s) PROVE UNCHANGED dbMember
  BY <1>4 DEF Auth, AuthPlain, AuthModule, AuthKey, AuthUnref, AuthRef, groupVars
<1>5. ASSUME NEW s \in Sessions, CopyNames(s) PROVE UNCHANGED dbMember
  BY <1>5 DEF CopyNames, LockTest, SwapName, ShowSessions, KillSession, ShowAuthKeys, LockSet, CopyName,
            LogMessage, ReadUser, ReadName, ShowTasks, groupVars
<1>6. ASSUME NEW s \in Sessions, Manage(s)
      PROVE  \/ UNCHANGED dbMember
             \/ \E h \in Groups, v \in Ids : GroupAddUser(s, h, v) \/ GroupDelUser(s, h, v)
             \/ \E v \in Ids : DropUser(s, v)
  <2>1. \A h \in Groups : GroupShowUsers(s, h) => UNCHANGED dbMember
    BY DEF GroupShowUsers, groupVars
  <2>2. \A v \in Ids, n \in Names : UserModName(s, v, n) => UNCHANGED dbMember
    BY DEF UserModName, groupVars
  <2>3. \A n \in Names, p \in Secrets : AddUser(s, n, p) => UNCHANGED dbMember
    BY DEF AddUser, groupVars
  <2>4. \A v \in Ids, p \in Secrets : UserModPass(s, v, p) => UNCHANGED dbMember
    BY DEF UserModPass, groupVars
  <2>5. \A p \in Secrets, knows \in BOOLEAN : SelfModPass(s, p, knows) => UNCHANGED dbMember
    BY DEF SelfModPass, groupVars
  <2>6. \A k \in Keys, old \in SUBSET Keys : GetAuthKey(s, k, old) \/ DropAuthKey(s, k, old) => UNCHANGED dbMember
    BY DEF GetAuthKey, DropAuthKey, groupVars
  <2>q. QED
    BY <1>6, <2>1, <2>2, <2>3, <2>4, <2>5, <2>6 DEF Manage
<1>7. ASSUME NEW s \in Sessions
      PROVE  /\ \A p \in Peers : Connect(s, p) => UNCHANGED dbMember
             /\ \A c \in DOMAIN CapMask : FuncCall(s, c) => UNCHANGED dbMember
             /\ Quit(s) \/ Fault(s) \/ Refused(s) => UNCHANGED dbMember
  BY DEF Connect, FuncCall, Quit, Fault, Refused, groupVars
<1>t. ASSUME NEW t \in Tasks
      PROVE  TaskRemove(t) \/ TaskUnref(t) \/ (\E s \in Sessions : TaskNew(s, t)) => UNCHANGED dbMember
  BY DEF TaskRemove, TaskUnref, TaskNew, groupVars
<1>8. Next /\ Alive
  BY <1>1 DEF Next, vars, groupVars
<1>9. PICK s \in Sessions :
        \/ \E h \in Groups, v \in Ids : GroupAddUser(s, h, v) \/ GroupDelUser(s, h, v)
        \/ \E v \in Ids : DropUser(s, v)
  BY <1>1, <1>4, <1>5, <1>6, <1>7, <1>t, <1>8 DEF Next
<1>q. QED
  BY <1>2, <1>3, <1>8, <1>9

\* Only a session of root or wheel changes who is in root or wheel
\* (group_do_user against mbb_func_call).
THEOREM AccessGrantedByWheel == Spec => GrantedByWheel
<1>1. IInv /\ [Next]_vars =>
        [\A g \in Groups \cap {"root", "wheel"}, u \in Ids :
            ((u \in dbMember'[g]) # (u \in dbMember[g])) /\ Listed(u)' =>
              \E s \in Sessions : pc[s] = "call" /\ pc'[s] = "idle" /\ IsWheel(CapOf(s))]_vars
  BY GrantStep
<1>q. QED
  BY <1>1, Invariance, PTL DEF Spec, GrantedByWheel
=============================================================================
