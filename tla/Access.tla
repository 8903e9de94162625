------------------------------- MODULE Access -------------------------------
(* Users, groups, keys and the sessions that act for a user (mbbuser.c,      *)
(* mbbgroup.c, mbbuserman.c, mbbgroupman.c, mbbauth.c, mbbauthkeys.c, the    *)
(* user of a session in mbbsession.c and of a task in mbbtask.c).           *)
(*                                                                         *)
(* A user is an object with a count of references: the table of users, each *)
(* session, each key and each task hold one.  Methods change users under    *)
(* the writer lock of mbbd; authorization holds its reader lock; the        *)
(* listings of sessions, keys and tasks hold only the locks of their files, *)
(* log messages none, and a user's name is copied under the spin lock of    *)
(* mbbmacro.h.  An access to a freed user or name stops the daemon          *)
(* ("fault").  Users with consumers cannot be dropped: those here have none. *)
EXTENDS Integers, FiniteSets

CONSTANTS
  Sessions,  \* client threads
  Keys,      \* authorization keys
  Tasks,     \* tasks at a time
  Names,     \* names of users
  Groups,    \* groups of the installation, of those mbbcap.h knows
  Peers,     \* addresses clients come from
  Secrets,   \* whether a new password is one: of an empty one nothing is stored
  MaxId,     \* bound: users ever added (ids of the database are never reused)
  None

\* Group root is there from the start (table.sql).
ASSUME GroupsAssumption == Groups \subseteq {"root", "wheel", "admin", "log", "user"} /\ "root" \in Groups
ASSUME MaxIdAssumption == MaxId \in Nat \ {0} /\ Secrets \subseteq BOOLEAN
ASSUME SetsAssumption ==
  /\ IsFiniteSet(Sessions) /\ IsFiniteSet(Keys) /\ IsFiniteSet(Tasks)
  /\ Sessions \cap Keys = {} /\ Sessions \cap Tasks = {} /\ Keys \cap Tasks = {}
  /\ Sessions \cap {"login", "key", "group", "self", "keys", "tasks"} = {}
  /\ None \notin 1 .. MaxId

Ids == 1 .. MaxId

\* The groups that may call a method, MBB_FUNC_STRUCT's last argument.  Without
\* "dummy" a method is not for a session that has no groups; the methods with it
\* (self_show_groups) change nothing.
CapMask == [
  WHEEL |-> {"wheel"},                 \* drop_user, kill_session, show_auth_keys, drop_auth_key
  ADMIN |-> {"admin"},                 \* the other methods of users and groups, show_sessions,
                                       \* show_tasks, the methods that make a task
  ALL |-> Groups]                      \* self_mod_pass, get_auth_key, session.user

VARIABLES
  state,     \* [Ids -> {"none", "listed", "removed", "freed"}]
  name,      \* [Ids -> Names \cup {None}]
  secret,    \* [Ids -> BOOLEAN]: has a secret
  caps,      \* [Ids -> SUBSET Groups]: cap_mask
  nref,      \* [Ids -> Nat]
  spin,      \* [Ids -> BOOLEAN]: the user's lock
  doubled,   \* SUBSET Ids, history: users whose lock was taken while another thread had
             \* it, or let go by a thread that had not taken it
  member,    \* [Groups -> SUBSET Ids]: the group's table, id to pointer
  dbUser,    \* [Ids -> rows of users \cup {None}]
  dbMember,  \* [Groups -> SUBSET Ids]: groups_pool
  keyUser,   \* [Keys -> Ids \cup {None}]
  keyPeer,   \* [Keys -> Peers \cup {None}]
  taskUser,  \* [Tasks -> Ids \cup {None}]: task->user
  taskTable, \* SUBSET Tasks: the table of tasks
  peer,      \* [Sessions -> Peers \cup {None}]
  user,      \* [Sessions -> Ids \cup {None}]: ss->user
  pc,        \* [Sessions -> ...]
  loc,       \* [Sessions -> Ids \cup {None}]: a user found and not yet let go
  src,       \* [Sessions -> Ids \cup {None}]: the user whose name is copied
  shifted,   \* SUBSET Sessions, history: listings under which a session changes its user
  via        \* [Sessions -> ...]: the mask of the method called, then where loc was found

userVars == <<state, name, secret, caps, nref, spin, doubled>>
groupVars == <<member, dbMember>>
keyVars == <<keyUser, keyPeer>>
taskVars == <<taskUser, taskTable>>
threadVars == <<pc, loc, via, src, shifted>>
vars == <<userVars, groupVars, dbUser, keyVars, taskVars, peer, user, threadVars>>

Row(n, p) == [name |-> n, secret |-> p]

\* table.sql: one user, root, in group root; mbbdbload.c reads it at the start.
Init ==
  \E n \in Names :
    /\ state = [u \in Ids |-> IF u = 1 THEN "listed" ELSE "none"]
    /\ name = [u \in Ids |-> IF u = 1 THEN n ELSE None]
    /\ secret = [u \in Ids |-> u = 1]
    /\ caps = [u \in Ids |-> IF u = 1 THEN {"root"} ELSE {}]
    /\ nref = [u \in Ids |-> IF u = 1 THEN 1 ELSE 0]
    /\ spin = [u \in Ids |-> FALSE]
    /\ doubled = {}
    /\ member = [g \in Groups |-> IF g = "root" THEN {1} ELSE {}]
    /\ dbUser = [u \in Ids |-> IF u = 1 THEN Row(n, TRUE) ELSE None]
    /\ dbMember = member
    /\ keyUser = [k \in Keys |-> None]
    /\ keyPeer = [k \in Keys |-> None]
    /\ taskUser = [t \in Tasks |-> None]
    /\ taskTable = {}
    /\ peer = [s \in Sessions |-> None]
    /\ user = [s \in Sessions |-> None]
    /\ pc = [s \in Sessions |-> "off"]
    /\ loc = [s \in Sessions |-> None]
    /\ via = [s \in Sessions |-> None]
    /\ src = [s \in Sessions |-> None]
    /\ shifted = {}

-----------------------------------------------------------------------------
(* Locks.                                                                  *)

\* A rename holds the writer lock of mbbd, an authorization its reader lock.
MayRead == \A s \in Sessions : pc[s] \notin {"wspin", "wtake"}
MayWrite == MayRead /\ \A s \in Sessions : pc[s] \notin {"found", "swap"}

\* A listing holds the reader lock of its file while it copies a name.
Reading(s) == pc[s] \in {"read", "rspin", "rtake", "name", "copy", "torn"}

\* Mutant: a task that ends does not wait for a listing.
TasksAtOnce == TRUE

MayWriteSessions == \A s \in Sessions : Reading(s) => via[s] \notin Sessions
MayWriteKeys == \A s \in Sessions : Reading(s) => via[s] # "keys"
MayWriteTasks == \A s \in Sessions : Reading(s) => via[s] # "tasks"

-----------------------------------------------------------------------------
(* mbb_user_ref and mbb_user_unref.                                        *)

\* counts with one reference less for each holder, of being whose users are.
Without(counts, holders, of) ==
  [u \in Ids |-> counts[u] - Cardinality({h \in holders : of[h] = u})]

\* The counts become these; a user whose count is zero is freed with its name
\* and its secret, the others' state is stay.
Settle(counts, stay) ==
  LET freed == {u \in Ids : state[u] \in {"listed", "removed"} /\ counts[u] = 0}
  IN /\ nref' = counts
     /\ state' = [u \in Ids |-> IF u \in freed THEN "freed" ELSE stay[u]]
     /\ name' = [u \in Ids |-> IF u \in freed THEN None ELSE name[u]]
     /\ secret' = [u \in Ids |-> IF u \in freed THEN FALSE ELSE secret[u]]

Goto(s, where, u, why) ==
  /\ pc' = [pc EXCEPT ![s] = where]
  /\ loc' = [loc EXCEPT ![s] = u]
  /\ via' = [via EXCEPT ![s] = why]
  /\ src' = [src EXCEPT ![s] = None]
  /\ shifted' = shifted \ {s}

Done(s) == Goto(s, "idle", None, None)

-----------------------------------------------------------------------------
(* Sessions: mbb_session_new, mbb_session_quit, mbb_session_auth.            *)

Connect(s, p) ==
  /\ pc[s] = "off"
  /\ MayWriteSessions
  /\ peer' = [peer EXCEPT ![s] = p]
  /\ Done(s)
  /\ UNCHANGED <<userVars, groupVars, dbUser, keyVars, taskVars, user>>

Quit(s) ==
  /\ pc[s] = "idle"
  /\ MayWriteSessions
  /\ Settle(Without(nref, {s}, user), state)
  /\ user' = [user EXCEPT ![s] = None]
  /\ peer' = [peer EXCEPT ![s] = None]
  /\ Goto(s, "off", None, None)
  /\ UNCHANGED <<caps, spin, doubled, groupVars, dbUser, keyVars, taskVars>>

Listed(u) == state[u] = "listed"

\* mbb_auth under the reader lock finds the user of a login.  "plain" refuses a
\* user without a secret; the methods of auth_salt and auth_apache do not look
\* at that, their own check is the client's luck.
AuthPlain(s, u) ==
  /\ pc[s] = "idle"
  /\ MayRead
  /\ Listed(u)
  /\ secret[u]
  /\ Goto(s, "found", u, "login")
  /\ UNCHANGED <<userVars, groupVars, dbUser, keyVars, taskVars, peer, user>>

AuthModule(s, u) ==
  /\ pc[s] = "idle"
  /\ MayRead
  /\ Listed(u)
  /\ Goto(s, "found", u, "login")
  /\ UNCHANGED <<userVars, groupVars, dbUser, keyVars, taskVars, peer, user>>

\* auth_key_ht_cleanup: the keys in gone, those older than auth.key.lifetime at
\* that moment, leave the table.
DropKeys(gone) ==
  /\ Settle(Without(nref, gone, keyUser), state)
  /\ keyUser' = [k \in Keys |-> IF k \in gone THEN None ELSE keyUser[k]]
  /\ keyPeer' = [k \in Keys |-> IF k \in gone THEN None ELSE keyPeer[k]]
  /\ UNCHANGED <<caps, spin, doubled>>

\* mbb_auth_key_get_user: the user of a key that is left is returned as it is,
\* listed or not, and without a reference.
AuthKey(s, k, old) ==
  /\ pc[s] = "idle"
  /\ MayRead
  /\ MayWriteKeys
  /\ DropKeys(old)
  /\ IF keyUser'[k] # None /\ keyPeer[k] = peer[s]
     THEN Goto(s, "found", keyUser[k], "key")
     ELSE UNCHANGED threadVars
  /\ UNCHANGED <<groupVars, dbUser, taskVars, peer, user>>

\* The listings that are at a session.
ListingsOf(s) == {t \in Sessions : Reading(t) /\ via[t] = s}

\* The session lets its former user go ...
AuthUnref(s) ==
  /\ pc[s] = "found"
  /\ Settle(Without(nref, {s}, user), state)
  /\ pc' = [pc EXCEPT ![s] = "swap"]
  /\ shifted' = shifted \cup ListingsOf(s)
  /\ UNCHANGED <<caps, spin, doubled, groupVars, dbUser, keyVars, taskVars, peer, user, loc, via, src>>

\* ... and takes the new one.
AuthRef(s) ==
  /\ pc[s] = "swap"
  /\ state[loc[s]] # "freed"
  /\ nref' = [nref EXCEPT ![loc[s]] = @ + 1]
  /\ user' = [user EXCEPT ![s] = loc[s]]
  /\ Done(s)
  /\ UNCHANGED <<state, name, secret, caps, spin, doubled, groupVars, dbUser, keyVars, taskVars, peer>>

-----------------------------------------------------------------------------
(* mbb_func_call: the groups of the user are looked at before the call, the  *)
(* method takes its locks afterwards.                                      *)

CapOf(s) == IF user[s] = None THEN {} ELSE caps[user[s]]

CapCheck(m, mask) == IF m = {} THEN "dummy" \in mask ELSE "root" \in m \/ m \cap mask # {}

IsWheel(m) == m \cap {"root", "wheel"} # {}

\* Which of the methods with that mask is called shows when it takes its lock.
FuncCall(s, c) ==
  /\ pc[s] = "idle"
  /\ CapCheck(CapOf(s), CapMask[c])
  /\ Goto(s, "call", None, c)
  /\ UNCHANGED <<userVars, groupVars, dbUser, keyVars, taskVars, peer, user>>

Calls(s, c) == pc[s] = "call" /\ via[s] = c

\* A method ends with an error, for its arguments or a query that failed.
Refused(s) ==
  /\ pc[s] = "call"
  /\ Done(s)
  /\ UNCHANGED <<userVars, groupVars, dbUser, keyVars, taskVars, peer, user>>

\* serial primary key: the next id.
AddUser(s, n, p) ==
  /\ Calls(s, "ADMIN")
  /\ MayWrite
  /\ \A u \in Ids : Listed(u) => name[u] # n
  /\ \E u \in Ids :
       /\ state[u] = "none"
       /\ \A v \in Ids : v < u => state[v] # "none"
       /\ dbUser' = [dbUser EXCEPT ![u] = Row(n, p)]
       /\ state' = [state EXCEPT ![u] = "listed"]
       /\ name' = [name EXCEPT ![u] = n]
       /\ secret' = [secret EXCEPT ![u] = p]
       /\ nref' = [nref EXCEPT ![u] = 1]
  /\ Done(s)
  /\ UNCHANGED <<caps, spin, doubled, groupVars, keyVars, taskVars, peer, user>>

\* mbb_user_detach: the user leaves the tables of the groups of its cap_mask.
UserDetach(u, mask) ==
  member' = [g \in Groups |-> IF g \in mask THEN member[g] \ {u} ELSE member[g]]

\* mbb_user_remove: cap_mask is cleared before mbb_user_detach looks at it, so
\* no group forgets the user.
UserRemove(u) ==
  /\ caps' = [caps EXCEPT ![u] = {}]
  /\ UserDetach(u, caps'[u])
  /\ Settle([nref EXCEPT ![u] = @ - 1], [state EXCEPT ![u] = "removed"])

\* drop_user; rule user_group_del of the database clears groups_pool.
DropUser(s, u) ==
  /\ Calls(s, "WHEEL")
  /\ MayWrite
  /\ Listed(u)
  /\ dbUser' = [dbUser EXCEPT ![u] = None]
  /\ dbMember' = [g \in Groups |-> dbMember[g] \ {u}]
  /\ UserRemove(u)
  /\ Done(s)
  /\ UNCHANGED <<spin, doubled, keyVars, taskVars, peer, user>>

\* change_pass: an empty password is none.
ChangePass(u, p) ==
  /\ dbUser' = [dbUser EXCEPT ![u].secret = p]
  /\ secret' = [secret EXCEPT ![u] = p]

UserModPass(s, u, p) ==
  /\ Calls(s, "ADMIN")
  /\ MayWrite
  /\ Listed(u)
  /\ ChangePass(u, p)
  /\ Done(s)
  /\ UNCHANGED <<state, name, caps, nref, spin, doubled, groupVars, keyVars, taskVars, peer, user>>

\* The user is looked up by its id, which fails once it was dropped; a secret
\* must be known by all but root.
SelfModPass(s, p, knows) ==
  /\ Calls(s, "ALL")
  /\ MayWrite
  /\ user[s] # None
  /\ Listed(user[s])
  /\ "root" \in CapOf(s) \/ ~ secret[user[s]] \/ knows
  /\ ChangePass(user[s], p)
  /\ Done(s)
  /\ UNCHANGED <<state, name, caps, nref, spin, doubled, groupVars, keyVars, taskVars, peer, user>>

\* Mutant: being admin when the call began is enough.
MayChangeAnyGroup(s, g) == TRUE

\* group_do_user: only wheel and root change who is in their groups.
MayChangeGroup(s, g) == g \in {"root", "wheel"} => IsWheel(CapOf(s))

GroupAddUser(s, g, u) ==
  /\ Calls(s, "ADMIN")
  /\ MayWrite
  /\ Listed(u)
  /\ MayChangeGroup(s, g)
  /\ u \notin member[g]
  /\ dbMember' = [dbMember EXCEPT ![g] = @ \cup {u}]
  /\ member' = [member EXCEPT ![g] = @ \cup {u}]
  /\ caps' = [caps EXCEPT ![u] = @ \cup {g}]
  /\ Done(s)
  /\ UNCHANGED <<state, name, secret, nref, spin, doubled, dbUser, keyVars, taskVars, peer, user>>

\* Mutant: the row of groups_pool goes, the bit of cap_mask stays.
GroupDelUserKeepsCap(s, g, u) ==
  /\ Calls(s, "ADMIN")
  /\ MayWrite
  /\ Listed(u)
  /\ MayChangeGroup(s, g)
  /\ u \in member[g]
  /\ dbMember' = [dbMember EXCEPT ![g] = @ \ {u}]
  /\ member' = [member EXCEPT ![g] = @ \ {u}]
  /\ Done(s)
  /\ UNCHANGED <<userVars, dbUser, keyVars, taskVars, peer, user>>

GroupDelUser(s, g, u) ==
  /\ Calls(s, "ADMIN")
  /\ MayWrite
  /\ Listed(u)
  /\ MayChangeGroup(s, g)
  /\ u \in member[g]
  /\ dbMember' = [dbMember EXCEPT ![g] = @ \ {u}]
  /\ member' = [member EXCEPT ![g] = @ \ {u}]
  /\ caps' = [caps EXCEPT ![u] = @ \ {g}]
  /\ Done(s)
  /\ UNCHANGED <<state, name, secret, nref, spin, doubled, dbUser, keyVars, taskVars, peer, user>>

\* group_show_users follows the pointers of the group's table.
GroupShowUsers(s, g) ==
  /\ Calls(s, "ADMIN")
  /\ MayRead
  /\ \/ /\ \A u \in member[g] : state[u] # "freed"
        /\ Done(s)
     \/ \E u \in member[g] : state[u] = "freed" /\ Goto(s, "fault", u, "group")
  /\ UNCHANGED <<userVars, groupVars, dbUser, keyVars, taskVars, peer, user>>

-----------------------------------------------------------------------------
(* user_mod_name.  The old name is freed after the new one is in its place.  *)

\* The query, and data_link_steal; the lock is mbb_user_lock's first test.
UserModName(s, u, n) ==
  /\ Calls(s, "ADMIN")
  /\ MayWrite
  /\ Listed(u)
  /\ \A v \in Ids : Listed(v) => name[v] # n
  /\ dbUser' = [dbUser EXCEPT ![u].name = n]
  /\ Goto(s, "wspin", u, n)
  /\ UNCHANGED <<userVars, groupVars, keyVars, taskVars, peer, user>>

\* mbb_user_lock tests ...
LockTest(s) ==
  /\ pc[s] \in {"rspin", "wspin"}
  /\ state[loc[s]] # "freed"
  /\ ~ spin[loc[s]]
  /\ pc' = [pc EXCEPT ![s] = IF pc[s] = "rspin" THEN "rtake" ELSE "wtake"]
  /\ UNCHANGED <<userVars, groupVars, dbUser, keyVars, taskVars, peer, user, loc, via, src, shifted>>

\* ... and then sets: two threads that both tested get in.
Taken(s) == IF spin[loc[s]] THEN doubled \cup {loc[s]} ELSE doubled

\* The record of that is kept while another thread is in.
Left(s, set) ==
  {u \in set : \E t \in Sessions \ {s} :
     loc[t] = u /\ pc[t] \in {"wtake", "rtake", "name", "copy", "torn"}}

\* mbb_user_mod_name: set, name, mbb_user_unlock, g_free of the old name, which
\* a thread that copies it then reads, data_link_insert.
SwapName(s) ==
  /\ pc[s] = "wtake"
  /\ doubled' = Left(s, Taken(s))
  /\ name' = [name EXCEPT ![loc[s]] = via[s]]
  /\ spin' = [spin EXCEPT ![loc[s]] = FALSE]
  /\ pc' = [t \in Sessions |->
       IF t = s THEN "idle"
       ELSE IF pc[t] = "copy" /\ src[t] = loc[s] THEN "torn" ELSE pc[t]]
  /\ loc' = [loc EXCEPT ![s] = None]
  /\ via' = [via EXCEPT ![s] = None]
  /\ UNCHANGED <<state, secret, caps, nref, groupVars, dbUser, keyVars, taskVars, peer, user, src, shifted>>

-----------------------------------------------------------------------------
(* Copying a user's name under its lock.                                   *)

\* gather_session under the lock of mbbsession.c reads ss->user four times: to see
\* that there is one, ...
ShowSessions(s, t) ==
  /\ Calls(s, "ADMIN")
  /\ pc[t] # "off"
  /\ user[t] # None
  /\ pc' = [pc EXCEPT ![s] = "read"]
  /\ via' = [via EXCEPT ![s] = t]
  /\ shifted' = IF pc[t] = "swap" THEN shifted \cup {s} ELSE shifted
  /\ UNCHANGED <<userVars, groupVars, dbUser, keyVars, taskVars, peer, user, loc, src>>

\* ... for the user to lock ...
ReadUser(s) ==
  /\ pc[s] = "read"
  /\ pc' = [pc EXCEPT ![s] = "rspin"]
  /\ loc' = [loc EXCEPT ![s] = user[via[s]]]
  /\ UNCHANGED <<userVars, groupVars, dbUser, keyVars, taskVars, peer, user, via, src, shifted>>

\* ... and for the name.  The fourth is CopyName's.
ReadName(s) ==
  /\ pc[s] = "name"
  /\ state[user[via[s]]] # "freed"
  /\ pc' = [pc EXCEPT ![s] = "copy"]
  /\ src' = [src EXCEPT ![s] = user[via[s]]]
  /\ UNCHANGED <<userVars, groupVars, dbUser, keyVars, taskVars, peer, user, loc, via, shifted>>

\* kill_session and the variable session.user read their own user's name, ...
KillSession(s) ==
  /\ Calls(s, "WHEEL") \/ Calls(s, "ALL")
  /\ Goto(s, "rspin", user[s], "self")
  /\ UNCHANGED <<userVars, groupVars, dbUser, keyVars, taskVars, peer, user>>

\* ... and so does log_msg_new for every message that somebody wants.
LogMessage(s) ==
  /\ pc[s] = "idle"
  /\ user[s] # None
  /\ Goto(s, "rspin", user[s], "self")
  /\ UNCHANGED <<userVars, groupVars, dbUser, keyVars, taskVars, peer, user>>

\* gather_task under the lock of mbbtask.c; the user of a task does not change.
ShowTasks(s, t) ==
  /\ Calls(s, "ADMIN")
  /\ t \in taskTable
  /\ Goto(s, "rspin", taskUser[t], "tasks")
  /\ UNCHANGED <<userVars, groupVars, dbUser, keyVars, taskVars, peer, user>>

\* show_auth_keys drops old keys, then reads the users of the others.
ShowAuthKeys(s, k, old) ==
  /\ Calls(s, "WHEEL")
  /\ MayWriteKeys
  /\ DropKeys(old)
  /\ IF keyUser'[k] # None THEN Goto(s, "rspin", keyUser[k], "keys") ELSE Done(s)
  /\ UNCHANGED <<groupVars, dbUser, taskVars, peer, user>>

LockSet(s) ==
  /\ pc[s] = "rtake"
  /\ state[loc[s]] # "freed"
  /\ doubled' = Taken(s)
  /\ spin' = [spin EXCEPT ![loc[s]] = TRUE]
  /\ pc' = [pc EXCEPT ![s] = IF via[s] \in Sessions THEN "name" ELSE "copy"]
  /\ src' = [src EXCEPT ![s] = IF via[s] \in Sessions THEN None ELSE loc[s]]
  /\ UNCHANGED <<state, name, secret, caps, nref, groupVars, dbUser, keyVars, taskVars, peer, user,
                 loc, via, shifted>>

\* The user whose lock is let go at the end.
Unlocked(s) == IF via[s] \in Sessions THEN user[via[s]] ELSE loc[s]

CopyName(s) ==
  /\ pc[s] = "copy"
  /\ state[src[s]] # "freed" /\ state[Unlocked(s)] # "freed"
  /\ spin' = [spin EXCEPT ![Unlocked(s)] = FALSE]
  /\ doubled' = Left(s, IF Unlocked(s) = loc[s] THEN doubled ELSE doubled \cup {Unlocked(s)})
  /\ Done(s)
  /\ UNCHANGED <<state, name, secret, caps, nref, groupVars, dbUser, keyVars, taskVars, peer, user>>

\* A freed user or name is followed; via keeps the way that led there.
Fault(s) ==
  /\ \/ pc[s] \in {"swap", "rspin", "rtake"} /\ state[loc[s]] = "freed"
     \/ pc[s] = "name" /\ state[user[via[s]]] = "freed"
     \/ pc[s] = "copy" /\ "freed" \in {state[src[s]], state[Unlocked(s)]}
     \/ pc[s] = "torn"
  /\ pc' = [pc EXCEPT ![s] = "fault"]
  /\ UNCHANGED <<userVars, groupVars, dbUser, keyVars, taskVars, peer, user, loc, via, src, shifted>>

-----------------------------------------------------------------------------
(* Keys.                                                                   *)

\* get_auth_key's mbb_user_ref.
KeyRef(s) == [nref EXCEPT ![user[s]] = @ + 1]

\* get_auth_key takes its reference before it drops old keys, and its key from
\* those that are free then.
GetAuthKey(s, k, old) ==
  /\ Calls(s, "ALL")
  /\ MayWriteKeys
  /\ keyUser[k] = None \/ k \in old
  /\ Settle(Without(KeyRef(s), old, keyUser), state)
  /\ keyUser' = [l \in Keys |-> IF l = k THEN user[s] ELSE IF l \in old THEN None ELSE keyUser[l]]
  /\ keyPeer' = [l \in Keys |-> IF l = k THEN peer[s] ELSE IF l \in old THEN None ELSE keyPeer[l]]
  /\ Done(s)
  /\ UNCHANGED <<caps, spin, doubled, groupVars, dbUser, taskVars, peer, user>>

\* drop_auth_key drops old keys too, and then k if it is still there.
DropAuthKey(s, k, old) ==
  /\ Calls(s, "WHEEL")
  /\ MayWriteKeys
  /\ DropKeys(old \cup {k})
  /\ Done(s)
  /\ UNCHANGED <<groupVars, dbUser, taskVars, peer, user>>

-----------------------------------------------------------------------------
(* Tasks: the user's side of mbb_task_new and mbb_task_free.                *)

\* Mutant: the task holds no reference to its user.
TaskRefNone(s) == nref

\* mbb_task_new's mbb_user_ref.
TaskRef(s) == [nref EXCEPT ![user[s]] = @ + 1]

\* A method makes a task: mbb_task_new, whose caller is a client thread in every
\* module.  The session keeps its own reference until the task is in the table.
TaskNew(s, t) ==
  /\ Calls(s, "WHEEL") \/ Calls(s, "ADMIN")
  /\ MayWriteTasks
  /\ taskUser[t] = None
  /\ nref' = TaskRef(s)
  /\ taskUser' = [taskUser EXCEPT ![t] = user[s]]
  /\ taskTable' = taskTable \cup {t}
  /\ Done(s)
  /\ UNCHANGED <<state, name, secret, caps, spin, doubled, groupVars, dbUser, keyVars, peer, user>>

\* mbb_task_free: the task leaves the table, ...
TaskRemove(t) ==
  /\ t \in taskTable
  /\ MayWriteTasks
  /\ taskTable' = taskTable \ {t}
  /\ UNCHANGED <<userVars, groupVars, dbUser, keyVars, taskUser, peer, user, threadVars>>

\* ... then lets its user go.
TaskUnref(t) ==
  /\ taskUser[t] # None /\ t \notin taskTable
  /\ Settle(Without(nref, {t}, taskUser), state)
  /\ taskUser' = [taskUser EXCEPT ![t] = None]
  /\ UNCHANGED <<caps, spin, doubled, groupVars, dbUser, keyVars, taskTable, peer, user, threadVars>>

-----------------------------------------------------------------------------
Auth(s) ==
  \/ \E u \in Ids : AuthPlain(s, u) \/ AuthModule(s, u)
  \/ \E k \in Keys, old \in SUBSET Keys : AuthKey(s, k, old)
  \/ AuthUnref(s) \/ AuthRef(s)

Manage(s) ==
  \/ \E u \in Ids, n \in Names : UserModName(s, u, n)
  \/ \E n \in Names, p \in Secrets : AddUser(s, n, p)
  \/ \E u \in Ids : DropUser(s, u) \/ \E p \in Secrets : UserModPass(s, u, p)
  \/ \E p \in Secrets, knows \in BOOLEAN : SelfModPass(s, p, knows)
  \/ \E g \in Groups :
       \/ GroupShowUsers(s, g)
       \/ \E u \in Ids : GroupAddUser(s, g, u) \/ GroupDelUser(s, g, u)
  \/ \E k \in Keys, old \in SUBSET Keys : GetAuthKey(s, k, old) \/ DropAuthKey(s, k, old)

CopyNames(s) ==
  \/ \E t \in Sessions : ShowSessions(s, t)
  \/ \E k \in Keys, old \in SUBSET Keys : ShowAuthKeys(s, k, old)
  \/ \E t \in Tasks : ShowTasks(s, t)
  \/ KillSession(s) \/ LogMessage(s) \/ ReadUser(s) \/ ReadName(s)
  \/ LockTest(s) \/ LockSet(s) \/ CopyName(s) \/ SwapName(s)

\* A fault stops the daemon.
Alive == \A s \in Sessions : pc[s] # "fault"

Next ==
  /\ Alive
  /\ \/ \E s \in Sessions :
          \/ \E p \in Peers : Connect(s, p)
          \/ Quit(s) \/ Auth(s) \/ Manage(s) \/ CopyNames(s) \/ Fault(s) \/ Refused(s)
          \/ \E c \in DOMAIN CapMask : FuncCall(s, c)
          \/ \E t \in Tasks : TaskNew(s, t)
     \/ \E t \in Tasks : TaskRemove(t) \/ TaskUnref(t)

Spec == Init /\ [][Next]_vars

-----------------------------------------------------------------------------
(* Properties.                                                             *)

\* Who has a reference to u, besides the table of users.
Holders(u) ==
  {s \in Sessions : user[s] = u /\ pc[s] # "swap"}
    \cup {k \in Keys : keyUser[k] = u} \cup {t \in Tasks : taskUser[t] = u}

\* A user is referenced once for the table, for each session, for each key and for
\* each task that has it, in whatever order they come and go: it is freed with the
\* last of them and not before (mbb_session_auth, mbb_session_free, get_auth_key,
\* key_data_free, mbb_task_new, mbb_task_free, mbb_user_remove).
RefsExact ==
  Alive => \A u \in Ids :
    /\ state[u] \in {"listed", "removed"} =>
         nref[u] = Cardinality(Holders(u)) + (IF Listed(u) THEN 1 ELSE 0)
    /\ state[u] = "freed" => Holders(u) = {}

\* Where the listings of sessions, keys and tasks, log messages, kill_session,
\* session.user, authorization by key and the groups follow a pointer to a user or a
\* name, only four ways lead to freed memory: a group that lists a user that was
\* dropped, a key whose user was dropped and that goes while it authorizes a
\* session, the listing of a session that changes its user meanwhile, and
\* a rename that got into the user's lock together with a reader.
FaultsKnown ==
  \A s \in Sessions : pc[s] = "fault" =>
    \/ via[s] = "group" /\ \A g \in Groups : loc[s] \notin dbMember[g]
    \/ via[s] = "key" /\ \A k \in Keys : keyUser[k] # loc[s]
    \/ via[s] \in Sessions /\ s \in shifted /\ pc[via[s]] # "off"
    \/ state[loc[s]] # "freed" /\ loc[s] \in doubled

\* What users may do is what the database says, so that a restart changes
\* nothing: the listed users are its rows (but for a rename under way), they
\* have the groups of groups_pool, and a dropped user that a session or a key
\* still holds has none.
AuthorityStored ==
  \A u \in Ids :
    /\ dbUser[u] = IF ~ Listed(u) THEN None
                   ELSE Row(IF \E s \in Sessions : pc[s] \in {"wspin", "wtake"} /\ loc[s] = u
                            THEN dbUser[u].name ELSE name[u], secret[u])
    /\ caps[u] = {g \in Groups : u \in dbMember[g]}
    /\ \A g \in Groups : u \in dbMember[g] => u \in member[g] /\ Listed(u)

\* Nobody gets into or out of group root or wheel but by a session whose user is
\* in one of them at that moment, not only when its call began (group_do_user
\* against mbb_func_call), or by being dropped.
GrantedByWheel ==
  [][\A g \in Groups \cap {"root", "wheel"}, u \in Ids :
       ((u \in dbMember'[g]) # (u \in dbMember[g])) /\ Listed(u)' =>
         \E s \in Sessions : pc[s] = "call" /\ pc'[s] = "idle" /\ IsWheel(CapOf(s))]_vars
=============================================================================
