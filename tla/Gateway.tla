------------------------------ MODULE Gateway ------------------------------
(* Gateways, operators and the links between them (mbbgateway.c,            *)
(* mbboperator.c, mbbgwlink.c, their methods in mbb*man.c, their rows in     *)
(* mbbdb*.c and their loading in mbbdbload.c).                               *)
(*                                                                         *)
(* A link says which operator carries the traffic of one interface of a     *)
(* gateway from a time to another; for each interface the gateway keeps a   *)
(* queue of its links in the order of their times.  The netflow module asks *)
(* for the link in force when a flow began.  A method holds the writer lock *)
(* of mbbd from its first look to its last change, so it is one action; a   *)
(* method that finds an error, or whose query fails, changes nothing, but   *)
(* for gwlink_mod_time, which changes the link before it asks the database. *)
EXTENDS Naturals, SequencesExt

CONSTANTS
  Gws,      \* gateways, by id
  Ops,      \* operators, by id
  Gls,      \* links, by id
  Names,    \* names of gateways and operators
  Addrs,    \* addresses of gateways; a name may look like one
  LinkNos,  \* numbers of a gateway's interfaces
  MaxTime,  \* bound: the last second of the clock and of clients' times
  MaxUnsaved,  \* bound: links whose last change of time the database refused
  MaxLosses,   \* bound: restarts that lose such a change
  None

ASSUME MaxTimeAssumption == MaxTime \in Nat \ {0}
ASSUME BoundsAssumption == MaxUnsaved \in Nat /\ MaxLosses \in Nat
ASSUME NoneAssumption == None \notin Gws \cup Ops \cup Gls

\* A time of a link: 0 is without bound.
Times == 0 .. MaxTime

VARIABLES
  gw,        \* [Gws -> [name, addr] or None]
  gwByName,  \* [Names -> Gws or None]: the tables of the gateways' data link
  gwByAddr,  \* [Addrs -> Gws or None]
  op,        \* [Ops -> [name, links] or None]
  opByName,  \* [Names -> Ops or None]
  gl,        \* [Gls -> [gw, op, link, start, end] or None]
  queue,     \* [Gws \X LinkNos -> Seq(Gls)]: gw->ht
  dbGw,      \* rows of gateways, operators and gwlinks
  dbOp,
  dbGl,
  unsaved,   \* history: links whose last change of time the database refused
  losses     \* history: restarts of the daemon while unsaved was not empty

memVars == <<gw, gwByName, gwByAddr, op, opByName, gl, queue>>
dbVars == <<dbGw, dbOp, dbGl>>
histVars == <<unsaved, losses>>
vars == <<memVars, dbVars, histVars>>

-----------------------------------------------------------------------------
\* mbbtime.c: a beginning against an end, an end against a beginning.
BeginAfterEnd(b, e) == b # 0 /\ e # 0 /\ b > e
EndBeforeBegin(e, b) == e # 0 /\ b # 0 /\ e < b

\* mbb_time_rcmp = 0.
InForce(l, t) == ~ EndBeforeBegin(t, l.start) /\ ~ BeginAfterEnd(t, l.end)

\* Data links: one table for each key an object is found by.
DataLinkInsert(table, key, obj) == [table EXCEPT ![key] = obj]
DataLinkSteal(table, key) == [table EXCEPT ![key] = None]

\* An address is looked up before a name.
GatewayByEname(name) ==
  IF name \in Addrs /\ gwByAddr[name] # None THEN gwByAddr[name]
  ELSE IF name \in Names THEN gwByName[name]
  ELSE None

Live(table) == {o \in DOMAIN table : table[o] # None}

\* Mutant: only the first link of the queue is looked at.
CanAddFirst(links, q, l) ==
  \A i \in 1 .. Len(q) : i = 1 => BeginAfterEnd(l.start, links[q[i]].end)

\* mbb_gateway_can_add, where the link is not yet one of the queue: whatever
\* comes before the first link it ends before has ended before it starts.
CanAdd(links, q, l) ==
  LET after == {i \in 1 .. Len(q) : EndBeforeBegin(l.end, links[q[i]].start)}
  IN \A i \in 1 .. Len(q) :
       (\A j \in after : i < j) => BeginAfterEnd(l.start, links[q[i]].end)

\* gw_queue_insert_gl: the links that ended before this one starts are passed;
\* the next, if any, is the one to insert before, or is in the way.
Passed(links, q, l) ==
  {i \in 1 .. Len(q) : \A j \in 1 .. i : BeginAfterEnd(l.start, links[q[j]].end)}
\* Mutant: a link may end in the second in which the next one starts.
QueueOverlaps(links, q, l) ==
  LET i == Cardinality(Passed(links, q, l)) + 1
  IN i <= Len(q) /\ ~ EndBeforeBegin(l.end, links[q[i]].start + 1)
QueueCollides(links, q, l) ==
  LET i == Cardinality(Passed(links, q, l)) + 1
  IN i <= Len(q) /\ ~ EndBeforeBegin(l.end, links[q[i]].start)
QueueInsert(links, q, g) ==
  InsertAt(q, Cardinality(Passed(links, q, links[g])) + 1, g)

\* mbb_gateway_add_link.
AddLink(links, q, g) ==
  IF QueueCollides(links, q, links[g]) THEN q ELSE QueueInsert(links, q, g)

\* mbb_gateway_del_link, and reorder_link's g_queue_delete_link.
DelLink(q, g) == Remove(q, g)

\* mbb_gateway_reorder_link fails for a link that is not in the queue, and for
\* one that now meets another; it leaves the place of such a link as it was.
ReorderFails(links, q, g) ==
  \/ g \notin Range(q)
  \/ Len(q) > 1 /\ QueueCollides(links, DelLink(q, g), links[g])
Reordered(links, q, g) ==
  IF Len(q) = 1 THEN q ELSE QueueInsert(links, DelLink(q, g), g)

\* mbb_gateway_get_link: the first of the queue that is in force, unless one
\* before it has yet to start.
GetLink(links, q, t) ==
  LET stop == {i \in 1 .. Len(q) : ~ BeginAfterEnd(t, links[q[i]].end)}
      first == CHOOSE i \in stop : \A j \in stop : i <= j
  IN IF stop # {} /\ InForce(links[q[first]], t) THEN q[first] ELSE None

\* mbb_gateway_nlink: interfaces that have a queue.
NLink(g) == Cardinality({n \in LinkNos : queue[g, n] # <<>>})

-----------------------------------------------------------------------------
(* The database: queries, and the constraints of sql/table.sql.              *)

\* mbb_db_insert_ret: the new id is one no row has; nothing remembers the id of
\* a dropped row.
DbNewId(table, id) == table[id] = None
DbInsert(table, id, row) == [table EXCEPT ![id] = row]
DbUpdate(table, id, row) == [table EXCEPT ![id] = row]
DbDelete(table, id) == [table EXCEPT ![id] = None]

NameFree(table, name) == \A o \in Live(table) : table[o].name # name
AddrFree(addr) == \A g \in Live(dbGw) : dbGw[g].addr # addr
Unreferenced(field, o) == \A g \in Live(dbGl) : dbGl[g][field] # o

GatewayRow(name, addr) == [name |-> name, addr |-> addr]
OperatorRow(name) == [name |-> name]
GwlinkRow(g, o, n, start, end) == [gw |-> g, op |-> o, link |-> n, start |-> start, end |-> end]

Init ==
  /\ gw = [g \in Gws |-> None] /\ gwByName = [n \in Names |-> None]
  /\ gwByAddr = [a \in Addrs |-> None]
  /\ op = [o \in Ops |-> None] /\ opByName = [n \in Names |-> None]
  /\ gl = [g \in Gls |-> None] /\ queue = [x \in Gws \X LinkNos |-> <<>>]
  /\ dbGw = gw /\ dbOp = op /\ dbGl = gl
  /\ unsaved = {} /\ losses = 0

-----------------------------------------------------------------------------
(* Gateways.                                                               *)

\* mbb_gateway_join of a new gateway, mbb_gateway_remove, mbb_gateway_mod_name.
GatewayJoin(id, name, addr) ==
  /\ gw' = [gw EXCEPT ![id] = GatewayRow(name, addr)]
  /\ gwByName' = DataLinkInsert(gwByName, name, id)
  /\ gwByAddr' = DataLinkInsert(gwByAddr, addr, id)
GatewayRemove(g) ==
  /\ gw' = [gw EXCEPT ![g] = None]
  /\ gwByName' = DataLinkSteal(gwByName, gw[g].name)
  /\ gwByAddr' = DataLinkSteal(gwByAddr, gw[g].addr)
GatewayRename(g, newname) ==
  /\ gw' = [gw EXCEPT ![g].name = newname]
  /\ gwByName' = DataLinkInsert(DataLinkSteal(gwByName, gw[g].name), newname, g)
  /\ UNCHANGED gwByAddr

AddGateway(id, name, addr) ==
  /\ gwByName[name] = None /\ gwByAddr[addr] = None
  /\ DbNewId(dbGw, id) /\ NameFree(dbGw, name) /\ AddrFree(addr)
  /\ dbGw' = DbInsert(dbGw, id, GatewayRow(name, addr))
  /\ GatewayJoin(id, name, addr)
  /\ UNCHANGED <<op, opByName, gl, queue, dbOp, dbGl, histVars>>

\* A gateway none of whose interfaces has a queue may yet have rows of links,
\* if loading found them in each other's way: then the query fails.
DropGateway(name) ==
  LET g == gwByName[name] IN
  /\ g # None
  /\ NLink(g) = 0
  /\ Unreferenced("gw", g)
  /\ dbGw' = DbDelete(dbGw, g)
  /\ GatewayRemove(g)
  /\ UNCHANGED <<op, opByName, gl, queue, dbOp, dbGl, histVars>>

GatewayModName(name, newname) ==
  LET g == gwByName[name] IN
  /\ g # None
  /\ gwByName[newname] = None
  /\ NameFree(dbGw, newname)
  /\ dbGw' = DbUpdate(dbGw, g, [dbGw[g] EXCEPT !.name = newname])
  /\ GatewayRename(g, newname)
  /\ UNCHANGED <<op, opByName, gl, queue, dbOp, dbGl, histVars>>

-----------------------------------------------------------------------------
(* Operators.                                                              *)

\* mbb_operator_join of a new operator, mbb_operator_remove,
\* mbb_operator_mod_name.
OperatorJoin(id, name) ==
  /\ op' = [op EXCEPT ![id] = [name |-> name, links |-> {}]]
  /\ opByName' = DataLinkInsert(opByName, name, id)
OperatorRemove(o) ==
  /\ op' = [op EXCEPT ![o] = None]
  /\ opByName' = DataLinkSteal(opByName, op[o].name)
OperatorRename(o, newname) ==
  /\ op' = [op EXCEPT ![o].name = newname]
  /\ opByName' = DataLinkInsert(DataLinkSteal(opByName, op[o].name), newname, o)

AddOperator(id, name) ==
  /\ opByName[name] = None
  /\ DbNewId(dbOp, id) /\ NameFree(dbOp, name)
  /\ dbOp' = DbInsert(dbOp, id, OperatorRow(name))
  /\ OperatorJoin(id, name)
  /\ UNCHANGED <<gw, gwByName, gwByAddr, gl, queue, dbGw, dbGl, histVars>>

DropOperator(name) ==
  LET o == opByName[name] IN
  /\ o # None
  /\ op[o].links = {}
  /\ Unreferenced("op", o)
  /\ dbOp' = DbDelete(dbOp, o)
  /\ OperatorRemove(o)
  /\ UNCHANGED <<gw, gwByName, gwByAddr, gl, queue, dbGw, dbGl, histVars>>

OperatorModName(name, newname) ==
  LET o == opByName[name] IN
  /\ o # None
  /\ opByName[newname] = None
  /\ NameFree(dbOp, newname)
  /\ dbOp' = DbUpdate(dbOp, o, OperatorRow(newname))
  /\ OperatorRename(o, newname)
  /\ UNCHANGED <<gw, gwByName, gwByAddr, gl, queue, dbGw, dbGl, histVars>>

-----------------------------------------------------------------------------
(* Links.                                                                  *)

\* mbb_gateway_add_link, mbb_gwlink_join and mbb_operator_add_link.
GwlinkJoin(id, l) ==
  /\ gl' = [gl EXCEPT ![id] = l]
  /\ queue' = [queue EXCEPT ![l.gw, l.link] = AddLink(gl', @, id)]
  /\ op' = [op EXCEPT ![l.op].links = @ \cup {id}]

\* mbb_gwlink_remove takes the link from its gateway and its operator.
GwlinkRemove(g) ==
  /\ gl' = [gl EXCEPT ![g] = None]
  /\ queue' = [queue EXCEPT ![gl[g].gw, gl[g].link] = DelLink(@, g)]
  /\ op' = [op EXCEPT ![gl[g].op].links = @ \ {g}]

\* The link starts now, by a clock that may be set back.  Its row is written
\* once can_add has agreed; if the queue then refuses the link it is freed, and
\* the row stays.
AddGwlink(id, gwname, n, opname, now) ==
  LET g == GatewayByEname(gwname)
      o == opByName[opname]
      l == GwlinkRow(g, o, n, now, 0)
      q == queue[g, n]
  IN
  /\ g # None /\ o # None
  /\ CanAdd(gl, q, l)
  /\ DbNewId(dbGl, id)
  /\ dbGl' = DbInsert(dbGl, id, l)
  /\ IF QueueCollides(gl, q, l) THEN UNCHANGED <<gl, queue, op>> ELSE GwlinkJoin(id, l)
  /\ UNCHANGED <<gw, gwByName, gwByAddr, opByName, dbGw, dbOp, histVars>>

DropGwlink(g) ==
  /\ gl[g] # None
  /\ dbGl' = DbDelete(dbGl, g)
  /\ GwlinkRemove(g)
  /\ unsaved' = unsaved \ {g}
  /\ UNCHANGED <<gw, gwByName, gwByAddr, opByName, dbGw, dbOp, losses>>

\* gwlink_mod_time; a time that the client leaves out is the link's, so a call
\* is two times.  The link has its new times when it is put in its place in the
\* queue, and keeps them when the query fails.
GwlinkModTime(g, start, end, ok) ==
  LET changed == [gl EXCEPT ![g].start = start, ![g].end = end]
      q == queue[gl[g].gw, gl[g].link]
  IN
  /\ gl[g] # None
  /\ ~ BeginAfterEnd(start, end)
  /\ ~ ReorderFails(changed, q, g)
  /\ gl' = changed
  /\ queue' = [queue EXCEPT ![gl[g].gw, gl[g].link] = Reordered(changed, q, g)]
  /\ IF ok
     THEN /\ dbGl' = [dbGl EXCEPT ![g].start = start, ![g].end = end]
          /\ unsaved' = unsaved \ {g}
     ELSE /\ losses < MaxLosses /\ Cardinality(unsaved \cup {g}) <= MaxUnsaved
          /\ unsaved' = unsaved \cup {g}
          /\ UNCHANGED dbGl
  /\ UNCHANGED <<gw, gwByName, gwByAddr, op, opByName, dbGw, dbOp, losses>>

-----------------------------------------------------------------------------
(* Loading: main.c reads the tables one after the other, each in any order.  *)

Found(table, field, key) == {o \in Live(table) : table[o][field] = key}
Index(table, field, keys) ==
  [k \in keys |-> IF Found(table, field, k) = {} THEN None
                  ELSE CHOOSE o \in Found(table, field, k) : TRUE]

LoadGateways ==
  /\ gw' = dbGw
  /\ gwByName' = Index(dbGw, "name", Names)
  /\ gwByAddr' = Index(dbGw, "addr", Addrs)

LoadOperators ==
  /\ op' = [o \in Ops |->
              IF dbOp[o] = None THEN None
              ELSE [name |-> dbOp[o].name, links |-> Found(dbGl, "op", o)]]
  /\ opByName' = Index(dbOp, "name", Names)

\* A link that is in the way of one loaded before it is kept, with a warning, but
\* out of the queue.
LoadGwlink(queues, g) ==
  [queues EXCEPT ![dbGl[g].gw, dbGl[g].link] = AddLink(dbGl, @, g)]
LoadGwlinks(rows) ==
  /\ gl' = dbGl
  /\ queue' = FoldLeft(LoadGwlink, [x \in Gws \X LinkNos |-> <<>>], rows)

Restart ==
  /\ LoadGateways
  /\ LoadOperators
  /\ \E rows \in SetToSeqs(Live(dbGl)) : LoadGwlinks(rows)
  /\ unsaved' = {}
  /\ losses' = IF unsaved = {} THEN losses ELSE losses + 1
  /\ UNCHANGED dbVars

Next ==
  \/ \E id \in Gws, name \in Names, addr \in Addrs : AddGateway(id, name, addr)
  \/ \E name \in Names : DropGateway(name)
  \/ \E name, newname \in Names : GatewayModName(name, newname)
  \/ \E id \in Ops, name \in Names : AddOperator(id, name)
  \/ \E name \in Names : DropOperator(name)
  \/ \E name, newname \in Names : OperatorModName(name, newname)
  \/ \E id \in Gls, gwname \in Names \cup Addrs, n \in LinkNos,
       opname \in Names, now \in 1 .. MaxTime : AddGwlink(id, gwname, n, opname, now)
  \/ \E g \in Gls : DropGwlink(g)
  \/ \E g \in Gls, start, end \in Times, ok \in BOOLEAN :
       GwlinkModTime(g, start, end, ok)
  \/ Restart

Spec == Init /\ [][Next]_vars

-----------------------------------------------------------------------------
(* Properties.                                                              *)

\* A queue holds links that exist, of its own gateway and interface, and at any
\* time at most one of them is in force: the one mbb_gateway_get_link returns,
\* so a flow is never counted for a link that another one has replaced, or
\* missed because the search of the queue stops too early.  Links come and go,
\* have their times moved over each other's, and are loaded in any order.
OneLinkInForce ==
  \A x \in Gws \X LinkNos :
    /\ \A i \in 1 .. Len(queue[x]) :
         LET l == gl[queue[x][i]] IN l # None /\ <<l.gw, l.link>> = x /\ gw[x[1]] # None
    /\ \A t \in 1 .. MaxTime, i \in 1 .. Len(queue[x]) :
         InForce(gl[queue[x][i]], t) <=> queue[x][i] = GetLink(gl, queue[x], t)

\* The database holds the same gateways, operators and links as the daemon,
\* whatever queries fail: no row of a link the daemon does not know, no link
\* that a restart would forget, names and addresses alike.  The times of a
\* link are those of its row unless the database refused their last change
\* (gwlink_mod_time then leaves the new ones in memory), and a link is in its
\* gateway's queue unless the daemon restarted after such a refusal.  An object
\* is found by its name and its address, and an operator by its links.
MatchesDatabase ==
  /\ gw = dbGw
  /\ \A g \in Live(gw) : gwByName[gw[g].name] = g /\ gwByAddr[gw[g].addr] = g
  /\ \A n \in Names : gwByName[n] # None => gw[gwByName[n]] # None
  /\ \A o \in Ops : (op[o] = None) = (dbOp[o] = None)
  /\ \A o \in Live(op) :
       /\ op[o].name = dbOp[o].name /\ opByName[op[o].name] = o
       /\ op[o].links = {g \in Live(gl) : gl[g].op = o}
  /\ \A n \in Names : opByName[n] # None => op[opByName[n]] # None
  /\ Live(gl) = Live(dbGl)
  /\ \A g \in Live(gl) :
       /\ \A f \in {"gw", "op", "link"} : gl[g][f] = dbGl[g][f]
       /\ g \notin unsaved => gl[g] = dbGl[g]
       /\ losses > 0 \/ g \in Range(queue[gl[g].gw, gl[g].link])
============================================================================
