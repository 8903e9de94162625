------------------------------ MODULE InetMap ------------------------------
(***************************************************************************)
(* Who owns an address at a time (mbbinetmap.c, mbbunit.c, mbbunitipman.c,  *)
(* separator.c, mbbinetpool.c, the module map_reload).  Every unit keeps    *)
(* its inet entries in a separator and a map, times by addresses, built     *)
(* from it; the global map, addresses by times, is made of the unit maps.   *)
(* Statistics tasks look addresses up in a copy, the umap, which keeps a    *)
(* reference to each unit in it.                                           *)
(*                                                                         *)
(* A link of the global map has a node in the node_list of its entry, by     *)
(* which it is found when the entry goes; map.c's handlers keep the lists.  *)
(*                                                                         *)
(* All methods run under the writer lock (readers change nothing), so each  *)
(* is one step.  Only the last reference to a removed unit, which has no    *)
(* entries any more, is dropped with no lock, where a task ends: UMapFree.  *)
(***************************************************************************)
EXTENDS Slicer, FiniteSetsExt

CONSTANTS Units, Entries, None,
          Owner,        \* the unit of an inet entry
          Shapes,       \* of each entry the [inet, time, flag, nice] it may be given
          MaxTime       \* times 1..MaxTime; every bound is before the last

VARIABLES entry,        \* of each inet entry in the pool [inet, time, flag, nice]
          sep,          \* of each unit the separator: its entries in order
          unitMap,      \* of each unit its map, <<>> where there is no slicer
          globalMap,    \* global_map, the same; link.node: the entry's node_list has it
          stale,        \* entries of which a link was deleted that node_list still has
          removed,      \* units out of the registry (mbb_unit_remove)
          held          \* the units that the umap of a task has references to

vars == <<entry, sep, unitMap, globalMap, stale, removed, held>>

Init == /\ entry = [e \in Entries |-> None]
        /\ sep = [u \in Units |-> <<>>]
        /\ unitMap = [u \in Units |-> <<>>]
        /\ globalMap = <<>>
        /\ stale = {}
        /\ removed = {}
        /\ held = {}

-----------------------------------------------------------------------------
(* The separator.                                                          *)

\* entry_cmp < 0.
EntryLess(a, b) == a.nice < b.nice \/ (a.nice = b.nice /\ a.flag /\ ~b.flag)

\* separator_add, with the entries as they are then.
SeparatorAdd(q, e, ents) ==
  LET n == Len(SelectSeq(q, LAMBDA x : ~EntryLess(ents[e], ents[x])))
  IN SubSeq(q, 1, n) \o <<e>> \o SubSeq(q, n + 1, Len(q))

SeparatorDel(q, e) == SelectSeq(q, LAMBDA x : x # e)

-----------------------------------------------------------------------------
(* The unit maps.                                                          *)

\* unit_map_add_inet, None once a collision was met.
UnitMapAddInet(map, e) ==
  IF map = None THEN None
  ELSE IF ~entry[e].flag THEN MapDel(map, entry[e].time, entry[e].inet)
  ELSE IF CrossFound(map, entry[e].time, entry[e].inet) THEN None
  ELSE MapAdd("inet", map, entry[e].time,
              [begin |-> entry[e].inet.begin, end |-> entry[e].inet.end, data |-> e])

\* mbb_unit_map_rebuild; where it fails the old map stays.
UnitMapBuilt(u) == IF sep[u] = <<>> THEN <<>> ELSE FoldLeft(UnitMapAddInet, SlicerNew(0), sep[u])
UnitMapRebuilt(u) == IF UnitMapBuilt(u) = None THEN unitMap[u] ELSE UnitMapBuilt(u)

-----------------------------------------------------------------------------
(* The global map with its node lists.                                     *)

Global == [map |-> globalMap, stale |-> stale, cross |-> FALSE]

\* Mutant: the copies of links have no nodes.
DupUnnoted(queue) == [j \in DOMAIN queue |-> [queue[j] EXCEPT !.node = FALSE]]

\* map_data_dup, with a call of node_add for each link.
Dup(queue) == [j \in DOMAIN queue |-> [queue[j] EXCEPT !.node = TRUE]]

\* map_add to the global map.  A slice that is cut is freed, its nodes with it, and its
\* pieces hold copies of its links (insert_dup, insert_add, slicer_entry_free).
GlobalMapAdd(g, key, cur) ==
  LET cut == {i \in DOMAIN g.map : Crosses(g.map[i], key)}
      copied == [i \in DOMAIN g.map |->
                   IF i \in cut THEN [g.map[i] EXCEPT !.queue = Dup(@)] ELSE g.map[i]]
  IN [map |-> MapAdd("time", copied, key, cur),
      stale |-> g.stale \cup IF \E i \in cut : DeletesLink("time", g.map[i].queue, cur)
                               THEN {cur.data} ELSE {},
      cross |-> CrossFound(g.map, key, cur)]

\* map_add_map: the links of a unit map turned round, until one crosses another.
MapAddMap(g, map) ==
  LET AddLink(acc, l) ==
        IF acc.cross THEN acc
        ELSE GlobalMapAdd(acc, [begin |-> l.link.begin, end |-> l.link.end],
                          [begin |-> l.key.begin, end |-> l.key.end, data |-> l.link.data, node |-> TRUE])
  IN FoldLeft(AddLink, g, MapLinks(map))

\* mbb_map_del_inet of some entries: the links that their node lists have go, and the
\* lists.  A link that no list has stays.
MapDelInets(g, es) ==
  [g EXCEPT !.map = [i \in DOMAIN @ |->
     [@[i] EXCEPT !.queue = SelectSeq(@, LAMBDA link : ~(link.node /\ link.data \in es))]]]

\* mbb_map_auto_glue, with map.glue.auto on and off.
AutoGlue(g) == {g, [g EXCEPT !.map = GlueNull(@)]}

\* Mutant: what was added before the cross stays.
MapAddUnitPartly(g, u, map) ==
  {MapAddMap([MapDelInets(g, Range(sep[u])) EXCEPT !.map = IF @ = <<>> THEN SlicerNew(Top) ELSE @], map)}

\* mbb_map_del_unit and mbb_map_add_unit; after a cross the unit is taken out again.
MapAddUnit(g, u, map) ==
  LET init == [MapDelInets(g, Range(sep[u])) EXCEPT !.map = IF @ = <<>> THEN SlicerNew(Top) ELSE @]
      added == MapAddMap(init, map)
  IN IF added.cross THEN AutoGlue(MapDelInets(added, Range(sep[u]))) ELSE {added}

\* map_clear of the global map: every link leaves through the handler.
MapCleared == [map |-> <<>>, stale |-> stale, cross |-> FALSE]

SetGlobal(g) == globalMap' = g.map /\ stale' = g.stale

-----------------------------------------------------------------------------
(* Methods on inet entries.  The database may refuse any of them, which     *)
(* changes nothing.                                                        *)

Registered(u) == u \notin removed

\* unit_add_inet: mbb_unit_add_inet.
UnitAddInet(e) ==
  /\ entry[e] = None
  /\ Registered(Owner[e])
  /\ \E shape \in Shapes[e] : entry' = [entry EXCEPT ![e] = shape]
  /\ sep' = [sep EXCEPT ![Owner[e]] = SeparatorAdd(@, e, entry')]
  /\ UNCHANGED <<unitMap, globalMap, stale, removed, held>>

\* drop_inet: mbb_unit_del_inet.
DropInet(e) ==
  /\ entry[e] # None
  /\ entry' = [entry EXCEPT ![e] = None]
  /\ sep' = [sep EXCEPT ![Owner[e]] = SeparatorDel(@, e)]
  /\ unitMap' = [unitMap EXCEPT ![Owner[e]] = MapRemove(@, {e})]
  /\ SetGlobal(MapDelInets(Global, {e}))
  /\ UNCHANGED <<removed, held>>

\* mbb_unit_clear_inet of some units.
ClearInet(us) ==
  LET es == UNION {Range(sep[u]) : u \in us}
  IN /\ entry' = [e \in Entries |-> IF e \in es THEN None ELSE entry[e]]
     /\ sep' = [u \in Units |-> IF u \in us THEN <<>> ELSE sep[u]]
     /\ unitMap' = [u \in Units |-> IF u \in us THEN <<>> ELSE unitMap[u]]
     /\ SetGlobal(MapDelInets(Global, es))

\* unit_clear_inet.
UnitClearInet(u) == Registered(u) /\ ClearInet({u}) /\ UNCHANGED <<removed, held>>

Alike(e) == {shape \in Shapes[e] : shape.flag = entry[e].flag}

\* The times of an entry change: unit_mod_inet_time, and the methods that change its
\* unit's or its consumer's times.  No map is rebuilt.
ModInetTime(e) ==
  /\ entry[e] # None
  /\ \E shape \in Alike(e) : entry' = [entry EXCEPT ![e].time = shape.time]
  /\ UNCHANGED <<sep, unitMap, globalMap, stale, removed, held>>

\* unit_mod_inet_nice, mbb_unit_sep_reorder.
ModInetNice(e) ==
  /\ entry[e] # None
  /\ \E shape \in Alike(e) :
       shape.nice # entry[e].nice /\ entry' = [entry EXCEPT ![e].nice = shape.nice]
  /\ sep' = [sep EXCEPT ![Owner[e]] = SeparatorAdd(SeparatorDel(@, e), e, entry')]
  /\ UNCHANGED <<unitMap, globalMap, stale, removed, held>>

-----------------------------------------------------------------------------
(* Methods on maps.                                                        *)

UnitMapRebuild(u) ==
  /\ Registered(u)
  /\ unitMap' = [unitMap EXCEPT ![u] = UnitMapRebuilt(u)]
  /\ UNCHANGED <<entry, sep, globalMap, stale, removed, held>>

UnitMapClear(u) ==
  /\ Registered(u)
  /\ unitMap' = [unitMap EXCEPT ![u] = <<>>]
  /\ UNCHANGED <<entry, sep, globalMap, stale, removed, held>>

\* map_add_unit.
MethodMapAddUnit(u) ==
  /\ Registered(u)
  /\ \E g \in MapAddUnit(Global, u, unitMap[u]) : SetGlobal(g)
  /\ UNCHANGED <<entry, sep, unitMap, removed, held>>

\* map_del_unit.
MethodMapDelUnit(u) ==
  /\ Registered(u)
  /\ \E g \in AutoGlue(MapDelInets(Global, Range(sep[u]))) : SetGlobal(g)
  /\ UNCHANGED <<entry, sep, unitMap, removed, held>>

\* inet_map_clear.
InetMapClear == /\ SetGlobal(MapCleared)
                /\ UNCHANGED <<entry, sep, unitMap, removed, held>>

\* inet_map_glue_null.
InetMapGlueNull == /\ globalMap' = GlueNull(globalMap)
                   /\ UNCHANGED <<entry, sep, unitMap, stale, removed, held>>

\* mbb_map_reload_unit, from any of these global maps.
MapReloadUnit(gs, u) ==
  IF UnitMapBuilt(u) = None THEN gs ELSE UNION {MapAddUnit(g, u, UnitMapBuilt(u)) : g \in gs}

\* map_reload_unit.
MethodMapReloadUnit(u) ==
  /\ Registered(u)
  /\ unitMap' = [unitMap EXCEPT ![u] = UnitMapRebuilt(u)]
  /\ \E g \in MapReloadUnit({Global}, u) : SetGlobal(g)
  /\ UNCHANGED <<entry, sep, removed, held>>

\* map_reload: every unit, in the order of the registry's hash table.
MapReload ==
  /\ unitMap' = [u \in Units |-> IF Registered(u) THEN UnitMapRebuilt(u) ELSE unitMap[u]]
  /\ \E order \in SetToSeqs(Units \ removed) :
       \E g \in FoldLeft(MapReloadUnit, {MapCleared}, order) : SetGlobal(g)
  /\ UNCHANGED <<entry, sep, removed, held>>

-----------------------------------------------------------------------------
(* Copies for the statistics tasks.                                        *)

\* Mutant: the links of an entry stay in order.
UMapDataInOrder(queue) ==
  [i \in DOMAIN queue |-> [min |-> queue[i].begin, max |-> queue[i].end, unit |-> Owner[queue[i].data]]]

\* umap_get_data: the last link first.
UMapData(queue) ==
  Reverse([i \in DOMAIN queue |->
             [min |-> queue[i].begin, max |-> queue[i].end, unit |-> Owner[queue[i].data]]])

\* umap_init: the slices that hold something.
UMapOf(map) ==
  LET full == SelectSeq(map, LAMBDA s : s.queue # <<>>)
  IN [i \in DOMAIN full |-> [min |-> full[i].begin, max |-> full[i].end, data |-> UMapData(full[i].queue)]]

\* mbb_umap_from_unit: a unit map turned round in a map of its own.
UMapFromUnit(u) == UMapOf(MapAddMap([MapCleared EXCEPT !.map = SlicerNew(Top)], unitMap[u]).map)

\* umap_bsearch: the index of the slice with the address, 0 if there is none.
UMapBsearch(map, ip) ==
  LET search[min \in 1..(Len(map) + 1), max \in 0..Len(map)] ==
        LET n == (min + max) \div 2
        IN IF min > max THEN 0
           ELSE IF ip < map[n].min THEN search[min, n - 1]
           ELSE IF ip > map[n].max THEN search[n + 1, max]
           ELSE n
  IN search[1, Len(map)]

\* umap_data_search: only the first link may have no end.
UMapDataSearch(data, t) ==
  LET rest == IF data[1].max = 0 THEN Tail(data) ELSE data
      reached == {i \in DOMAIN rest : t <= rest[i].max /\ t >= rest[i].min
                                      /\ \A j \in 1..i : t <= rest[j].max}
  IN IF data[1].max = 0 /\ t >= data[1].min THEN data[1].unit
     ELSE IF reached = {} THEN None ELSE rest[Min(reached)].unit

\* mbb_umap_find.
UMapFind(map, ip, t) ==
  LET n == UMapBsearch(map, ip) IN IF n = 0 THEN None ELSE UMapDataSearch(map[n].data, t)

UMapUnits(map) == {d.unit : d \in UNION {Range(map[i].data) : i \in DOMAIN map}}

\* A task starts: mbb_umap_create or mbb_umap_from_unit, under the reader lock.
UMapCreate(map) ==
  /\ held = {}
  /\ map # <<>>
  /\ held' = UMapUnits(map)
  /\ UNCHANGED <<entry, sep, unitMap, globalMap, stale, removed>>

\* drop_unit, which refuses a unit with entries: mbb_unit_remove.  With no other reference
\* mbb_unit_free clears what the unit has left.
UnitRemove(u) ==
  /\ Registered(u)
  /\ sep[u] = <<>>
  /\ removed' = removed \cup {u}
  /\ IF u \in held THEN UNCHANGED <<entry, sep, unitMap, globalMap, stale>> ELSE ClearInet({u})
  /\ UNCHANGED held

\* mbb_umap_free, in the thread of the task and under no lock.
UMapFree ==
  /\ held # {}
  /\ held' = {}
  /\ ClearInet(held \cap removed)
  /\ UNCHANGED removed

Next ==
  \/ \E e \in Entries : UnitAddInet(e) \/ DropInet(e) \/ ModInetTime(e) \/ ModInetNice(e)
  \/ \E u \in Units :
       \/ UnitClearInet(u) \/ UnitMapRebuild(u) \/ UnitMapClear(u) \/ MethodMapAddUnit(u)
       \/ MethodMapDelUnit(u) \/ MethodMapReloadUnit(u) \/ UnitRemove(u)
       \/ Registered(u) /\ UMapCreate(UMapFromUnit(u))
  \/ InetMapClear
  \/ InetMapGlueNull
  \/ MapReload
  \/ UMapCreate(UMapOf(globalMap))
  \/ UMapFree

Spec == Init /\ [][Next]_vars

-----------------------------------------------------------------------------
(* What the methods show that only read.                                   *)

Rows(map, es) == {l \in Range(MapLinks(map)) : l.link.data \in es}

\* The node_list of an entry is not empty.
HasNodes(e) ==
  e \in stale \/ \E l \in Range(MapLinks(globalMap)) : l.link.data = e /\ l.link.node

\* map_show_inet, map_show_common: nothing for an entry without nodes.
MapShowInet(e) == IF HasNodes(e) THEN Rows(globalMap, {e}) ELSE {}

\* map_show_unit, mbb_unit_mapped: all or nothing for a unit.
MapShowUnit(u) ==
  IF \E e \in Range(sep[u]) : HasNodes(e)
    THEN Rows(globalMap, {e \in Entries : Owner[e] = u}) ELSE {}

\* unit_map_show and unit_map_showall, map_show: the slice without an end, or all.
UnitMapShow(u, all) ==
  {l \in Range(MapLinks(unitMap[u])) : all \/ l.key.end = 0}

\* map_find_net: entries in a range of addresses, at all times if none is given.
MapFindNet(inet, start, end) == MapSearch(globalMap, inet, [begin |-> start, end |-> end])

\* map_find_unit, map_search_unit: the entries of others that are in a unit's way.
MapFindUnit(u) ==
  {e \in UNION {MapSearch(globalMap, l.link, l.key) : l \in Range(MapLinks(unitMap[u]))} : Owner[e] # u}

-----------------------------------------------------------------------------
(* What the maps say, point by point.                                      *)

Addresses == 1..Top
Times == 1..MaxTime
Points == Addresses \X Times

PointsOf(e) ==
  {p \in Points : Holds(entry[e].inet, p[1]) /\ Holds(entry[e].time, p[2])}

At(found) == IF found = {} THEN None ELSE CHOOSE e \in found : TRUE

Plan == INSTANCE AddressPlan WITH
  Kinds <- [points : SUBSET Points, flag : BOOLEAN, nice : {shape.nice : shape \in UNION Range(Shapes)}],
  entry <- [e \in Entries |-> IF entry[e] = None THEN None
              ELSE [points |-> PointsOf(e), flag |-> entry[e].flag, nice |-> entry[e].nice]],
  plan <- [u \in Units |-> [p \in Points |-> At(MapFind(unitMap[u], p[2], p[1]))]],
  claims <- [p \in Points |-> At(MapFind(globalMap, p[1], p[2]))]

\* The unit maps and the global map, made of slices that are cut, joined and glued, say of
\* every address and time what AddressPlan says: a rebuild gives a point to the entry that
\* is last in nice order, a collision or a cross leaves no half done map, and nothing but
\* these methods changes an owner (mbb_unit_map_rebuild, mbb_map_add_unit, map.c, slicer.c).
MapsAsPlanned == Plan!Spec

-----------------------------------------------------------------------------

Partitions(map, end) ==
  \/ map = <<>>
  \/ /\ map[1].begin = 0
     /\ map[Len(map)].end = end
     /\ \A i \in 1..(Len(map) - 1) : map[i].end + 1 = map[i + 1].begin /\ map[i].begin <= map[i].end
     /\ \A i \in DOMAIN map : \A j \in 1..(Len(map[i].queue) - 1) :
          SliceCmp(map[i].queue[j], map[i].queue[j + 1]) < 0

\* The slices of every map are the whole line, side by side, and the links of a slice are
\* in order and apart: what slicer_apply_change asserts (g_assert, slicer.c:384) and the
\* searches in a tree of slices rely on.
MapsPartition ==
  /\ \A u \in Units : Partitions(unitMap[u], 0)
  /\ Partitions(globalMap, Top)

\* Every link of the global map is in the node list of its entry, so that dropping the
\* entry takes them all out and leaves none that points to a freed entry; and no list has
\* a node whose link is gone, though map_data_split_links deletes links without telling
\* the list (map.c:154).  Slices are cut, joined, glued and freed by methods of any units
\* in any order before (mbb_inet_pool_map_add_handler, mbb_map_del_inet, map_data_dup).
NodesMatch ==
  /\ stale = {}
  /\ \A l \in Range(MapLinks(globalMap)) :
       /\ l.link.node
       /\ entry[l.link.data] # None
       /\ l.link.data \in Range(sep[Owner[l.link.data]])
       /\ Registered(Owner[l.link.data])

\* A task that looks an address up in its copy, by bisection and in links the latest of
\* which comes first, finds the unit that map_find finds in the map, for every address and
\* time (mbb_umap_find, umap_bsearch, umap_data_search, mbb_umap_from_unit).
FindersAgree ==
  LET owner(found) == IF found = {} THEN None ELSE Owner[At(found)]
      live == UMapOf(globalMap)
  IN /\ \A p \in Points : UMapFind(live, p[1], p[2]) = owner(MapFind(globalMap, p[1], p[2]))
     /\ \A u \in Units :
          LET own == UMapFromUnit(u)
          IN \A p \in Points : UMapFind(own, p[1], p[2]) = owner(MapFind(unitMap[u], p[2], p[1]))

\* The listings tell the truth: mbb-map-find-unit names an entry if and only if adding the
\* unit to the map would fail, mbb-map-find-net finds every entry that owns an address of a
\* range at some time, and what is shown of a unit or an entry is all that it has in the
\* map (map_find_unit, map_find_net, map_show_inet, map_show_unit, unit_map_show).
ListingsTrue ==
  /\ \A u \in Units \ removed :
       /\ MapFindUnit(u) # {} <=> MapAddMap(MapDelInets(Global, Range(sep[u])), unitMap[u]).cross
       /\ MapShowUnit(u) = UNION {MapShowInet(e) : e \in {f \in Entries : Owner[f] = u}}
       /\ {l.link.data : l \in UnitMapShow(u, FALSE)}
            = UNION {MapFind(unitMap[u], MaxTime, a) : a \in Addresses}
  /\ \A a \in Addresses : \A b \in a..Top :
       MapFindNet([begin |-> a, end |-> b], 0, 0)
         = UNION {MapFind(globalMap, x, t) : x \in a..b, t \in Times}
=============================================================================
