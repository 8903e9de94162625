------------------------------- MODULE Slicer -------------------------------
(***************************************************************************)
(* Slices of a line (slicer.c) and maps of two dimensions made of them      *)
(* (map.c).  A slicer cuts a line into slices, each with some data; a map   *)
(* is a slicer whose data are queues of links: slices of the other line,    *)
(* in order and apart, each with the object it belongs to.                 *)
(*                                                                         *)
(* A point is a number and 0, a null pointer in the code, is no bound.      *)
(* Since dec(1) is 0, a slice that begins at 1 cannot be cut off from what  *)
(* is before it: points begin at 2 here.                                   *)
(***************************************************************************)
EXTENDS Integers, Sequences, SequencesExt

CONSTANT Top  \* IPV4_MAX, the last address

\* begin_end_cmp, end_begin_cmp, begin_begin_cmp and end_end_cmp, as orders.
BeginAfterEnd(begin, end) == begin # 0 /\ end # 0 /\ begin > end
EndBeforeBegin(end, begin) == end # 0 /\ begin # 0 /\ end < begin
BeginBeforeBegin(a, b) == b # 0 /\ (a = 0 \/ a < b)
EndBeforeEnd(a, b) == a # 0 /\ (b = 0 \/ a < b)

\* slice_cmp: -1, 0 when they cross, 1.
SliceCmp(a, b) == IF EndBeforeBegin(a.end, b.begin) THEN -1
                  ELSE IF BeginAfterEnd(a.begin, b.end) THEN 1 ELSE 0

Crosses(a, b) == SliceCmp(a, b) = 0

\* slice_cmp_point = 0: the point is compared as it is.
Holds(a, point) == (a.begin # 0 => point >= a.begin) /\ (a.end # 0 => a.end >= point)

Inc(point) == IF point < Top THEN point + 1 ELSE point
Dec(point) == IF point > 0 THEN point - 1 ELSE point

\* Mutant: the slice that comes after begins one point late.
AfterCrossLate(a, b) ==
  IF EndBeforeEnd(b.end, a.end) THEN <<[a EXCEPT !.begin = Inc(Inc(b.end))]>> ELSE <<>>

\* slice_cross, of two that cross: what of a is before b, in b, and after b.
BeforeCross(a, b) ==
  IF BeginBeforeBegin(a.begin, b.begin) THEN <<[a EXCEPT !.end = Dec(b.begin)]>> ELSE <<>>
AfterCross(a, b) ==
  IF EndBeforeEnd(b.end, a.end) THEN <<[a EXCEPT !.begin = Inc(b.end)]>> ELSE <<>>
InCross(a, b) ==
  [a EXCEPT !.begin = IF BeginBeforeBegin(@, b.begin) THEN b.begin ELSE @,
            !.end = IF EndBeforeEnd(b.end, @) THEN b.end ELSE @]

\* The slicer is one slice with nothing in it.
SlicerNew(end) == <<[begin |-> 0, end |-> end, queue |-> <<>>]>>

\* change_data: the slices that an entry is cut into, with a new queue in the one in b.
ChangeData(entry, b, queue) ==
  IF Crosses(entry, b)
    THEN BeforeCross(entry, b)
         \o <<[InCross(entry, b) EXCEPT !.queue = queue]>>
         \o AfterCross(entry, b)
    ELSE <<entry>>

\* slicer_apply_change, with the new queue for each of the slices.
ApplyChange(slicer, b, queues) ==
  IF BeginAfterEnd(b.begin, b.end) THEN slicer
  ELSE FlattenSeq([i \in DOMAIN slicer |-> ChangeData(slicer[i], b, queues[i])])

\* slicer_glue_null: slices side by side that hold nothing become one.
GlueStep(slicer, entry) ==
  IF slicer # <<>> /\ entry.queue = <<>> /\ Last(slicer).queue = <<>>
    THEN Front(slicer) \o <<[Last(slicer) EXCEPT !.end = entry.end]>>
    ELSE Append(slicer, entry)
GlueNull(slicer) == FoldLeft(GlueStep, <<>>, slicer)

-----------------------------------------------------------------------------
(* Maps.  The other line is one of times or of addresses.                   *)

\* inet_cmp and time_cmp = 1: any later address, but only the next second.
InetAdjacent(end, begin) == begin > end
TimeAdjacent(end, begin) == begin = end + 1
Adjacent(line, end, begin) ==
  IF line = "time" THEN TimeAdjacent(end, begin) ELSE InetAdjacent(end, begin)

\* map_data_split.
Joins(line, a, b) == a.data = b.data /\ Adjacent(line, a.end, b.begin)

\* The links of a queue before and after one that crosses none.
Before(queue, cur) == SelectSeq(queue, LAMBDA link : SliceCmp(link, cur) < 0)
After(queue, cur) == SelectSeq(queue, LAMBDA link : SliceCmp(link, cur) > 0)
JoinsPrev(line, queue, cur) ==
  Before(queue, cur) # <<>> /\ Joins(line, Last(Before(queue, cur)), cur)
JoinsNext(line, queue, cur) ==
  After(queue, cur) # <<>> /\ Joins(line, cur, Head(After(queue, cur)))

\* map_data_add, of a link that crosses none: behind the ones before it.  Where it
\* continues a neighbour it is no link of its own but the neighbour grows, and where it
\* fills a gap the one before grows over both (map_data_split).
DataAdd(line, queue, cur) ==
  LET before == Before(queue, cur)
      after == After(queue, cur)
      prev == JoinsPrev(line, queue, cur)
      next == JoinsNext(line, queue, cur)
      link == IF prev THEN Last(before) ELSE IF next THEN Head(after) ELSE cur
      joined == [link EXCEPT !.begin = IF prev THEN @ ELSE cur.begin,
                             !.end = IF next THEN Head(after).end ELSE cur.end]
  IN (IF prev THEN Front(before) ELSE before) \o <<joined>>
     \o (IF next THEN Tail(after) ELSE after)

\* map_data_split_links: the link after is deleted, and node_del is not called.
DeletesLink(line, queue, cur) == JoinsPrev(line, queue, cur) /\ JoinsNext(line, queue, cur)

\* map_data_del for any object: links without what is in the slice.
DataDel(queue, b) ==
  FlattenSeq([i \in DOMAIN queue |->
                IF Crosses(queue[i], b)
                  THEN BeforeCross(queue[i], b) \o AfterCross(queue[i], b)
                  ELSE <<queue[i]>>])

\* map_add found a link in its way.
CrossFound(map, key, dkey) ==
  \E i \in DOMAIN map :
    Crosses(map[i], key) /\ \E j \in DOMAIN map[i].queue : Crosses(map[i].queue[j], dkey)

\* map_add.  Where a link is in the way the slices are cut all the same; which of them
\* hold the new link then depends on where the search began, and callers drop it.
MapAdd(line, map, key, cur) ==
  LET found == CrossFound(map, key, cur)
  IN ApplyChange(map, key, [i \in DOMAIN map |-> IF found THEN map[i].queue
                                                ELSE DataAdd(line, map[i].queue, cur)])

\* map_del, of any object.
MapDel(map, key, dkey) ==
  ApplyChange(map, key, [i \in DOMAIN map |-> DataDel(map[i].queue, dkey)])

\* map_remove_custom, in a unit's map: the links of some objects go.
MapRemove(map, objects) ==
  [i \in DOMAIN map |->
     [map[i] EXCEPT !.queue = SelectSeq(@, LAMBDA link : link.data \notin objects)]]

\* map_find: the objects at a point, at most one (slicer_find, map_find).
MapFind(map, key, dkey) ==
  UNION {{link.data : link \in {x \in Range(map[i].queue) : Holds(x, dkey)}} :
           i \in {j \in DOMAIN map : Holds(map[j], key)}}

\* Mutant: the search stays in the slice it found first.
MapSearchFirst(map, key, dkey) ==
  LET cross == {j \in DOMAIN map : Crosses(key, map[j])}
  IN UNION {{link.data : link \in {x \in Range(map[i].queue) : Crosses(dkey, x)}} :
              i \in {j \in cross : \A k \in cross : j <= k}}

\* map_search: the objects whose links cross two slices (slicer_search, map_data_search).
MapSearch(map, key, dkey) ==
  UNION {{link.data : link \in {x \in Range(map[i].queue) : Crosses(dkey, x)}} :
           i \in {j \in DOMAIN map : Crosses(key, map[j])}}

\* The links of a map as keys, the slice it is in and the link (map_iter_next and
\* map_data_iter_next).
MapLinks(map) ==
  FlattenSeq([i \in DOMAIN map |->
                [j \in DOMAIN map[i].queue |-> [key |-> map[i], link |-> map[i].queue[j]]]])
=============================================================================
