------------------------------ MODULE Registry ------------------------------
(***************************************************************************)
(* The registry of consumers, their units, and the units' inet entries:     *)
(* what the daemon keeps in memory (mbbunit.c, mbbconsumer.c, separator.c,  *)
(* mbbinetpool.c), what is in the database (mbbdbunit.c, mbbdbconsumer.c,   *)
(* mbbdbinetpool.c, sql/table.sql), the methods that change both            *)
(* (mbbunitman.c, mbbconsumerman.c, mbbunitipman.c) and a restart, which    *)
(* loads memory from the database (mbbdbload.c).                           *)
(*                                                                         *)
(* A method holds the writer lock from end to end, so it is one step.  A    *)
(* query may fail at any time.  Most methods ask the database first and     *)
(* leave memory alone when it refuses: that is no step at all.  The ones    *)
(* that change memory first are left torn.                                 *)
(*                                                                         *)
(* Names and identifiers are one; a name that is dropped may come again.    *)
(***************************************************************************)
EXTENDS Integers, FiniteSets

CONSTANTS
  Units, Consumers, Entries,
  None,         \* no such object, no consumer
  MaxTime,      \* bound: times are 1..MaxTime
  MaxFailures   \* bound: failed queries that come after a change in memory

ASSUME MaxTimeAssumption == MaxTime \in Nat \ {0}
ASSUME MaxFailuresAssumption == MaxFailures \in Nat

VARIABLES
  unit,      \* [Units -> UnitRec or None]: units in memory
  con,       \* [Consumers -> ConRec or None]: consumers in memory
  entry,     \* [Entries -> EntryRec or None]: inet entries in memory
  units,     \* [Consumers -> SUBSET Units]: con->units
  dbUnit, dbCon, dbEntry,  \* the same in the database
  failures,  \* 0..MaxFailures: failed queries so far
  torn,      \* history: a query failed after memory was changed, since the last restart
  lost,      \* history: a restart found memory torn
  refused,   \* history: entries whose times in memory were answered with an error
             \* and never reached the database, since the last restart
  wronged    \* history: entries that were refused and had no good times since

mem == <<unit, con, entry, units>>
db == <<dbUnit, dbCon, dbEntry>>
hist == <<failures, torn, lost>>
wrong == <<refused, wronged>>
vars == <<mem, db, hist, wrong>>

-----------------------------------------------------------------------------
(* Times (mbbtime.c).                                                      *)

Parent == -1  \* that of the parent; NULL in the database
Null == 0     \* without bound

Clock == 1 .. MaxTime
Time == {Null} \cup Clock
EtTime == {Parent} \cup Time

\* mbb_time_becmp(begin, end) <= 0.
InOrder(begin, end) == begin = Null \/ end = Null \/ begin <= end

\* mbb_time_test_order has nothing to say.
TestOrder(a, b, pa, pb) ==
  \/ a < 0 /\ b < 0
  \/ a < 0 /\ b >= 0 /\ InOrder(pa, b)
  \/ a >= 0 /\ b < 0 /\ InOrder(a, pb)
  \/ a >= 0 /\ b >= 0 /\ InOrder(a, b)

\* What a time argument of a method may make of a time: one of times, or the old
\* one where it is not given.
Given(times, old) == times \cup {old}

\* An own time, or the parent's.
Inherit(t, parent) == IF t < 0 THEN parent ELSE t

-----------------------------------------------------------------------------
UnitRec == [con : Consumers \cup {None}, start : EtTime, end : EtTime]
ConRec == [start : Time, end : Time]
EntryRec == [owner : Units, start : EtTime, end : EtTime]

ASSUME NoneAssumption ==
  None \notin Consumers /\ None \notin UnitRec /\ None \notin ConRec /\ None \notin EntryRec

TypeOK ==
  /\ unit \in [Units -> UnitRec \cup {None}]
  /\ con \in [Consumers -> ConRec \cup {None}]
  /\ entry \in [Entries -> EntryRec \cup {None}]
  /\ units \in [Consumers -> SUBSET Units]
  /\ dbUnit \in [Units -> UnitRec \cup {None}]
  /\ dbCon \in [Consumers -> ConRec \cup {None}]
  /\ dbEntry \in [Entries -> EntryRec \cup {None}]
  /\ failures \in 0 .. MaxFailures
  /\ torn \in BOOLEAN /\ lost \in BOOLEAN
  /\ refused \subseteq Entries /\ wronged \subseteq Entries

\* An empty database.
Init ==
  /\ unit = [u \in Units |-> None] /\ dbUnit = unit
  /\ con = [c \in Consumers |-> None] /\ dbCon = con
  /\ entry = [e \in Entries |-> None] /\ dbEntry = entry
  /\ units = [c \in Consumers |-> {}]
  /\ failures = 0 /\ torn = FALSE /\ lost = FALSE
  /\ refused = {} /\ wronged = {}

Known(objects) == {x \in DOMAIN objects : objects[x] # None}

\* unit->sep: the entries of a unit.
Sep(u) == {e \in Known(entry) : entry[e].owner = u}

\* mbb_unit_get_start and mbb_unit_get_end.
UnitStart(u) == IF unit[u].con = None THEN unit[u].start
                ELSE Inherit(unit[u].start, con[unit[u].con].start)
UnitEnd(u) == IF unit[u].con = None THEN unit[u].end
              ELSE Inherit(unit[u].end, con[unit[u].con].end)

\* An entry's times are in order, with what it has from start and end.
EntryInOrder(e, start, end) ==
  InOrder(Inherit(entry[e].start, start), Inherit(entry[e].end, end))

\* unit_test_inet_time: the unit's entries fit in start and end.
TestInetTime(u, start, end) == \A e \in Sep(u) : EntryInOrder(e, start, end)

\* Mutant: own times win only when both are given.
TestUnitTimeBoth(u, start, end) ==
  unit[u].start >= 0 /\ unit[u].end >= 0
    => InOrder(unit[u].start, unit[u].end) /\ TestInetTime(u, unit[u].start, unit[u].end)

\* mbb_unit_test_time: so does the unit, and its entries, in a consumer's.
TestUnitTime(u, start, end) ==
  LET s == Inherit(unit[u].start, start)
      e == Inherit(unit[u].end, end)
  IN InOrder(s, e) /\ TestInetTime(u, s, e)

\* A query that comes after memory was changed: it does what it says (done), or
\* fails and leaves memory torn.
Query(done) ==
  \/ done /\ UNCHANGED hist
  \/ /\ failures < MaxFailures
     /\ failures' = failures + 1
     /\ torn' = TRUE
     /\ UNCHANGED <<db, lost>>

-----------------------------------------------------------------------------
(* Consumers.                                                              *)

AddConsumer(c) ==
  /\ con[c] = None
  /\ \E now \in Clock :
       LET new == [start |-> now, end |-> Null]
       IN /\ dbCon' = [dbCon EXCEPT ![c] = new]
          /\ con' = [con EXCEPT ![c] = new]
  /\ UNCHANGED <<unit, entry, units, dbUnit, dbEntry, hist, wrong>>

\* The database refuses while a unit refers to it.
DropConsumer(c) ==
  /\ con[c] # None
  /\ units[c] = {}
  /\ \A u \in Known(dbUnit) : dbUnit[u].con # c
  /\ dbCon' = [dbCon EXCEPT ![c] = None]
  /\ con' = [con EXCEPT ![c] = None]
  /\ UNCHANGED <<unit, entry, units, dbUnit, dbEntry, hist, wrong>>

ConsumerModTime(c) ==
  /\ con[c] # None
  /\ \E s \in Given(Time, con[c].start), e \in Given(Time, con[c].end) :
       LET new == [start |-> s, end |-> e]
       IN /\ InOrder(new.start, new.end)
          /\ \A u \in units[c] : TestUnitTime(u, new.start, new.end)
          /\ con' = [con EXCEPT ![c] = new]
          /\ Query(dbCon' = [dbCon EXCEPT ![c] = new] /\ UNCHANGED <<dbUnit, dbEntry>>)
  /\ UNCHANGED <<unit, entry, units, wrong>>

-----------------------------------------------------------------------------
(* Units.                                                                  *)

\* unit_create of a new unit, with or without a consumer.
UnitCreate(u, new) ==
  /\ unit[u] = None
  /\ dbUnit' = [dbUnit EXCEPT ![u] = new]
  /\ unit' = [unit EXCEPT ![u] = new]
  /\ units' = [c \in Consumers |-> IF c = new.con THEN units[c] \cup {u} ELSE units[c]]
  /\ UNCHANGED <<con, entry, dbCon, dbEntry, hist, wrong>>

AddUnit(u) ==
  \E now \in Clock : UnitCreate(u, [con |-> None, start |-> now, end |-> Null])

\* A consumer that has an end takes only units that inherit.
ConsumerAddUnit(c, u) ==
  /\ con[c] # None
  /\ \/ UnitCreate(u, [con |-> c, start |-> Parent, end |-> Parent])
     \/ /\ con[c].end = Null
        /\ \E now \in Clock : UnitCreate(u, [con |-> c, start |-> now, end |-> Parent])

\* Mutant: the consumer keeps the unit in its list.
DropUnitListed(u) ==
  /\ unit[u] # None
  /\ Sep(u) = {}
  /\ dbUnit' = [dbUnit EXCEPT ![u] = None]
  /\ unit' = [unit EXCEPT ![u] = None]
  /\ UNCHANGED <<con, entry, units, dbCon, dbEntry, hist, wrong>>

DropUnit(u) ==
  /\ unit[u] # None
  /\ Sep(u) = {}
  /\ dbUnit' = [dbUnit EXCEPT ![u] = None]
  /\ unit' = [unit EXCEPT ![u] = None]
  /\ units' = [c \in Consumers |-> IF c = unit[u].con THEN units[c] \ {u} ELSE units[c]]
  /\ UNCHANGED <<con, entry, dbCon, dbEntry, hist, wrong>>

\* An orphan may not ask for its parent's times; one that has them already makes
\* mbb_unit_mod_time follow a null pointer, and the daemon ends there (Restart).
UnitModTime(u) ==
  /\ unit[u] # None
  /\ \E start \in Given(EtTime, unit[u].start), end \in Given(EtTime, unit[u].end) :
       LET c == unit[u].con
           new == [unit[u] EXCEPT !.start = start, !.end = end]
       IN /\ IF c = None
               THEN start >= 0 /\ end >= 0 /\ InOrder(start, end) /\ TestInetTime(u, start, end)
               ELSE /\ TestOrder(start, end, con[c].start, con[c].end)
                    /\ TestInetTime(u, Inherit(start, con[c].start), Inherit(end, con[c].end))
          /\ unit' = [unit EXCEPT ![u] = new]
          /\ Query(/\ dbUnit' = [dbUnit EXCEPT ![u] = [@ EXCEPT !.start = start, !.end = end]]
                   /\ UNCHANGED <<dbCon, dbEntry>>)
  /\ UNCHANGED <<con, entry, units, wrong>>

\* Mutant: the database is not told.
UnitSetConsumerMemory(u, c) ==
  /\ unit[u] # None /\ con[c] # None
  /\ unit[u].con = None
  /\ unit' = [unit EXCEPT ![u] = [@ EXCEPT !.con = c]]
  /\ units' = [units EXCEPT ![c] = @ \cup {u}]
  /\ UNCHANGED <<con, entry, db, hist, wrong>>

\* No test of times: an orphan has its own.
UnitSetConsumer(u, c) ==
  /\ unit[u] # None /\ con[c] # None
  /\ unit[u].con = None
  /\ dbUnit' = [dbUnit EXCEPT ![u] = [@ EXCEPT !.con = c]]
  /\ unit' = [unit EXCEPT ![u] = [@ EXCEPT !.con = c]]
  /\ units' = [units EXCEPT ![c] = @ \cup {u}]
  /\ UNCHANGED <<con, entry, dbCon, dbEntry, hist, wrong>>

\* The unit out of its consumer, with the times it had from it (mbb_unit_inherit_time).
Orphan(u) == [con |-> None, start |-> UnitStart(u), end |-> UnitEnd(u)]

\* The queries of unit_unset_consumer: the times, if they were inherited, and then
\* the consumer.  Either may fail; the first must, where the CHECK of the table
\* does not hold.
UnsetQueries(u) ==
  LET inherits == unit[u].start < 0 \/ unit[u].end < 0
      timed == IF inherits
                 THEN [dbUnit[u] EXCEPT !.start = UnitStart(u), !.end = UnitEnd(u)]
                 ELSE dbUnit[u]
      checked == ~inherits \/ InOrder(timed.start, timed.end)
  IN \/ Query(/\ checked
              /\ dbUnit' = [dbUnit EXCEPT ![u] = [timed EXCEPT !.con = None]]
              /\ UNCHANGED <<dbCon, dbEntry>>)
     \/ /\ inherits /\ checked
        /\ failures < MaxFailures
        /\ failures' = failures + 1
        /\ torn' = TRUE
        /\ dbUnit' = [dbUnit EXCEPT ![u] = timed]
        /\ UNCHANGED <<dbCon, dbEntry, lost>>

UnitUnsetConsumer(u) ==
  /\ unit[u] # None
  /\ unit[u].con # None
  /\ units' = [units EXCEPT ![unit[u].con] = @ \ {u}]
  /\ unit' = [unit EXCEPT ![u] = Orphan(u)]
  /\ UnsetQueries(u)
  /\ UNCHANGED <<con, entry, wrong>>

-----------------------------------------------------------------------------
(* Inet entries.                                                           *)

\* A unit that has an end takes only entries that inherit.
UnitAddInet(u, e) ==
  /\ unit[u] # None /\ entry[e] = None
  /\ \E start \in {Parent} \cup Clock :
       LET new == [owner |-> u, start |-> start, end |-> Parent]
       IN /\ start = Parent \/ UnitEnd(u) = Null
          /\ dbEntry' = [dbEntry EXCEPT ![e] = new]
          /\ entry' = [entry EXCEPT ![e] = new]
  /\ UNCHANGED <<unit, con, units, dbUnit, dbCon, hist, wrong>>

\* Entries that are gone, or have good times.
Righted(es) == refused' = refused \ es /\ wronged' = wronged \ es

DropInet(e) ==
  /\ entry[e] # None
  /\ dbEntry' = [dbEntry EXCEPT ![e] = None]
  /\ entry' = [entry EXCEPT ![e] = None]
  /\ Righted({e})
  /\ UNCHANGED <<unit, con, units, dbUnit, dbCon, hist>>

\* Mutant: the entries stay in the database.
UnitClearInetMemory(u) ==
  /\ unit[u] # None
  /\ entry' = [e \in Entries |-> IF e \in Sep(u) THEN None ELSE entry[e]]
  /\ Righted(Sep(u))
  /\ UNCHANGED <<unit, con, units, db, hist>>

UnitClearInet(u) ==
  /\ unit[u] # None
  /\ dbEntry' = [e \in Entries |->
                   IF e \in Known(dbEntry) /\ dbEntry[e].owner = u THEN None ELSE dbEntry[e]]
  /\ entry' = [e \in Entries |-> IF e \in Sep(u) THEN None ELSE entry[e]]
  /\ Righted(Sep(u))
  /\ UNCHANGED <<unit, con, units, dbUnit, dbCon, hist>>

\* The times are stored: in the database and in memory when they are in order, in
\* memory alone, and answered with an error, when they are not.
StoreInetTime(e, start, end) ==
  LET ordered == TestOrder(start, end, UnitStart(entry[e].owner), UnitEnd(entry[e].owner))
  IN /\ entry' = [entry EXCEPT ![e] = [@ EXCEPT !.start = start, !.end = end]]
     /\ \/ /\ ordered
           /\ dbEntry' = [dbEntry EXCEPT ![e] = [@ EXCEPT !.start = start, !.end = end]]
           /\ Righted({e})
        \/ /\ ~ordered
           /\ refused' = refused \cup {e} /\ wronged' = wronged \cup {e}
           /\ UNCHANGED dbEntry

UnitModInetTime(e) ==
  /\ entry[e] # None
  /\ \E start \in Given(EtTime, entry[e].start), end \in Given(EtTime, entry[e].end) :
       StoreInetTime(e, start, end)
  /\ UNCHANGED <<unit, con, units, dbUnit, dbCon, hist>>

-----------------------------------------------------------------------------
\* The daemon stops, or crashes, and comes back: mbb_db_load_consumers, then units
\* with their consumers, then entries.
Restart ==
  /\ con' = dbCon /\ unit' = dbUnit /\ entry' = dbEntry
  /\ units' = [c \in Consumers |-> {u \in Known(dbUnit) : dbUnit[u].con = c}]
  /\ lost' = (lost \/ torn)
  /\ torn' = FALSE
  /\ refused' = {}
  /\ UNCHANGED <<db, failures, wronged>>

Next ==
  \/ \E c \in Consumers : AddConsumer(c) \/ DropConsumer(c) \/ ConsumerModTime(c)
  \/ \E u \in Units : \/ AddUnit(u) \/ DropUnit(u) \/ UnitModTime(u)
                      \/ UnitUnsetConsumer(u) \/ UnitClearInet(u)
  \/ \E u \in Units, c \in Consumers : ConsumerAddUnit(c, u) \/ UnitSetConsumer(u, c)
  \/ \E u \in Units, e \in Entries : UnitAddInet(u, e)
  \/ \E e \in Entries : DropInet(e) \/ UnitModInetTime(e)
  \/ Restart

Spec == Init /\ [][Next]_vars

-----------------------------------------------------------------------------
(* Properties.                                                             *)

\* Memory and database hold the same objects, and entries have the same owners,
\* whatever queries fail (adding and dropping ask the database first).
SameObjects ==
  /\ Known(unit) = Known(dbUnit)
  /\ Known(con) = Known(dbCon)
  /\ Known(entry) = Known(dbEntry)
  /\ \A e \in Known(entry) : entry[e].owner = dbEntry[e].owner

\* unit->con and con->units say the same, and no object refers to one that is
\* gone, in memory and in the database.
Linked ==
  /\ \A c \in Consumers : units[c] = {u \in Known(unit) : unit[u].con = c}
  /\ \A u \in Known(unit) : unit[u].con \in Known(con) \cup {None}
  /\ \A u \in Known(dbUnit) : dbUnit[u].con \in Known(dbCon) \cup {None}
  /\ \A e \in Known(entry) : entry[e].owner \in Known(unit)

\* Memory equals the database, but for the entries whose times were refused, unless
\* a query failed after memory was changed; a restart mends both.  Good times mend
\* an entry: unit_mod_inet_time stores both of them, whatever memory held.
InSync ==
  ~torn => /\ unit = dbUnit /\ con = dbCon
           /\ \A e \in Entries \ refused : entry[e] = dbEntry[e]

\* A unit without a consumer has times of its own: mbb_unit_get_start and
\* mbb_unit_mod_time rely on it.
OrphansTimed ==
  \A u \in Known(unit) : unit[u].con = None => unit[u].start >= 0 /\ unit[u].end >= 0

\* So it is until a restart loses a change, though unit_unset_consumer may be cut
\* off between its queries.
OrphansTimedUntilLost == ~lost => OrphansTimed

\* What starts does so before it ends, inherited times included, through every
\* change of a consumer, a unit or an entry, until a restart loses a change.  The one
\* exception is an entry that was given times in a wrong order, until it has good
\* ones: memory holds the times that were answered with an error, later changes of
\* its unit are tested against those and not against its row, and so the row that
\* a restart loads need not fit any more.  No other entry and no unit is touched.
TimesOrdered ==
  ~lost =>
    \A u \in Known(unit) :
      /\ InOrder(UnitStart(u), UnitEnd(u))
      /\ \A e \in Sep(u) \ wronged : EntryInOrder(e, UnitStart(u), UnitEnd(u))
=============================================================================
