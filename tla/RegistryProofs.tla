--------------------------- MODULE RegistryProofs ---------------------------
(***************************************************************************)
(* Proofs about Registry: for any sets of consumers, units and entries, any *)
(* range of times and any number of failed queries.                        *)
(***************************************************************************)
EXTENDS Registry, TLAPS

\* The parts lean on each other: that a row is there when a field of it is
\* changed is SameObjects, and that an owner is there after a restart is both.
IInv == TypeOK /\ SameObjects /\ Linked

\* The empty registry satisfies the invariant.
LEMMA InitInv == Init => IInv
<1> SUFFICES ASSUME Init PROVE IInv
  OBVIOUS
<1>1. TypeOK
  <2>1. failures \in 0 .. MaxFailures
    BY MaxFailuresAssumption DEF Init
  <2>2. torn \in BOOLEAN /\ lost \in BOOLEAN
    BY Zenon DEF Init
  <2> QED BY <2>1, <2>2 DEF Init, TypeOK
<1>2. /\ Known(unit) = {} /\ Known(con) = {} /\ Known(entry) = {}
      /\ Known(dbUnit) = {} /\ Known(dbCon) = {} /\ Known(dbEntry) = {}
  BY DEF Init, Known
<1>3. SameObjects /\ Linked
  BY <1>2 DEF Init, SameObjects, Linked
<1> QED BY <1>1, <1>3 DEF IInv

\* Times that a consumer, a unit or an entry has.
LEMMA Times == /\ Time \subseteq EtTime /\ Clock \subseteq Time
               /\ Null \in Time /\ Parent \in EtTime
BY MaxTimeAssumption DEF Time, EtTime, Clock, Null, Parent

\* A time that is not given is the old time.
LEMMA GivenType ==
  /\ \A old \in EtTime : Given(EtTime, old) = EtTime
  /\ \A old \in Time : Given(Time, old) = Time
BY DEF Given

\* The times of a unit are times.
LEMMA UnitTimes ==
  ASSUME IInv, NEW u \in Units, unit[u] # None
  PROVE  /\ UnitStart(u) \in EtTime /\ UnitEnd(u) \in EtTime
         /\ unit[u] \in UnitRec
         /\ dbUnit[u] # None /\ dbUnit[u] \in UnitRec
         /\ unit[u].con # None => con[unit[u].con] # None
<1>1. unit[u] \in UnitRec /\ dbUnit[u] # None /\ dbUnit[u] \in UnitRec
  BY DEF IInv, TypeOK, SameObjects, Known
<1>2. unit[u].con # None => con[unit[u].con] \in ConRec /\ con[unit[u].con] # None
  BY <1>1 DEF IInv, TypeOK, Linked, Known, UnitRec
<1> QED BY <1>1, <1>2, Times DEF UnitStart, UnitEnd, Inherit, UnitRec, ConRec

-----------------------------------------------------------------------------
(* One lemma per action.                                                   *)

\* Adding a consumer, to the database and then to memory, keeps the invariant.
LEMMA StepAddConsumer ==
  ASSUME IInv, NEW c \in Consumers, AddConsumer(c)
  PROVE  IInv'
<1>1. PICK now \in Clock :
        /\ dbCon' = [dbCon EXCEPT ![c] = [start |-> now, end |-> Null]]
        /\ con' = [con EXCEPT ![c] = [start |-> now, end |-> Null]]
  BY DEF AddConsumer
<1> DEFINE new == [start |-> now, end |-> Null]
<1>2. new \in ConRec
  BY Times DEF ConRec
<1>3. new # None
  BY <1>2, NoneAssumption
<1> HIDE DEF new
<1>4. con' = [con EXCEPT ![c] = new] /\ dbCon' = [dbCon EXCEPT ![c] = new]
  BY <1>1 DEF new
<1>5. TypeOK'
  BY <1>2, <1>4 DEF IInv, TypeOK, AddConsumer, hist, wrong
<1>6. SameObjects'
  BY <1>3, <1>4 DEF IInv, TypeOK, SameObjects, AddConsumer, Known
<1>7. Linked'
  BY <1>3, <1>4 DEF IInv, TypeOK, Linked, AddConsumer, Known
<1> QED BY <1>5, <1>6, <1>7 DEF IInv

\* Dropping a consumer does: neither memory nor the database has a unit of it.
LEMMA StepDropConsumer ==
  ASSUME IInv, NEW c \in Consumers, DropConsumer(c)
  PROVE  IInv'
<1>1. TypeOK'
  BY DEF IInv, TypeOK, DropConsumer, hist, wrong
<1>2. SameObjects'
  BY DEF IInv, TypeOK, SameObjects, DropConsumer, Known
<1>3. Linked'
  BY NoneAssumption DEF IInv, TypeOK, Linked, DropConsumer, Known
<1> QED BY <1>1, <1>2, <1>3 DEF IInv

\* Changing a consumer's times does, whether the query succeeds or not.
LEMMA StepConsumerModTime ==
  ASSUME IInv, NEW c \in Consumers, ConsumerModTime(c)
  PROVE  IInv'
<1>1. con[c] \in ConRec /\ con[c].start \in Time /\ con[c].end \in Time
  BY DEF IInv, TypeOK, ConsumerModTime, ConRec
<1>2. PICK s \in Given(Time, con[c].start), e \in Given(Time, con[c].end) :
        LET new == [start |-> s, end |-> e]
        IN /\ con' = [con EXCEPT ![c] = new]
           /\ Query(dbCon' = [dbCon EXCEPT ![c] = new] /\ UNCHANGED <<dbUnit, dbEntry>>)
  BY DEF ConsumerModTime
<1> DEFINE new == [start |-> s, end |-> e]
<1>3. new \in ConRec
  BY <1>1, GivenType DEF ConRec
<1>4. new # None
  BY <1>3, NoneAssumption
<1>5. con' = [con EXCEPT ![c] = new]
  BY <1>2
<1>6. Query(dbCon' = [dbCon EXCEPT ![c] = new] /\ UNCHANGED <<dbUnit, dbEntry>>)
  BY <1>2
<1> HIDE DEF new
<1>7. /\ dbCon' = [dbCon EXCEPT ![c] = new] \/ dbCon' = dbCon
      /\ UNCHANGED <<dbUnit, dbEntry, lost>>
      /\ failures' \in 0 .. MaxFailures /\ torn' \in BOOLEAN
  <2>1. \/ dbCon' = [dbCon EXCEPT ![c] = new] /\ UNCHANGED <<dbUnit, dbEntry, failures, torn, lost>>
        \/ /\ failures < MaxFailures /\ failures' = failures + 1 /\ torn' = TRUE
           /\ UNCHANGED <<dbUnit, dbCon, dbEntry, lost>>
    BY <1>6, Zenon DEF Query, db, hist, wrong
  <2>2. torn' \in BOOLEAN
    BY <2>1, Zenon DEF IInv, TypeOK
  <2>3. failures' \in 0 .. MaxFailures
    BY <2>1, MaxFailuresAssumption DEF IInv, TypeOK
  <2> QED BY <2>1, <2>2, <2>3
<1>8. TypeOK'
  BY <1>3, <1>5, <1>7 DEF IInv, TypeOK, ConsumerModTime, wrong
<1>9. SameObjects'
  BY <1>4, <1>5, <1>7 DEF IInv, TypeOK, SameObjects, ConsumerModTime, Known
<1>10. Linked'
  BY <1>4, <1>5, <1>7 DEF IInv, TypeOK, Linked, SameObjects, ConsumerModTime, Known
<1> QED BY <1>8, <1>9, <1>10 DEF IInv

\* Creating a unit whose consumer, if any, is there keeps the invariant.
LEMMA StepUnitCreate ==
  ASSUME IInv, NEW u \in Units, NEW new \in UnitRec, UnitCreate(u, new),
         new.con # None => con[new.con] # None
  PROVE  IInv'
<1>1. new # None
  BY NoneAssumption
<1>2. new.con \in Consumers \cup {None}
  BY DEF UnitRec
<1>3. TypeOK'
  BY DEF IInv, TypeOK, UnitCreate, hist, wrong
<1>4. SameObjects'
  BY <1>1 DEF IInv, TypeOK, SameObjects, UnitCreate, Known
<1>5. Linked'
  BY <1>1, <1>2, NoneAssumption DEF IInv, TypeOK, Linked, SameObjects, UnitCreate, Known
<1> QED BY <1>3, <1>4, <1>5 DEF IInv

\* Adding a unit without a consumer is such a creation.
LEMMA StepAddUnit ==
  ASSUME IInv, NEW u \in Units, AddUnit(u)
  PROVE  IInv'
<1>1. PICK now \in Clock : UnitCreate(u, [con |-> None, start |-> now, end |-> Null])
  BY DEF AddUnit
<1>2. [con |-> None, start |-> now, end |-> Null] \in UnitRec
  BY Times DEF UnitRec
<1> QED BY <1>1, <1>2, StepUnitCreate

\* So is adding a unit to a consumer.
LEMMA StepConsumerAddUnit ==
  ASSUME IInv, NEW c \in Consumers, NEW u \in Units, ConsumerAddUnit(c, u)
  PROVE  IInv'
<1>1. PICK start \in EtTime : UnitCreate(u, [con |-> c, start |-> start, end |-> Parent])
  BY Times DEF ConsumerAddUnit
<1>2. [con |-> c, start |-> start, end |-> Parent] \in UnitRec
  BY Times DEF UnitRec
<1>3. con[c] # None
  BY DEF ConsumerAddUnit
<1> QED BY <1>1, <1>2, <1>3, StepUnitCreate

\* Dropping a unit keeps the invariant: it has no entries, and its consumer forgets it.
LEMMA StepDropUnit ==
  ASSUME IInv, NEW u \in Units, DropUnit(u)
  PROVE  IInv'
<1>1. TypeOK'
  BY DEF IInv, TypeOK, DropUnit, hist, wrong
<1>2. SameObjects'
  BY DEF IInv, TypeOK, SameObjects, DropUnit, Known
<1>3. Linked'
  <2>1. unit[u] \in UnitRec /\ unit[u].con \in Consumers \cup {None}
    BY DEF IInv, TypeOK, DropUnit, UnitRec
  <2>2. \A c \in Consumers : units'[c] = {v \in Known(unit') : unit'[v].con = c}
    BY <2>1 DEF IInv, TypeOK, Linked, DropUnit, Known
  <2>3. /\ \A v \in Known(unit') : unit'[v].con \in Known(con') \cup {None}
        /\ \A v \in Known(dbUnit') : dbUnit'[v].con \in Known(dbCon') \cup {None}
    BY DEF IInv, TypeOK, Linked, DropUnit, Known
  <2>4. \A e \in Known(entry') : entry'[e].owner \in Known(unit')
    BY DEF IInv, TypeOK, Linked, DropUnit, Known, Sep
  <2> QED BY <2>2, <2>3, <2>4 DEF Linked
<1> QED BY <1>1, <1>2, <1>3 DEF IInv

\* Changing a unit's times does, whether the query succeeds or not.
LEMMA StepUnitModTime ==
  ASSUME IInv, NEW u \in Units, UnitModTime(u)
  PROVE  IInv'
<1>1. unit[u] # None
  BY DEF UnitModTime
<1>2. PICK start \in Given(EtTime, unit[u].start), end \in Given(EtTime, unit[u].end) :
        /\ unit' = [unit EXCEPT ![u] = [unit[u] EXCEPT !.start = start, !.end = end]]
        /\ Query(/\ dbUnit' = [dbUnit EXCEPT ![u] = [@ EXCEPT !.start = start, !.end = end]]
                 /\ UNCHANGED <<dbCon, dbEntry>>)
  BY DEF UnitModTime
<1> DEFINE new == [unit[u] EXCEPT !.start = start, !.end = end]
           row == [dbUnit[u] EXCEPT !.start = start, !.end = end]
<1>3. unit[u] \in UnitRec /\ dbUnit[u] # None /\ dbUnit[u] \in UnitRec
  BY <1>1, UnitTimes
<1>4. start \in EtTime /\ end \in EtTime
  BY <1>3, GivenType DEF UnitRec
<1>5. Query(dbUnit' = [dbUnit EXCEPT ![u] = row] /\ UNCHANGED <<dbCon, dbEntry>>)
  BY <1>2
<1>6. unit' = [unit EXCEPT ![u] = new]
  BY <1>2
<1>7. new \in UnitRec /\ row \in UnitRec /\ new.con = unit[u].con /\ row.con = dbUnit[u].con
  BY <1>3, <1>4 DEF UnitRec
<1> HIDE DEF new, row
<1>8. \/ dbUnit' = [dbUnit EXCEPT ![u] = row] /\ UNCHANGED <<dbCon, dbEntry, failures, torn, lost>>
      \/ /\ failures < MaxFailures /\ failures' = failures + 1 /\ torn' = TRUE
         /\ UNCHANGED <<dbUnit, dbCon, dbEntry, lost>>
  BY <1>5, Zenon DEF Query, db, hist, wrong
<1>9. PICK r \in UnitRec : dbUnit' = [dbUnit EXCEPT ![u] = r] /\ r.con = dbUnit[u].con
  BY <1>3, <1>7, <1>8 DEF IInv, TypeOK
<1>10. UNCHANGED <<con, entry, units, dbCon, dbEntry, lost, refused, wronged>>
  BY <1>8, Zenon DEF UnitModTime, wrong
<1>11. failures' \in 0 .. MaxFailures
  BY <1>8, MaxFailuresAssumption DEF IInv, TypeOK
<1>12. torn' \in BOOLEAN
  BY <1>8, Zenon DEF IInv, TypeOK
<1>13. new # None /\ r # None
  BY <1>7, <1>9, NoneAssumption
<1>14. TypeOK'
  BY <1>6, <1>7, <1>9, <1>10, <1>11, <1>12 DEF IInv, TypeOK
<1>15. SameObjects'
  BY <1>1, <1>3, <1>6, <1>9, <1>10, <1>13 DEF IInv, TypeOK, SameObjects, Known
<1>16. Linked'
  BY <1>1, <1>3, <1>6, <1>7, <1>9, <1>10, <1>13 DEF IInv, TypeOK, Linked, Known
<1> QED BY <1>14, <1>15, <1>16 DEF IInv

\* Giving an orphan a consumer does: both sides of the link change together.
LEMMA StepUnitSetConsumer ==
  ASSUME IInv, NEW u \in Units, NEW c \in Consumers, UnitSetConsumer(u, c)
  PROVE  IInv'
<1> DEFINE new == [unit[u] EXCEPT !.con = c]
           row == [dbUnit[u] EXCEPT !.con = c]
<1>1. unit[u] # None /\ unit[u].con = None /\ con[c] # None
  BY DEF UnitSetConsumer
<1>2. unit[u] \in UnitRec /\ dbUnit[u] # None /\ dbUnit[u] \in UnitRec
  BY <1>1, UnitTimes
<1>3. new \in UnitRec /\ row \in UnitRec /\ new.con = c /\ row.con = c
  BY <1>2 DEF UnitRec
<1>4. /\ unit' = [unit EXCEPT ![u] = new] /\ dbUnit' = [dbUnit EXCEPT ![u] = row]
      /\ units' = [units EXCEPT ![c] = @ \cup {u}]
      /\ UNCHANGED <<con, entry, dbCon, dbEntry, failures, torn, lost, refused, wronged>>
  BY DEF UnitSetConsumer, hist, wrong
<1> HIDE DEF new, row
<1>5. new # None /\ row # None
  BY <1>3, NoneAssumption
<1>6. TypeOK'
  BY <1>3, <1>4 DEF IInv, TypeOK
<1>7. SameObjects'
  BY <1>1, <1>2, <1>4, <1>5 DEF IInv, TypeOK, SameObjects, Known
<1>8. Linked'
  <2>1. \A d \in Consumers : units'[d] = {v \in Known(unit') : unit'[v].con = d}
    BY <1>1, <1>3, <1>4, <1>5, NoneAssumption DEF IInv, TypeOK, Linked, Known
  <2>2. /\ \A v \in Known(unit') : unit'[v].con \in Known(con') \cup {None}
        /\ \A v \in Known(dbUnit') : dbUnit'[v].con \in Known(dbCon') \cup {None}
        /\ \A e \in Known(entry') : entry'[e].owner \in Known(unit')
    BY <1>1, <1>2, <1>3, <1>4, <1>5 DEF IInv, TypeOK, Linked, SameObjects, Known
  <2> QED BY <2>1, <2>2 DEF Linked
<1> QED BY <1>6, <1>7, <1>8 DEF IInv

\* Taking a unit out of its consumer does, wherever its two queries are cut off: the
\* consumer the database may keep is one that DropConsumer is then refused.
LEMMA StepUnitUnsetConsumer ==
  ASSUME IInv, NEW u \in Units, UnitUnsetConsumer(u)
  PROVE  IInv'
<1> DEFINE c == unit[u].con
           inherits == unit[u].start < 0 \/ unit[u].end < 0
           timed == IF inherits
                      THEN [dbUnit[u] EXCEPT !.start = UnitStart(u), !.end = UnitEnd(u)]
                      ELSE dbUnit[u]
           row == [timed EXCEPT !.con = None]
           new == Orphan(u)
<1>1. unit[u] # None /\ c # None
  BY DEF UnitUnsetConsumer
<1>2. /\ unit[u] \in UnitRec /\ dbUnit[u] # None /\ dbUnit[u] \in UnitRec
      /\ UnitStart(u) \in EtTime /\ UnitEnd(u) \in EtTime
  BY <1>1, UnitTimes
<1>3. c \in Consumers
  BY <1>1, <1>2 DEF UnitRec
<1>4. timed \in UnitRec /\ timed.con = dbUnit[u].con
  BY <1>2 DEF UnitRec
<1>5. new \in UnitRec /\ new.con = None
  BY <1>2 DEF UnitRec, Orphan
<1>6. /\ unit' = [unit EXCEPT ![u] = new]
      /\ units' = [units EXCEPT ![c] = @ \ {u}]
      /\ UNCHANGED <<con, entry, refused, wronged>>
  BY DEF UnitUnsetConsumer, wrong
<1>7. \/ dbUnit' = [dbUnit EXCEPT ![u] = row] /\ UNCHANGED <<dbCon, dbEntry, failures, torn, lost>>
      \/ /\ failures < MaxFailures /\ failures' = failures + 1 /\ torn' = TRUE
         /\ dbUnit' = dbUnit \/ dbUnit' = [dbUnit EXCEPT ![u] = timed]
         /\ UNCHANGED <<dbCon, dbEntry, lost>>
  BY Zenon DEF UnitUnsetConsumer, UnsetQueries, Query, db, hist, wrong
<1> HIDE DEF timed, new, inherits
<1>8. row \in UnitRec /\ row.con = None
  BY <1>4 DEF UnitRec
<1> HIDE DEF row
<1>9. PICK r \in UnitRec : /\ dbUnit' = [dbUnit EXCEPT ![u] = r]
                           /\ r.con = dbUnit[u].con \/ r.con = None
  <2>1. dbUnit' = dbUnit => dbUnit' = [dbUnit EXCEPT ![u] = dbUnit[u]]
    BY DEF IInv, TypeOK
  <2> QED BY <1>2, <1>4, <1>7, <1>8, <2>1
<1>10. UNCHANGED <<dbCon, dbEntry, lost>>
  BY <1>7, Zenon
<1>11. failures' \in 0 .. MaxFailures
  BY <1>7, MaxFailuresAssumption DEF IInv, TypeOK
<1>12. torn' \in BOOLEAN
  BY <1>7, Zenon DEF IInv, TypeOK
<1>13. new # None /\ r # None
  BY <1>5, <1>9, NoneAssumption
<1> HIDE DEF c
<1>14. TypeOK'
  BY <1>3, <1>5, <1>6, <1>9, <1>10, <1>11, <1>12 DEF IInv, TypeOK
<1>15. SameObjects'
  BY <1>1, <1>2, <1>6, <1>9, <1>10, <1>13 DEF IInv, TypeOK, SameObjects, Known
<1>16. Linked'
  <2>1. \A d \in Consumers : units'[d] = {v \in Known(unit') : unit'[v].con = d}
    BY <1>1, <1>3, <1>5, <1>6, <1>13, NoneAssumption DEF c, IInv, TypeOK, Linked, Known
  <2>2. /\ \A v \in Known(unit') : unit'[v].con \in Known(con') \cup {None}
        /\ \A e \in Known(entry') : entry'[e].owner \in Known(unit')
    BY <1>1, <1>5, <1>6, <1>13 DEF IInv, TypeOK, Linked, Known
  <2>3. \A v \in Known(dbUnit') : dbUnit'[v].con \in Known(dbCon') \cup {None}
    BY <1>2, <1>9, <1>10, <1>13 DEF IInv, TypeOK, Linked, Known
  <2> QED BY <2>1, <2>2, <2>3 DEF Linked
<1> QED BY <1>14, <1>15, <1>16 DEF IInv

\* Adding an entry to a unit keeps the invariant.
LEMMA StepUnitAddInet ==
  ASSUME IInv, NEW u \in Units, NEW e \in Entries, UnitAddInet(u, e)
  PROVE  IInv'
<1>1. PICK start \in EtTime :
        /\ dbEntry' = [dbEntry EXCEPT ![e] = [owner |-> u, start |-> start, end |-> Parent]]
        /\ entry' = [entry EXCEPT ![e] = [owner |-> u, start |-> start, end |-> Parent]]
  BY Times DEF UnitAddInet
<1> DEFINE new == [owner |-> u, start |-> start, end |-> Parent]
<1>2. new \in EntryRec /\ new.owner = u
  BY Times DEF EntryRec
<1>3. /\ dbEntry' = [dbEntry EXCEPT ![e] = new] /\ entry' = [entry EXCEPT ![e] = new]
      /\ unit[u] # None
      /\ UNCHANGED <<unit, con, units, dbUnit, dbCon, failures, torn, lost, refused, wronged>>
  BY <1>1 DEF UnitAddInet, hist, wrong
<1> HIDE DEF new
<1>4. new # None
  BY <1>2, NoneAssumption
<1>5. TypeOK'
  BY <1>2, <1>3 DEF IInv, TypeOK
<1>6. SameObjects'
  BY <1>3, <1>4 DEF IInv, TypeOK, SameObjects, Known
<1>7. Linked'
  BY <1>2, <1>3, <1>4 DEF IInv, TypeOK, Linked, Known
<1> QED BY <1>5, <1>6, <1>7 DEF IInv

\* Dropping an entry does.
LEMMA StepDropInet ==
  ASSUME IInv, NEW e \in Entries, DropInet(e)
  PROVE  IInv'
<1>1. TypeOK'
  BY DEF IInv, TypeOK, DropInet, Righted, hist
<1>2. SameObjects'
  BY DEF IInv, TypeOK, SameObjects, DropInet, Known
<1>3. Linked'
  BY DEF IInv, TypeOK, Linked, DropInet, Known
<1> QED BY <1>1, <1>2, <1>3 DEF IInv

\* Clearing a unit does: memory and database agree on which entries it owns.
LEMMA StepUnitClearInet ==
  ASSUME IInv, NEW u \in Units, UnitClearInet(u)
  PROVE  IInv'
<1>1. TypeOK'
  BY DEF IInv, TypeOK, UnitClearInet, Righted, hist
<1>2. SameObjects'
  BY DEF IInv, TypeOK, SameObjects, UnitClearInet, Known, Sep
<1>3. Linked'
  BY DEF IInv, TypeOK, Linked, UnitClearInet, Known
<1> QED BY <1>1, <1>2, <1>3 DEF IInv

\* Changing an entry's times does, though a wrong order reaches only memory.
LEMMA StepUnitModInetTime ==
  ASSUME IInv, NEW e \in Entries, UnitModInetTime(e)
  PROVE  IInv'
<1>1. PICK start \in Given(EtTime, entry[e].start), end \in Given(EtTime, entry[e].end) :
        /\ \/ dbEntry' = [dbEntry EXCEPT ![e] = [@ EXCEPT !.start = start, !.end = end]]
           \/ dbEntry' = dbEntry
        /\ entry' = [entry EXCEPT ![e] = [entry[e] EXCEPT !.start = start, !.end = end]]
  BY DEF UnitModInetTime, StoreInetTime
<1> DEFINE new == [entry[e] EXCEPT !.start = start, !.end = end]
           row == [dbEntry[e] EXCEPT !.start = start, !.end = end]
<1>2. /\ entry[e] # None /\ entry[e] \in EntryRec
      /\ dbEntry[e] # None /\ dbEntry[e] \in EntryRec
  BY DEF UnitModInetTime, IInv, TypeOK, SameObjects, Known
<1>3. start \in EtTime /\ end \in EtTime
  BY <1>2, GivenType DEF EntryRec
<1>4. /\ entry' = [entry EXCEPT ![e] = new]
      /\ dbEntry' = [dbEntry EXCEPT ![e] = row] \/ dbEntry' = dbEntry
      /\ UNCHANGED <<unit, con, units, dbUnit, dbCon, failures, torn, lost>>
  BY <1>1 DEF UnitModInetTime, hist
<1>10. refused' \subseteq Entries /\ wronged' \subseteq Entries
  <2>1. \/ Righted({e})
        \/ refused' = refused \cup {e} /\ wronged' = wronged \cup {e}
    BY Zenon DEF UnitModInetTime, StoreInetTime
  <2> QED BY <2>1 DEF Righted, IInv, TypeOK
<1>5. /\ new \in EntryRec /\ new.owner = entry[e].owner
      /\ row \in EntryRec /\ row.owner = dbEntry[e].owner
  BY <1>2, <1>3 DEF EntryRec
<1> HIDE DEF new, row
<1>6. new # None /\ row # None
  BY <1>5, NoneAssumption
<1>7. TypeOK'
  BY <1>4, <1>5, <1>10 DEF IInv, TypeOK
<1>8. SameObjects'
  BY <1>2, <1>4, <1>5, <1>6 DEF IInv, TypeOK, SameObjects, Known
<1>9. Linked'
  BY <1>2, <1>4, <1>5, <1>6 DEF IInv, TypeOK, Linked, Known
<1> QED BY <1>7, <1>8, <1>9 DEF IInv

\* Loading from the database does: the owners of its entries are there because they
\* are in memory and the objects are the same.
LEMMA StepRestart ==
  ASSUME IInv, Restart
  PROVE  IInv'
<1>1. TypeOK'
  <2>1. torn' \in BOOLEAN /\ lost' \in BOOLEAN
    BY Zenon DEF IInv, TypeOK, Restart
  <2>2. units' \in [Consumers -> SUBSET Units]
    BY DEF IInv, TypeOK, Restart, Known
  <2> QED BY <2>1, <2>2 DEF IInv, TypeOK, Restart, db
<1>2. SameObjects'
  BY DEF IInv, TypeOK, SameObjects, Restart, Known, db
<1>3. Linked'
  <2>1. \A e \in Known(dbEntry) : dbEntry[e].owner \in Known(dbUnit)
    BY DEF IInv, SameObjects, Linked
  <2> QED BY <2>1 DEF IInv, TypeOK, Linked, Restart, Known, db
<1> QED BY <1>1, <1>2, <1>3 DEF IInv

\* Every step, and every stutter, keeps the invariant.
LEMMA NextInv == IInv /\ [Next]_vars => IInv'
<1> SUFFICES ASSUME IInv, [Next]_vars PROVE IInv'
  OBVIOUS
<1>1. ASSUME NEW c \in Consumers, AddConsumer(c) \/ DropConsumer(c) \/ ConsumerModTime(c)
      PROVE  IInv'
  BY <1>1, StepAddConsumer, StepDropConsumer, StepConsumerModTime
<1>2. ASSUME NEW u \in Units, \/ AddUnit(u) \/ DropUnit(u) \/ UnitModTime(u)
                              \/ UnitUnsetConsumer(u) \/ UnitClearInet(u)
      PROVE  IInv'
  BY <1>2, StepAddUnit, StepDropUnit, StepUnitModTime, StepUnitUnsetConsumer, StepUnitClearInet
<1>3. ASSUME NEW u \in Units, NEW c \in Consumers, ConsumerAddUnit(c, u) \/ UnitSetConsumer(u, c)
      PROVE  IInv'
  BY <1>3, StepConsumerAddUnit, StepUnitSetConsumer
<1>4. ASSUME NEW u \in Units, NEW e \in Entries, UnitAddInet(u, e)
      PROVE  IInv'
  BY <1>4, StepUnitAddInet
<1>5. ASSUME NEW e \in Entries, DropInet(e) \/ UnitModInetTime(e)
      PROVE  IInv'
  BY <1>5, StepDropInet, StepUnitModInetTime
<1>6. CASE UNCHANGED vars
  BY <1>6 DEF IInv, TypeOK, SameObjects, Linked, Known, vars, mem, db, hist, wrong
<1> QED BY <1>1, <1>2, <1>3, <1>4, <1>5, <1>6, StepRestart DEF Next

\* The registry keeps its types: every object in memory and every row of the
\* database is one the code can hold.
THEOREM RegistryTypeOK == Spec => []TypeOK
<1>1. IInv => TypeOK
  BY DEF IInv
<1> QED BY <1>1, InitInv, NextInv, PTL DEF Spec

\* Memory and database never disagree on which consumers, units and entries there
\* are, whichever queries of the methods fail and whenever the daemon restarts.
THEOREM RegistrySameObjects == Spec => []SameObjects
<1>1. IInv => SameObjects
  BY DEF IInv
<1> QED BY <1>1, InitInv, NextInv, PTL DEF Spec

\* No unit refers to a consumer that is gone, no entry to a unit that is gone, and
\* a consumer's list holds its units and nothing else: no dangling pointer in
\* memory, no foreign key that fails in the database.
THEOREM RegistryLinked == Spec => []Linked
<1>1. IInv => Linked
  BY DEF IInv
<1> QED BY <1>1, InitInv, NextInv, PTL DEF Spec

-----------------------------------------------------------------------------
(* Memory and database are the same between failures, and orphans have      *)
(* times of their own: both rest on IInv.                                  *)

\* InSync in two parts: consumers and units, and entries.
SameRows == ~torn => unit = dbUnit /\ con = dbCon
SameEntries == ~torn => \A e \in Entries \ refused : entry[e] = dbEntry[e]

\* With what a restart needs: an entry that was refused has had no good times since.
Sync == SameRows /\ SameEntries /\ refused \subseteq wronged

\* Every step keeps consumers and units the same unless it leaves memory torn.
LEMMA SameRowsStep == IInv /\ SameRows /\ [Next]_vars => SameRows'
<1> SUFFICES ASSUME IInv, SameRows, [Next]_vars, ~torn'
             PROVE  unit' = dbUnit' /\ con' = dbCon'
  BY DEF SameRows
<1> DEFINE Goal == unit' = dbUnit' /\ con' = dbCon'
<1>1. ASSUME NEW c \in Consumers, AddConsumer(c) \/ DropConsumer(c)
      PROVE  Goal
  BY <1>1 DEF AddConsumer, DropConsumer, SameRows, hist, wrong
<1>2. ASSUME NEW c \in Consumers, ConsumerModTime(c)
      PROVE  Goal
  BY <1>2 DEF ConsumerModTime, Query, SameRows, hist, wrong
<1>3. ASSUME NEW u \in Units, NEW new, UnitCreate(u, new)
      PROVE  Goal
  BY <1>3 DEF UnitCreate, SameRows, hist, wrong
<1>4. ASSUME NEW u \in Units, DropUnit(u)
      PROVE  Goal
  BY <1>4 DEF DropUnit, SameRows, hist, wrong
<1>5. ASSUME NEW u \in Units, UnitModTime(u)
      PROVE  Goal
  <2>1. ~torn /\ UNCHANGED <<con, entry, dbCon, dbEntry>>
    BY <1>5 DEF UnitModTime, Query, hist, wrong
  <2>2. PICK start \in Given(EtTime, unit[u].start), end \in Given(EtTime, unit[u].end) :
          /\ unit' = [unit EXCEPT ![u] = [unit[u] EXCEPT !.start = start, !.end = end]]
          /\ dbUnit' = [dbUnit EXCEPT ![u] = [@ EXCEPT !.start = start, !.end = end]]
    BY <1>5, Zenon DEF UnitModTime, Query
  <2> QED BY <2>1, <2>2 DEF SameRows
<1>6. ASSUME NEW u \in Units, UnitUnsetConsumer(u)
      PROVE  Goal
  <2>1. /\ ~torn /\ UNCHANGED <<con, entry, dbCon, dbEntry>>
        /\ unit[u] # None
        /\ unit' = [unit EXCEPT ![u] = Orphan(u)]
        /\ LET inherits == unit[u].start < 0 \/ unit[u].end < 0
               timed == IF inherits
                          THEN [dbUnit[u] EXCEPT !.start = UnitStart(u), !.end = UnitEnd(u)]
                          ELSE dbUnit[u]
           IN dbUnit' = [dbUnit EXCEPT ![u] = [timed EXCEPT !.con = None]]
    BY <1>6 DEF UnitUnsetConsumer, UnsetQueries, Query, hist, wrong
  <2>2. unit[u] \in UnitRec /\ dbUnit = unit /\ con = dbCon
    BY <2>1, UnitTimes DEF SameRows
  <2>3. ~(unit[u].start < 0 \/ unit[u].end < 0) => UnitStart(u) = unit[u].start /\ UnitEnd(u) = unit[u].end
    BY <2>2 DEF UnitStart, UnitEnd, Inherit
  <2> DEFINE inherits == unit[u].start < 0 \/ unit[u].end < 0
             timed == IF inherits
                        THEN [dbUnit[u] EXCEPT !.start = UnitStart(u), !.end = UnitEnd(u)]
                        ELSE dbUnit[u]
  <2>4. timed = [dbUnit[u] EXCEPT !.start = UnitStart(u), !.end = UnitEnd(u)]
    BY <2>2, <2>3 DEF UnitRec
  <2> HIDE DEF timed
  <2>5. [timed EXCEPT !.con = None] = Orphan(u)
    <3>1. UnitStart(u) \in EtTime /\ UnitEnd(u) \in EtTime
      BY <2>1, UnitTimes
    <3> DEFINE row == [timed EXCEPT !.con = None]
               new == Orphan(u)
    <3>2. /\ row \in UnitRec /\ row.con = None
          /\ row.start = UnitStart(u) /\ row.end = UnitEnd(u)
      BY <2>2, <2>4, <3>1 DEF UnitRec
    <3>3. /\ new \in UnitRec /\ new.con = None
          /\ new.start = UnitStart(u) /\ new.end = UnitEnd(u)
      BY <3>1 DEF Orphan, UnitRec
    <3> HIDE DEF row, new
    <3>4. row = new
      BY <3>2, <3>3 DEF UnitRec
    <3> QED BY <3>4 DEF row, new
  <2>6. dbUnit' = [dbUnit EXCEPT ![u] = [timed EXCEPT !.con = None]]
    BY <2>1 DEF timed
  <2>7. dbUnit' = [unit EXCEPT ![u] = Orphan(u)]
    BY <2>2, <2>5, <2>6
  <2> QED BY <2>1, <2>7 DEF SameRows
<1>7. ASSUME NEW u \in Units, NEW c \in Consumers, UnitSetConsumer(u, c)
      PROVE  Goal
  BY <1>7 DEF UnitSetConsumer, SameRows, hist, wrong
<1>8. ASSUME NEW u \in Units, NEW e \in Entries, UnitAddInet(u, e)
      PROVE  Goal
  BY <1>8 DEF UnitAddInet, SameRows, hist, wrong
<1>9. ASSUME NEW u \in Units, UnitClearInet(u)
      PROVE  Goal
  BY <1>9 DEF UnitClearInet, SameRows, Sep, Known, hist, wrong
<1>10. ASSUME NEW e \in Entries, DropInet(e)
       PROVE  Goal
  BY <1>10 DEF DropInet, SameRows, hist, wrong
<1>11. ASSUME NEW e \in Entries, UnitModInetTime(e)
       PROVE  Goal
  <2>1. UNCHANGED <<unit, con, dbUnit, dbCon, hist>>
    BY <1>11, Zenon DEF UnitModInetTime
  <2> QED BY <2>1 DEF SameRows, hist
<1>12. CASE Restart
  BY <1>12 DEF Restart, db
<1>13. CASE UNCHANGED vars
  BY <1>13 DEF SameRows, vars, mem, db, hist, wrong
<1>14. ASSUME NEW u \in Units, AddUnit(u) \/ \E c \in Consumers : ConsumerAddUnit(c, u)
       PROVE  Goal
  BY <1>3, <1>14 DEF AddUnit, ConsumerAddUnit
<1> QED BY <1>1, <1>2, <1>4, <1>5, <1>6, <1>7, <1>8, <1>9, <1>10, <1>11, <1>12, <1>13, <1>14 DEF Next

\* What a step does to entries: nothing, or one entry comes or goes, or those of a
\* unit go, or one has new times, or memory is loaded.
LEMMA EntriesStep ==
  ASSUME IInv, [Next]_vars
  PROVE  \/ UNCHANGED <<entry, dbEntry, refused, wronged>> /\ (~torn' => ~torn)
         \/ UNCHANGED hist /\ \/ \E u \in Units, e \in Entries : UnitAddInet(u, e)
                              \/ \E u \in Units : UnitClearInet(u)
                              \/ \E e \in Entries : DropInet(e) \/ UnitModInetTime(e)
         \/ Restart
<1> DEFINE Same == UNCHANGED <<entry, dbEntry, refused, wronged>> /\ (~torn' => ~torn)
<1>1. ASSUME NEW c \in Consumers, AddConsumer(c) \/ DropConsumer(c) \/ ConsumerModTime(c)
      PROVE  Same
  BY <1>1 DEF AddConsumer, DropConsumer, ConsumerModTime, Query, db, hist, wrong
<1>2. ASSUME NEW u \in Units, AddUnit(u) \/ DropUnit(u)
      PROVE  Same
  BY <1>2 DEF AddUnit, UnitCreate, DropUnit, hist, wrong
<1>3. ASSUME NEW u \in Units, UnitModTime(u) \/ UnitUnsetConsumer(u)
      PROVE  Same
  <2>1. UNCHANGED <<entry, dbEntry, wrong>> /\ (torn' = TRUE \/ UNCHANGED torn)
    BY <1>3, Zenon DEF UnitModTime, UnitUnsetConsumer, UnsetQueries, Query, db, hist
  <2> QED BY <2>1 DEF wrong
<1>4. ASSUME NEW u \in Units, NEW c \in Consumers, ConsumerAddUnit(c, u) \/ UnitSetConsumer(u, c)
      PROVE  Same
  BY <1>4 DEF ConsumerAddUnit, UnitCreate, UnitSetConsumer, hist, wrong
<1>5. ASSUME NEW u \in Units, UnitClearInet(u) \/ \E e \in Entries : UnitAddInet(u, e)
      PROVE  UNCHANGED hist
  BY <1>5, Zenon DEF UnitClearInet, UnitAddInet
<1>6. ASSUME NEW e \in Entries, DropInet(e) \/ UnitModInetTime(e)
      PROVE  UNCHANGED hist
  BY <1>6, Zenon DEF DropInet, UnitModInetTime
<1>7. CASE UNCHANGED vars
  BY <1>7 DEF vars, mem, db, hist, wrong
<1> QED BY <1>1, <1>2, <1>3, <1>4, <1>5, <1>6, <1>7 DEF Next

\* New times of an entry: good ones in both places, and it is righted, or others in
\* memory alone, and it is wronged.
LEMMA NewInetTime ==
  ASSUME IInv, NEW e \in Entries, UnitModInetTime(e)
  PROVE  \E new \in EntryRec :
           /\ entry' = [entry EXCEPT ![e] = new]
           /\ new.owner = entry[e].owner
           /\ \/ /\ TestOrder(new.start, new.end, UnitStart(new.owner), UnitEnd(new.owner))
                 /\ dbEntry' = [dbEntry EXCEPT ![e] = new]
                 /\ Righted({e})
              \/ /\ refused' = refused \cup {e} /\ wronged' = wronged \cup {e}
                 /\ UNCHANGED dbEntry
<1>1. PICK start \in Given(EtTime, entry[e].start), end \in Given(EtTime, entry[e].end) :
        StoreInetTime(e, start, end)
  BY DEF UnitModInetTime
<1> DEFINE new == [entry[e] EXCEPT !.start = start, !.end = end]
<1>2. /\ entry[e] # None /\ entry[e] \in EntryRec
      /\ dbEntry[e] # None /\ dbEntry[e] \in EntryRec /\ dbEntry[e].owner = entry[e].owner
  BY DEF UnitModInetTime, IInv, TypeOK, SameObjects, Known
<1>3. start \in EtTime /\ end \in EtTime
  BY <1>2, GivenType DEF EntryRec
<1>4. StoreInetTime(e, start, end)
  BY <1>1
<1>5. new \in EntryRec /\ new.owner = entry[e].owner /\ new.start = start /\ new.end = end
  BY <1>2, <1>3 DEF EntryRec
<1>6. [dbEntry[e] EXCEPT !.start = start, !.end = end] = new
  BY <1>2, <1>3 DEF EntryRec
<1>7. /\ entry' = [entry EXCEPT ![e] = new]
      /\ \/ /\ TestOrder(start, end, UnitStart(entry[e].owner), UnitEnd(entry[e].owner))
            /\ dbEntry' = [dbEntry EXCEPT ![e] = new]
            /\ Righted({e})
         \/ /\ refused' = refused \cup {e} /\ wronged' = wronged \cup {e}
            /\ UNCHANGED dbEntry
  BY <1>4, <1>6 DEF StoreInetTime
<1> HIDE DEF new
<1> QED BY <1>5, <1>7

\* Every step keeps memory and database the same unless it leaves memory torn or an
\* entry wronged.
LEMMA SyncStep == IInv /\ Sync /\ [Next]_vars => Sync'
<1> SUFFICES ASSUME IInv, Sync, [Next]_vars
             PROVE  SameEntries' /\ refused' \subseteq wronged'
  BY SameRowsStep DEF Sync
<1> DEFINE Goal == SameEntries' /\ refused' \subseteq wronged'
<1>1. CASE UNCHANGED <<entry, dbEntry, refused, wronged>> /\ (~torn' => ~torn)
  BY <1>1 DEF Sync, SameEntries
<1>2. ASSUME NEW u \in Units, NEW e \in Entries, UnitAddInet(u, e), UNCHANGED hist
      PROVE  Goal
  BY <1>2 DEF UnitAddInet, Sync, SameEntries, IInv, TypeOK, hist, wrong
<1>3. ASSUME NEW u \in Units, UnitClearInet(u), UNCHANGED hist
      PROVE  Goal
  <2>1. \A e \in Entries : e \in Sep(u) <=> e \in Known(dbEntry) /\ dbEntry[e].owner = u
    BY DEF Sep, Known, IInv, TypeOK, SameObjects
  <2>2. \A e \in Entries : /\ e \in Sep(u) => entry'[e] = dbEntry'[e]
                           /\ e \notin Sep(u) => entry'[e] = entry[e] /\ dbEntry'[e] = dbEntry[e]
    BY <1>3, <2>1 DEF UnitClearInet
  <2>3. refused' = refused \ Sep(u) /\ wronged' = wronged \ Sep(u)
    BY <1>3 DEF UnitClearInet, Righted
  <2> QED BY <1>3, <2>2, <2>3 DEF Sync, SameEntries, hist
<1>4. ASSUME NEW e \in Entries, DropInet(e), UNCHANGED hist
      PROVE  Goal
  BY <1>4 DEF DropInet, Righted, Sync, SameEntries, IInv, TypeOK, hist
<1>5. ASSUME NEW e \in Entries, UnitModInetTime(e), UNCHANGED hist
      PROVE  Goal
  <2>1. PICK new :
          /\ entry' = [entry EXCEPT ![e] = new]
          /\ \/ dbEntry' = [dbEntry EXCEPT ![e] = new] /\ Righted({e})
             \/ /\ refused' = refused \cup {e} /\ wronged' = wronged \cup {e}
                /\ UNCHANGED dbEntry
    BY <1>5, NewInetTime
  <2> QED BY <1>5, <2>1 DEF Righted, Sync, SameEntries, IInv, TypeOK, hist
<1>6. CASE Restart
  BY <1>6 DEF Restart, SameEntries, db
<1> QED BY <1>1, <1>2, <1>3, <1>4, <1>5, <1>6, EntriesStep

\* Every step keeps the times of orphans: a restart, because memory was the database
\* or the step sets lost; the others by what they test.
LEMMA OrphanStep ==
  IInv /\ Sync /\ OrphansTimedUntilLost /\ [Next]_vars => OrphansTimedUntilLost'
<1> SUFFICES ASSUME IInv, Sync, OrphansTimedUntilLost, [Next]_vars, ~lost'
             PROVE  OrphansTimed'
  BY DEF OrphansTimedUntilLost
<1>1. ASSUME UNCHANGED unit, ~lost
      PROVE  OrphansTimed'
  BY <1>1 DEF OrphansTimedUntilLost, OrphansTimed, Known
<1>2. ASSUME ~lost, NEW u \in Units, NEW new, unit' = [unit EXCEPT ![u] = new],
             new # None /\ new.con = None => new.start >= 0 /\ new.end >= 0
      PROVE  OrphansTimed'
  BY <1>2 DEF OrphansTimedUntilLost, OrphansTimed, Known, IInv, TypeOK
<1>3. ASSUME NEW c \in Consumers, AddConsumer(c) \/ DropConsumer(c) \/ ConsumerModTime(c)
      PROVE  UNCHANGED unit /\ ~lost
  BY <1>3 DEF AddConsumer, DropConsumer, ConsumerModTime, Query, hist, wrong
<1>4. ASSUME NEW u \in Units, AddUnit(u)
      PROVE  OrphansTimed'
  <2>1. PICK now \in Clock : UnitCreate(u, [con |-> None, start |-> now, end |-> Null])
    BY <1>4 DEF AddUnit
  <2>2. ~lost /\ unit' = [unit EXCEPT ![u] = [con |-> None, start |-> now, end |-> Null]]
    BY <2>1 DEF UnitCreate, hist, wrong
  <2>3. now >= 0 /\ Null >= 0
    BY MaxTimeAssumption DEF Clock, Null
  <2> QED BY <1>2, <2>2, <2>3
<1>5. ASSUME NEW u \in Units, NEW c \in Consumers, ConsumerAddUnit(c, u)
      PROVE  OrphansTimed'
  <2>1. PICK start \in EtTime : UnitCreate(u, [con |-> c, start |-> start, end |-> Parent])
    BY <1>5, Times DEF ConsumerAddUnit
  <2>2. ~lost /\ unit' = [unit EXCEPT ![u] = [con |-> c, start |-> start, end |-> Parent]]
    BY <2>1 DEF UnitCreate, hist, wrong
  <2>3. c # None
    BY NoneAssumption
  <2> QED BY <1>2, <2>2, <2>3
<1>6. ASSUME NEW u \in Units, DropUnit(u)
      PROVE  OrphansTimed'
  BY <1>2, <1>6 DEF DropUnit, hist, wrong
<1>7. ASSUME NEW u \in Units, UnitModTime(u)
      PROVE  OrphansTimed'
  <2>1. PICK start \in Given(EtTime, unit[u].start), end \in Given(EtTime, unit[u].end) :
          /\ unit[u].con = None => start >= 0 /\ end >= 0
          /\ unit' = [unit EXCEPT ![u] = [unit[u] EXCEPT !.start = start, !.end = end]]
    BY <1>7 DEF UnitModTime
  <2>2. ~lost /\ unit[u] \in UnitRec
    BY <1>7, UnitTimes DEF UnitModTime, Query, hist, wrong
  <2> QED BY <1>2, <2>1, <2>2 DEF UnitRec
<1>8. ASSUME NEW u \in Units, UnitUnsetConsumer(u)
      PROVE  OrphansTimed'
  <2>1. ~lost /\ unit[u] # None /\ unit[u].con # None /\ unit' = [unit EXCEPT ![u] = Orphan(u)]
    BY <1>8 DEF UnitUnsetConsumer, UnsetQueries, Query, hist, wrong
  <2>2. unit[u] \in UnitRec /\ con[unit[u].con] \in ConRec
    BY <2>1, UnitTimes DEF IInv, TypeOK, UnitRec
  <2>3. UnitStart(u) >= 0 /\ UnitEnd(u) >= 0
    BY <2>1, <2>2, MaxTimeAssumption
    DEF UnitStart, UnitEnd, Inherit, UnitRec, ConRec, EtTime, Time, Clock, Parent, Null
  <2>4. Orphan(u).start >= 0 /\ Orphan(u).end >= 0
    BY <2>3 DEF Orphan
  <2> QED BY <1>2, <2>1, <2>4
<1>9. ASSUME NEW u \in Units, NEW c \in Consumers, UnitSetConsumer(u, c)
      PROVE  OrphansTimed'
  <2>1. ~lost /\ unit[u] # None /\ unit' = [unit EXCEPT ![u] = [unit[u] EXCEPT !.con = c]]
    BY <1>9 DEF UnitSetConsumer, hist, wrong
  <2>2. [unit[u] EXCEPT !.con = c].con # None
    BY <2>1, UnitTimes, NoneAssumption DEF UnitRec
  <2> QED BY <1>2, <2>1, <2>2
<1>10. ASSUME NEW u \in Units, UnitClearInet(u) \/ \E e \in Entries : UnitAddInet(u, e)
       PROVE  UNCHANGED unit /\ ~lost
  BY <1>10 DEF UnitClearInet, UnitAddInet, hist, wrong
<1>11. ASSUME NEW e \in Entries, DropInet(e) \/ UnitModInetTime(e)
       PROVE  UNCHANGED unit /\ ~lost
  <2>1. UNCHANGED <<unit, hist>>
    BY <1>11, Zenon DEF DropInet, UnitModInetTime
  <2> QED BY <2>1 DEF hist, wrong
<1>12. CASE Restart
  <2>1. ~lost /\ ~torn /\ unit' = dbUnit
    BY <1>12 DEF Restart
  <2> QED BY <1>1, <2>1 DEF Sync, SameRows
<1>13. CASE UNCHANGED vars
  BY <1>1, <1>13 DEF vars, mem, hist, wrong
<1> QED
  BY <1>1, <1>3, <1>4, <1>5, <1>6, <1>7, <1>8, <1>9, <1>10, <1>11, <1>12, <1>13 DEF Next

\* The empty registry satisfies both.
LEMMA InitSync == Init => Sync /\ OrphansTimedUntilLost
BY DEF Init, Sync, SameRows, SameEntries, OrphansTimedUntilLost, OrphansTimed, Known

\* Memory is the database, entries that were given times in a wrong order apart,
\* unless a query failed after memory was changed and the daemon has not restarted
\* since: for any clients, failures and restarts.
THEOREM RegistryInSync == Spec => []InSync
<1>1. Sync => InSync
  BY DEF Sync, SameRows, SameEntries, InSync
<1> QED BY <1>1, InitInv, NextInv, InitSync, SyncStep, PTL DEF Spec

\* A unit without a consumer has times of its own until a restart loses a change,
\* wherever unit_unset_consumer is cut off: mbb_unit_mod_time meets no null pointer
\* before that.
THEOREM RegistryOrphansTimed == Spec => []OrphansTimedUntilLost
<1> QED BY InitInv, NextInv, InitSync, SyncStep, OrphanStep, PTL DEF Spec

-----------------------------------------------------------------------------
(* Times stay in order.                                                    *)

\* TimesOrdered of one unit.
Fit(u) == /\ InOrder(UnitStart(u), UnitEnd(u))
          /\ \A e \in Sep(u) \ wronged : EntryInOrder(e, UnitStart(u), UnitEnd(u))

\* What a new unit that inherits both of its times needs of its consumer.
ConsumersOrdered == ~lost => \A c \in Known(con) : InOrder(con[c].start, con[c].end)

\* A test of two times that may be inherited says that the times that count are in
\* order, where the parent's are.
LEMMA TestOrderInherit ==
  ASSUME NEW a \in EtTime, NEW b \in EtTime, NEW pa, NEW pb,
         InOrder(pa, pb), TestOrder(a, b, pa, pb)
  PROVE  InOrder(Inherit(a, pa), Inherit(b, pb))
<1>1. a \in Int /\ b \in Int
  BY MaxTimeAssumption DEF EtTime, Time, Clock, Parent, Null
<1> QED BY <1>1 DEF TestOrder, Inherit

\* A unit whose times stay, and whose entries stay or go, fits as before.
LEMMA FitKept ==
  ASSUME NEW u \in Units, Fit(u),
         UnitStart(u)' = UnitStart(u), UnitEnd(u)' = UnitEnd(u),
         \A e \in Sep(u)' \ wronged' : e \in Sep(u) \ wronged /\ entry'[e] = entry[e]
  PROVE  Fit(u)'
BY DEF Fit, EntryInOrder

\* Consumers stay in order.
LEMMA ConsumerStep ==
  IInv /\ Sync /\ ConsumersOrdered /\ [Next]_vars => ConsumersOrdered'
<1> SUFFICES ASSUME IInv, Sync, ConsumersOrdered, [Next]_vars, ~lost', NEW d \in Known(con')
             PROVE  InOrder(con'[d].start, con'[d].end)
  BY DEF ConsumersOrdered
<1> DEFINE Goal == InOrder(con'[d].start, con'[d].end)
<1>1. ASSUME UNCHANGED con, ~lost
      PROVE  Goal
  BY <1>1 DEF ConsumersOrdered
<1>2. ASSUME NEW c \in Consumers, AddConsumer(c)
      PROVE  Goal
  BY <1>2 DEF AddConsumer, ConsumersOrdered, IInv, TypeOK, Known, InOrder, hist, wrong
<1>3. ASSUME NEW c \in Consumers, DropConsumer(c)
      PROVE  Goal
  BY <1>3 DEF DropConsumer, ConsumersOrdered, IInv, TypeOK, Known, hist, wrong
<1>4. ASSUME NEW c \in Consumers, ConsumerModTime(c)
      PROVE  Goal
  <2>1. ~lost
    BY <1>4 DEF ConsumerModTime, Query, hist, wrong
  <2>2. PICK new : con' = [con EXCEPT ![c] = new] /\ InOrder(new.start, new.end)
    BY <1>4 DEF ConsumerModTime
  <2> QED BY <2>1, <2>2 DEF ConsumersOrdered, IInv, TypeOK, Known
<1>5. ASSUME NEW u \in Units, UnitModTime(u) \/ UnitUnsetConsumer(u)
      PROVE  Goal
  <2>1. UNCHANGED con /\ UNCHANGED lost
    BY <1>5, Zenon DEF UnitModTime, UnitUnsetConsumer, UnsetQueries, Query, hist, wrong
  <2> QED BY <1>1, <2>1
<1>6. ASSUME NEW u \in Units,
             \/ AddUnit(u) \/ DropUnit(u) \/ UnitClearInet(u)
             \/ \E c \in Consumers : ConsumerAddUnit(c, u) \/ UnitSetConsumer(u, c)
             \/ \E e \in Entries : UnitAddInet(u, e)
      PROVE  Goal
  <2>1. UNCHANGED <<con, lost>>
    BY <1>6
    DEF AddUnit, ConsumerAddUnit, UnitCreate, DropUnit, UnitClearInet, UnitSetConsumer,
        UnitAddInet, hist, wrong
  <2> QED BY <1>1, <2>1
<1>7. ASSUME NEW e \in Entries, DropInet(e) \/ UnitModInetTime(e)
      PROVE  Goal
  <2>1. UNCHANGED <<con, hist>>
    BY <1>7, Zenon DEF DropInet, UnitModInetTime
  <2> QED BY <1>1, <2>1 DEF hist, wrong
<1>8. CASE Restart
  BY <1>1, <1>8 DEF Restart, Sync, SameRows
<1>9. CASE UNCHANGED vars
  BY <1>1, <1>9 DEF vars, mem, hist, wrong
<1> QED BY <1>2, <1>3, <1>4, <1>5, <1>6, <1>7, <1>8, <1>9 DEF Next

\* A unit that stays, with its consumer's times, and whose entries stay or go.
LEMMA FitSame ==
  ASSUME NEW u \in Units, Fit(u), unit'[u] = unit[u],
         unit[u].con # None => con'[unit[u].con] = con[unit[u].con],
         \A e \in Sep(u)' \ wronged' : e \in Sep(u) \ wronged /\ entry'[e] = entry[e]
  PROVE  Fit(u)'
<1>1. UnitStart(u)' = UnitStart(u) /\ UnitEnd(u)' = UnitEnd(u)
  BY DEF UnitStart, UnitEnd
<1> QED BY <1>1, FitKept

\* So do units and their entries, wronged ones apart.
LEMMA TimesStep ==
  ASSUME IInv, Sync, OrphansTimedUntilLost, ConsumersOrdered, TimesOrdered,
         [Next]_vars
  PROVE  TimesOrdered'
<1>1. IInv'
  BY NextInv
<1> SUFFICES ASSUME ~lost', NEW v \in Units, unit'[v] # None
             PROVE  Fit(v)'
  BY <1>1 DEF TimesOrdered, Fit, Known, IInv, TypeOK
<1>2. ASSUME ~lost, unit[v] # None
      PROVE  Fit(v)
  BY <1>2 DEF TimesOrdered, Fit, Known, IInv, TypeOK
<1>3. UNCHANGED <<entry, wronged>> =>
        \A e \in Sep(v)' \ wronged' : e \in Sep(v) \ wronged /\ entry'[e] = entry[e]
  BY DEF Sep, Known
<1>4. ASSUME ~lost, UNCHANGED <<unit, con, entry, wronged>>
      PROVE  Fit(v)'
  BY <1>2, <1>3, <1>4, FitSame
<1>5. ASSUME NEW c \in Consumers, AddConsumer(c) \/ DropConsumer(c)
      PROVE  Fit(v)'
  <2>1. ~lost /\ UNCHANGED <<unit, entry, wronged>> /\ unit[v] # None
    BY <1>5 DEF AddConsumer, DropConsumer, hist, wrong
  <2>2. unit[v].con # c
    BY <1>5, <2>1, NoneAssumption DEF AddConsumer, DropConsumer, IInv, TypeOK, Linked, Known
  <2>3. unit[v].con # None => con'[unit[v].con] = con[unit[v].con]
    BY <1>5, <2>1, <2>2 DEF AddConsumer, DropConsumer, IInv, TypeOK, Linked, Known
  <2> QED BY <1>2, <1>3, <2>1, <2>3, FitSame
<1>6. ASSUME NEW c \in Consumers, ConsumerModTime(c)
      PROVE  Fit(v)'
  <2>1. ~lost /\ UNCHANGED <<unit, entry, wronged>> /\ unit[v] # None
    BY <1>6 DEF ConsumerModTime, Query, hist, wrong
  <2>2. PICK new : /\ con' = [con EXCEPT ![c] = new]
                   /\ \A u \in units[c] : TestUnitTime(u, new.start, new.end)
    BY <1>6 DEF ConsumerModTime
  <2>3. CASE unit[v].con = c
    <3>1. TestUnitTime(v, new.start, new.end)
      BY <2>1, <2>2, <2>3 DEF IInv, TypeOK, Linked, Known
    <3>2. /\ UnitStart(v)' = Inherit(unit[v].start, new.start)
          /\ UnitEnd(v)' = Inherit(unit[v].end, new.end)
      BY <2>1, <2>2, <2>3, NoneAssumption DEF UnitStart, UnitEnd, IInv, TypeOK
    <3>3. TestUnitTime(v, new.start, new.end)
            => /\ InOrder(UnitStart(v)', UnitEnd(v)')
               /\ TestInetTime(v, UnitStart(v)', UnitEnd(v)')
      BY <3>2 DEF TestUnitTime
    <3> QED BY <2>1, <3>1, <3>3 DEF Fit, TestInetTime, EntryInOrder, Sep, Known
  <2>4. CASE unit[v].con # c
    <3>1. con'[unit[v].con] = con[unit[v].con] \/ unit[v].con = None
      BY <2>1, <2>2, <2>4 DEF IInv, TypeOK, Linked, Known
    <3> QED BY <1>2, <1>3, <2>1, <3>1, FitSame
  <2> QED BY <2>3, <2>4
<1>7. ASSUME NEW u \in Units, NEW new \in UnitRec, UnitCreate(u, new),
             LET start == IF new.con = None THEN new.start
                          ELSE Inherit(new.start, con[new.con].start)
                 end == IF new.con = None THEN new.end
                        ELSE Inherit(new.end, con[new.con].end)
             IN InOrder(start, end)
      PROVE  Fit(v)'
  <2>1. ~lost /\ UNCHANGED <<con, entry, wronged>> /\ unit' = [unit EXCEPT ![u] = new] /\ unit[u] = None
    BY <1>7 DEF UnitCreate, hist, wrong
  <2>2. CASE u = v
    <3>1. unit'[v] = new
      BY <2>1, <2>2 DEF IInv, TypeOK
    <3>2. InOrder(UnitStart(v)', UnitEnd(v)')
      BY <1>7, <2>1, <3>1 DEF UnitStart, UnitEnd
    <3>3. Sep(v)' = {}
      BY <2>1, <2>2 DEF Sep, Known, IInv, TypeOK, Linked
    <3> QED BY <3>2, <3>3 DEF Fit, TestInetTime, EntryInOrder
  <2>3. CASE u # v
    <3>1. unit'[v] = unit[v]
      BY <2>1, <2>3 DEF IInv, TypeOK
    <3> QED BY <1>2, <1>3, <2>1, <3>1, FitSame
  <2> QED BY <2>2, <2>3
<1>8. ASSUME NEW u \in Units, AddUnit(u)
      PROVE  Fit(v)'
  <2>1. PICK now \in Clock : UnitCreate(u, [con |-> None, start |-> now, end |-> Null])
    BY <1>8 DEF AddUnit
  <2>2. [con |-> None, start |-> now, end |-> Null] \in UnitRec
    BY Times DEF UnitRec
  <2>3. InOrder(now, Null)
    BY DEF InOrder
  <2> QED BY <1>7, <2>1, <2>2, <2>3
<1>9. ASSUME NEW u \in Units, NEW c \in Consumers, ConsumerAddUnit(c, u)
      PROVE  Fit(v)'
  <2>1. c # None /\ con[c] # None /\ con[c] \in ConRec
    BY <1>9, NoneAssumption DEF ConsumerAddUnit, IInv, TypeOK
  <2>2. PICK start \in EtTime :
          /\ UnitCreate(u, [con |-> c, start |-> start, end |-> Parent])
          /\ start = Parent \/ con[c].end = Null
    BY <1>9, Times DEF ConsumerAddUnit
  <2>3. [con |-> c, start |-> start, end |-> Parent] \in UnitRec
    BY Times DEF UnitRec
  <2>4. ~lost
    BY <2>2 DEF UnitCreate, hist, wrong
  <2>5. InOrder(con[c].start, con[c].end)
    BY <2>1, <2>4 DEF ConsumersOrdered, Known, IInv, TypeOK
  <2>6. InOrder(Inherit(start, con[c].start), Inherit(Parent, con[c].end))
    BY <2>2, <2>5 DEF Inherit, Parent, InOrder
  <2> QED BY <1>7, <2>1, <2>2, <2>3, <2>6
<1>10. ASSUME NEW u \in Units, DropUnit(u)
       PROVE  Fit(v)'
  <2>1. ~lost /\ UNCHANGED <<con, entry, wronged>> /\ unit' = [unit EXCEPT ![u] = None]
    BY <1>10 DEF DropUnit, hist, wrong
  <2>2. unit'[v] = unit[v]
    BY <2>1 DEF IInv, TypeOK
  <2> QED BY <1>2, <1>3, <2>1, <2>2, FitSame
<1>11. ASSUME NEW u \in Units, UnitModTime(u)
       PROVE  Fit(v)'
  <2>1. ~lost /\ UNCHANGED <<con, entry, wronged>> /\ unit[u] # None
    BY <1>11 DEF UnitModTime, Query, hist, wrong
  <2>2. PICK start \in Given(EtTime, unit[u].start), end \in Given(EtTime, unit[u].end) :
          LET c == unit[u].con
          IN /\ unit' = [unit EXCEPT ![u] = [unit[u] EXCEPT !.start = start, !.end = end]]
             /\ IF c = None
                  THEN InOrder(start, end) /\ TestInetTime(u, start, end)
                  ELSE /\ TestOrder(start, end, con[c].start, con[c].end)
                       /\ TestInetTime(u, Inherit(start, con[c].start), Inherit(end, con[c].end))
    BY <1>11 DEF UnitModTime
  <2> DEFINE c == unit[u].con
             new == [unit[u] EXCEPT !.start = start, !.end = end]
  <2>3. unit[u] \in UnitRec /\ (c # None => con[c] # None)
    BY <2>1, UnitTimes
  <2>4. start \in EtTime /\ end \in EtTime
    BY <2>3, GivenType DEF UnitRec
  <2>5. CASE u # v
    <3>1. unit'[v] = unit[v]
      BY <2>2, <2>5 DEF IInv, TypeOK
    <3> QED BY <1>2, <1>3, <2>1, <3>1, FitSame
  <2>6. CASE u = v
    <3>1. unit'[v] = new
      BY <2>2, <2>6 DEF IInv, TypeOK
    <3>2. new.con = c /\ new.start = start /\ new.end = end
      BY <2>3 DEF UnitRec
    <3> HIDE DEF new
    <3>3. UNCHANGED Sep(v)
      BY <2>1 DEF Sep, Known
    <3>4. CASE c = None
      <4>1. UnitStart(v)' = start /\ UnitEnd(v)' = end
        BY <3>1, <3>2, <3>4 DEF UnitStart, UnitEnd
      <4>2. InOrder(start, end) /\ TestInetTime(v, start, end)
        BY <2>2, <2>6, <3>4
      <4> QED BY <2>1, <3>3, <4>1, <4>2 DEF Fit, TestInetTime, EntryInOrder
    <3>5. CASE c # None
      <4>1. /\ UnitStart(v)' = Inherit(start, con[c].start)
            /\ UnitEnd(v)' = Inherit(end, con[c].end)
        BY <2>1, <3>1, <3>2, <3>5 DEF UnitStart, UnitEnd
      <4>2. /\ TestOrder(start, end, con[c].start, con[c].end)
            /\ TestInetTime(v, Inherit(start, con[c].start), Inherit(end, con[c].end))
        BY <2>2, <2>6, <3>5
      <4>3. InOrder(con[c].start, con[c].end)
        BY <2>1, <2>3, <3>5 DEF ConsumersOrdered, Known, UnitRec, IInv, TypeOK
      <4>4. InOrder(Inherit(start, con[c].start), Inherit(end, con[c].end))
        BY <2>4, <4>2, <4>3, TestOrderInherit
      <4> HIDE DEF c
      <4> QED BY <2>1, <3>3, <4>1, <4>2, <4>4 DEF Fit, TestInetTime, EntryInOrder
    <3> QED BY <3>4, <3>5
  <2> QED BY <2>5, <2>6
<1>12. ASSUME NEW u \in Units, NEW c \in Consumers, UnitSetConsumer(u, c)
       PROVE  Fit(v)'
  <2>1. /\ ~lost /\ UNCHANGED <<con, entry, wronged>> /\ unit[u] # None /\ unit[u].con = None
        /\ unit' = [unit EXCEPT ![u] = [unit[u] EXCEPT !.con = c]]
    BY <1>12 DEF UnitSetConsumer, hist, wrong
  <2>2. unit[v] # None
    BY <2>1 DEF IInv, TypeOK
  <2>3. CASE u # v
    <3>1. unit'[v] = unit[v]
      BY <2>1, <2>3 DEF IInv, TypeOK
    <3> QED BY <1>2, <1>3, <2>1, <3>1, FitSame
  <2>4. CASE u = v
    <3>1. unit[v] \in UnitRec /\ unit[v].start >= 0 /\ unit[v].end >= 0
      BY <2>1, <2>4, UnitTimes DEF OrphansTimedUntilLost, OrphansTimed, Known, IInv, TypeOK
    <3>2. /\ unit'[v].con = c /\ unit'[v].start = unit[v].start /\ unit'[v].end = unit[v].end
      BY <2>1, <2>4, <3>1 DEF IInv, TypeOK, UnitRec
    <3>3. unit[v].start \in Int /\ unit[v].end \in Int
      BY <3>1, MaxTimeAssumption DEF UnitRec, EtTime, Time, Clock, Parent, Null
    <3>4. UnitStart(v)' = UnitStart(v) /\ UnitEnd(v)' = UnitEnd(v)
      BY <2>1, <2>4, <3>1, <3>2, <3>3, NoneAssumption DEF UnitStart, UnitEnd, Inherit
    <3> QED BY <1>2, <1>3, <2>1, <2>2, <3>4, FitKept
  <2> QED BY <2>3, <2>4
<1>13. ASSUME NEW u \in Units, UnitUnsetConsumer(u)
       PROVE  Fit(v)'
  <2>1. /\ ~lost /\ UNCHANGED <<con, entry, wronged>> /\ unit[u] # None
        /\ unit' = [unit EXCEPT ![u] = Orphan(u)]
    BY <1>13 DEF UnitUnsetConsumer, UnsetQueries, Query, hist, wrong
  <2>2. unit[v] # None
    BY <2>1 DEF IInv, TypeOK
  <2>3. CASE u # v
    <3>1. unit'[v] = unit[v]
      BY <2>1, <2>3 DEF IInv, TypeOK
    <3> QED BY <1>2, <1>3, <2>1, <3>1, FitSame
  <2>4. CASE u = v
    <3>1. unit'[v] = Orphan(v)
      BY <2>1, <2>4 DEF IInv, TypeOK
    <3>2. UnitStart(v)' = UnitStart(v) /\ UnitEnd(v)' = UnitEnd(v)
      <4>1. Orphan(v).con = None /\ Orphan(v).start = UnitStart(v) /\ Orphan(v).end = UnitEnd(v)
        BY DEF Orphan
      <4>2. UnitStart(v)' = unit'[v].start /\ UnitEnd(v)' = unit'[v].end
        BY <3>1, <4>1 DEF UnitStart, UnitEnd
      <4> QED BY <3>1, <4>1, <4>2
    <3> QED BY <1>2, <1>3, <2>1, <2>2, <3>2, FitKept
  <2> QED BY <2>3, <2>4
<1>14. ASSUME NEW u \in Units, NEW e \in Entries, UnitAddInet(u, e)
       PROVE  Fit(v)'
  <2>1. ~lost /\ UNCHANGED <<unit, con, wronged>> /\ unit[u] # None
    BY <1>14 DEF UnitAddInet, hist, wrong
  <2>2. PICK start \in EtTime :
          /\ entry' = [entry EXCEPT ![e] = [owner |-> u, start |-> start, end |-> Parent]]
          /\ start = Parent \/ UnitEnd(u) = Null
    BY <1>14, Times DEF UnitAddInet
  <2>3. Fit(v) /\ UnitStart(v)' = UnitStart(v) /\ UnitEnd(v)' = UnitEnd(v)
    BY <1>2, <2>1 DEF UnitStart, UnitEnd
  <2>4. ASSUME NEW f \in Sep(v)' \ wronged'
        PROVE  InOrder(Inherit(entry'[f].start, UnitStart(v)), Inherit(entry'[f].end, UnitEnd(v)))
    <3>1. CASE f = e
      <4>1. entry'[f] = [owner |-> u, start |-> start, end |-> Parent] /\ u = v
        BY <2>2, <2>4, <3>1 DEF Sep, Known, IInv, TypeOK
      <4>2. InOrder(Inherit(start, UnitStart(v)), Inherit(Parent, UnitEnd(v)))
        BY <2>2, <2>3, <4>1 DEF Fit, Inherit, Parent, InOrder
      <4> QED BY <4>1, <4>2
    <3>2. CASE f # e
      <4>1. f \in Sep(v) \ wronged /\ entry'[f] = entry[f]
        BY <2>1, <2>2, <2>4, <3>2 DEF Sep, Known, IInv, TypeOK
      <4> QED BY <2>3, <4>1 DEF Fit, EntryInOrder
    <3> QED BY <3>1, <3>2
  <2> QED BY <2>3, <2>4 DEF Fit, EntryInOrder
<1>15. ASSUME \/ \E e \in Entries : DropInet(e)
              \/ \E u \in Units : UnitClearInet(u)
       PROVE  Fit(v)'
  <2>0. UNCHANGED <<unit, con, hist>>
    BY <1>15, Zenon DEF DropInet, UnitClearInet
  <2>1. ~lost /\ UNCHANGED <<unit, con>>
    BY <2>0 DEF hist
  <2>2. \A f \in Sep(v)' \ wronged' : f \in Sep(v) \ wronged /\ entry'[f] = entry[f]
    BY <1>15 DEF DropInet, UnitClearInet, Righted, Sep, Known, IInv, TypeOK
  <2> QED BY <1>2, <2>1, <2>2, FitSame
<1>16. ASSUME NEW e \in Entries, UnitModInetTime(e)
       PROVE  Fit(v)'
  <2>1. UNCHANGED <<unit, con, hist>> /\ entry[e] # None
    BY <1>16, Zenon DEF UnitModInetTime
  <2>2. PICK new \in EntryRec :
          /\ entry' = [entry EXCEPT ![e] = new]
          /\ new.owner = entry[e].owner
          /\ \/ /\ TestOrder(new.start, new.end, UnitStart(new.owner), UnitEnd(new.owner))
                /\ Righted({e})
             \/ wronged' = wronged \cup {e}
    BY <1>16, NewInetTime
  <2>3. Fit(v) /\ UnitStart(v)' = UnitStart(v) /\ UnitEnd(v)' = UnitEnd(v)
    BY <1>2, <2>1 DEF UnitStart, UnitEnd, hist
  <2>4. ASSUME NEW f \in Sep(v)' \ wronged'
        PROVE  InOrder(Inherit(entry'[f].start, UnitStart(v)), Inherit(entry'[f].end, UnitEnd(v)))
    <3>1. CASE f = e
      <4>1. entry'[f] = new /\ entry[e].owner = v
        BY <2>2, <2>4, <3>1 DEF Sep, Known, IInv, TypeOK
      <4>2. TestOrder(new.start, new.end, UnitStart(v), UnitEnd(v))
        BY <2>2, <2>4, <3>1, <4>1
      <4>3. InOrder(Inherit(new.start, UnitStart(v)), Inherit(new.end, UnitEnd(v)))
        BY <2>3, <4>2, TestOrderInherit DEF Fit, EntryRec
      <4> QED BY <2>2, <4>1, <4>3
    <3>2. CASE f # e
      <4>1. f \in Sep(v) \ wronged /\ entry'[f] = entry[f]
        BY <2>2, <2>4, <3>2 DEF Sep, Known, IInv, TypeOK, Righted
      <4> QED BY <2>3, <4>1 DEF Fit, EntryInOrder
    <3> QED BY <3>1, <3>2
  <2> QED BY <2>3, <2>4 DEF Fit, EntryInOrder
<1>17. CASE Restart
  <2>1. ~lost /\ ~torn
    BY <1>17 DEF Restart
  <2>2. UNCHANGED <<unit, con>>
    BY <1>17, <2>1 DEF Restart, Sync, SameRows
  <2>3. \A f \in Sep(v)' \ wronged' : f \in Sep(v) \ wronged /\ entry'[f] = entry[f]
    BY <1>17, <2>1 DEF Restart, Sync, SameEntries, Sep, Known, IInv, TypeOK
  <2> QED BY <1>2, <2>1, <2>2, <2>3, FitSame
<1>18. CASE UNCHANGED vars
  BY <1>4, <1>18 DEF vars, mem, hist, wrong
<1> QED
  BY <1>5, <1>6, <1>8, <1>9, <1>10, <1>11, <1>12, <1>13, <1>14, <1>15, <1>16, <1>17, <1>18
  DEF Next

\* What starts does so before it ends, inherited times included, for consumers,
\* units and entries in any number, through any sequence of the methods and any
\* failures, until a restart loses a change; an entry that was given times in a wrong
\* order is apart until it has good ones, and breaks the order of nothing else.
THEOREM RegistryTimesOrdered == Spec => []TimesOrdered
<1> DEFINE TInv == /\ IInv /\ Sync /\ OrphansTimedUntilLost
                   /\ ConsumersOrdered /\ TimesOrdered
<1>1. Init => TInv
  <2>1. Init => ConsumersOrdered /\ TimesOrdered
    BY DEF Init, ConsumersOrdered, TimesOrdered, Known
  <2> QED BY <2>1, InitInv, InitSync
<1>2. TInv /\ [Next]_vars => TInv'
  BY NextInv, SyncStep, OrphanStep, ConsumerStep, TimesStep
<1>3. TInv => TimesOrdered
  OBVIOUS
<1> QED BY <1>1, <1>2, <1>3, PTL DEF Spec
=============================================================================
