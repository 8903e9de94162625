---------------------------- MODULE AddressPlan ----------------------------
(***************************************************************************)
(* What the address maps promise, point by point.  An inet entry gives its  *)
(* unit some points, an address at a time, or takes them from it            *)
(* (exclusive); the order of entries is by nice.  A unit's plan tells which *)
(* entry owns a point; the plan changes only when it is rebuilt, and a      *)
(* rebuild that meets a collision changes nothing.  The claims are the      *)
(* plans that units brought into the common map, never two at one point; a  *)
(* unit that fails to get in has no claim at all.                          *)
(***************************************************************************)
EXTENDS Integers, Sequences, FiniteSets, SequencesExt

CONSTANTS Units, Entries, Points, None,
          Kinds,        \* the records an entry can be: [points, flag, nice]
          Owner         \* the unit of an entry

VARIABLES entry,        \* of each entry, one of Kinds or None
          plan,         \* of each unit and point, an entry or None
          claims,       \* of each point, an entry or None
          removed       \* units that are no longer in the registry

vars == <<entry, plan, claims, removed>>

Empty == [p \in Points |-> None]

Init == /\ entry = [e \in Entries |-> None]
        /\ plan = [u \in Units |-> Empty]
        /\ claims = Empty
        /\ removed = {}

Of(u) == {e \in Entries : Owner[e] = u}
Without(view, es) == [p \in Points |-> IF view[p] \in es THEN None ELSE view[p]]

\* Of the entries ent, the ones of a unit that give it points, and the ones that take a
\* point back from an entry of this nice.
Given(u, ent) == {e \in Of(u) : ent[e] # None /\ ent[e].flag}
Takers(u, ent, p, nice) ==
  {x \in Of(u) : ent[x] # None /\ ~ent[x].flag /\ p \in ent[x].points /\ ent[x].nice >= nice}

Collision(u, ent) ==
  \E e, f \in Given(u, ent) :
    /\ e # f
    /\ ent[e].nice <= ent[f].nice
    /\ \E p \in ent[e].points \cap ent[f].points :
         \A x \in Takers(u, ent, p, ent[e].nice) : ent[x].nice >= ent[f].nice

Owners(u, ent, p) ==
  {e \in Given(u, ent) : p \in ent[e].points /\ Takers(u, ent, p, ent[e].nice) = {}}

PlanOf(u, ent) ==
  [p \in Points |-> IF Owners(u, ent, p) = {} THEN None ELSE CHOOSE e \in Owners(u, ent, p) : TRUE]

Rebuilt(u, ent, view) == IF Collision(u, ent) THEN view ELSE PlanOf(u, ent)

Claimed(view, u, mine) ==
  LET others == Without(view, Of(u))
      cross == \E p \in Points : mine[p] # None /\ others[p] # None
  IN IF cross THEN others
     ELSE [p \in Points |-> IF mine[p] # None THEN mine[p] ELSE others[p]]

-----------------------------------------------------------------------------
(* Entries come, change and go.                                            *)

Forgotten(es) ==
  /\ entry' = [e \in Entries |-> IF e \in es THEN None ELSE entry[e]]
  /\ plan' = [u \in Units |-> Without(plan[u], es)]
  /\ claims' = Without(claims, es)

\* The entry is another now, of any kind.
Becomes(e) == entry'[e] \in Kinds /\ entry' = [entry EXCEPT ![e] = entry'[e]]

Add(e) == entry[e] = None /\ Owner[e] \notin removed /\ Becomes(e) /\ UNCHANGED <<plan, claims>>

Change(e) == /\ entry[e] # None /\ Becomes(e) /\ entry'[e].flag = entry[e].flag
             /\ UNCHANGED <<plan, claims>>

Drop(e) == entry[e] # None /\ Forgotten({e})

Clear(u) == u \notin removed /\ Forgotten(Of(u))

\* Only a unit without entries is removed.
Withdraw(u) == /\ u \notin removed
               /\ \A e \in Of(u) : entry[e] = None
               /\ removed' = removed \cup {u}
               /\ UNCHANGED <<entry, plan, claims>>

-----------------------------------------------------------------------------
(* Plans and claims change.                                                *)

Rebuild(u) == plan' = [plan EXCEPT ![u] = Rebuilt(u, entry, @)]
ClearPlan(u) == plan' = [plan EXCEPT ![u] = Empty]

Claim(u) == claims' = Claimed(claims, u, plan[u])
Disclaim(u) == claims' = Without(claims, Of(u))
ClearClaims == claims' = Empty

\* Some units, one after another, rebuild their plan and, if they can, claim it.
ReloadFrom(view, order, ent) ==
  /\ plan' = [u \in Units |-> IF u \in Range(order) THEN Rebuilt(u, ent, plan[u]) ELSE plan[u]]
  /\ claims' = FoldLeft(LAMBDA v, u : IF Collision(u, ent) THEN v ELSE Claimed(v, u, PlanOf(u, ent)),
                        view, order)
ReloadUnit(u) == ReloadFrom(claims, <<u>>, entry)
ReloadAll == \E order \in SetToSeqs(Units \ removed) : ReloadFrom(Empty, order, entry)

Next ==
  \/ /\ UNCHANGED <<removed, entry>>
     /\ \/ UNCHANGED claims /\ \E u \in Units \ removed : Rebuild(u) \/ ClearPlan(u)
        \/ UNCHANGED plan /\ (ClearClaims \/ \E u \in Units \ removed : Claim(u) \/ Disclaim(u))
        \/ \E u \in Units \ removed : ReloadUnit(u)
        \/ ReloadAll
  \/ /\ UNCHANGED removed
     /\ \/ \E e \in Entries : Add(e) \/ Change(e) \/ Drop(e)
        \/ \E u \in Units : Clear(u)
  \/ \E u \in Units : Withdraw(u)

Spec == Init /\ [][Next]_vars
=============================================================================
