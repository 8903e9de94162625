CONSTANTS
  Units = {u1}
  Consumers = {c1}
  Entries = {e1}
  None = None
  MaxTime = 2
  MaxFailures = 1
SPECIFICATION Spec
INVARIANTS
  SameObjects
  Linked
  InSync
  TimesOrdered
