CONSTANTS
  Xml = {x1}
  Http = {h1}
  Batches <- SmallBatches
  None = None
SPECIFICATION Spec
INVARIANTS
  HandedOver
  AnsweredInOrder
PROPERTY Served
CHECK_DEADLOCK FALSE
