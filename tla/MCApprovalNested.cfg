SPECIFICATION Spec
CONSTANTS
  a1 = a1
  a2 = a2
  h1 = h1
  h2 = h2
  h3 = h3
  t1 = t1
  t2 = t2
  Approvals = {a1, a2}
  Holds = {h1, h2}
  Tasks = {t1}
  ToolCalls = {a2}
  Sensitive = {a1}
  ActionOf <- SameAction
  NoHold = NoHold
SYMMETRY Interchangeable
INVARIANTS
  OperatorsWordStands
PROPERTIES
  ArgumentsUntilFinal
  ImplementsGrants
CHECK_DEADLOCK FALSE
