SPECIFICATION FairSpec
CONSTANTS
  a1 = a1
  a2 = a2
  h1 = h1
  h2 = h2
  h3 = h3
  t1 = t1
  t2 = t2
  Approvals = {a1, a2}
  Holds = {h1}
  Tasks = {t1}
  ToolCalls = {}
  Sensitive = {}
  ActionOf <- SameAction
  NoHold = NoHold
PROPERTIES
  AgentCannotAskAround
CHECK_DEADLOCK FALSE
